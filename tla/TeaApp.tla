------------------------------- MODULE TeaApp -------------------------------
(***************************************************************************)
(* The terminal application of tea-agent (app/runtime.rs, input.rs,        *)
(* picker.rs, state.rs): one thread that in a loop drains the events of    *)
(* the agent, reaps the operation it spawned, redraws and handles a key,   *)
(* while that operation runs on the executor's thread.  The view is folded *)
(* from the events; the transcript, the queues and the phase belong to the *)
(* agent.                                                                  *)
(*                                                                         *)
(* The agent's run is here what the application can see of it (RunLoop has *)
(* the rest): a response has at most one tool call, and automatic          *)
(* compaction is left out.                                                 *)
(***************************************************************************)
EXTENDS Naturals, FiniteSets, SequencesExt

CONSTANTS
    Prompts,        \* texts a user types
    Models,         \* models the picker offers
    InitialModels,  \* the selection restored at the start; may contain NoModel
    Commands,       \* bound: the keys and commands a user of this run uses
    MaxKeys,        \* bound: keys and commands
    MaxTurns,       \* bound: requests of one run
    MaxDeltas,      \* bound: text deltas of one response
    MaxCalls,       \* bound: tool calls of the whole session
    MaxSessions,    \* bound: session identifiers
    Versions,       \* contents of the extension registry that load
    Faults          \* of "stream", "calls", "compactor", "panic", "save", "model", "broken"

ASSUME AppAssumption ==
    /\ {MaxKeys, MaxTurns, MaxDeltas, MaxCalls, MaxSessions} \subseteq Nat
    /\ MaxSessions > 0
    /\ InitialModels \subseteq Models \cup {"none"}

VARIABLES
    agent,      \* the agent: phase, transcript, queues and model
    events,     \* events the subscription holds and the view has not seen
    op,         \* the operation that was spawned last
    view,       \* AppState: transcript rows and status
    ui,         \* the event loop and the input it holds
    session,    \* the session shown, the files on disk, the next identifier
    extensions, \* the registry on disk and the configuration in use
    used        \* keys pressed and calls made, bounded

vars == <<agent, events, op, view, ui, session, extensions, used>>

NoModel == "none"
NoFile == <<[role |-> "nothing"]>>
Broken == "broken"
Summary == "summary"

Idle == agent.phase = "idle"
Cancelled == agent.phase = "cancelling"

-----------------------------------------------------------------------------
(* Messages, and the rows they are shown as. *)

User(text) == [role |-> "user", text |-> text]
Response(n, calls, stop) ==
    [role |-> "assistant", text |-> n, calls |-> calls, stop |-> stop]
ToolResult(call, isError) == [role |-> "tool", call |-> call, isError |-> isError]

\* Responses that carry an error message: the provider's, or a settlement's.
IsError(m) == m.role = "assistant" /\ m.stop \in {"Error", "Aborted"}

UserRow(text) == [kind |-> "user", text |-> text]
TextRow(n, streaming) == [kind |-> "assistant", text |-> n, streaming |-> streaming]
ErrorRow == [kind |-> "error"]
ToolRow(call, state) == [kind |-> "tool", call |-> call, state |-> state]
WelcomeRow == [kind |-> "welcome"]

Outcome(isError) == IF isError THEN "Failed" ELSE "Completed"

\* restore_messages: the row of a message of a session that is resumed.
Row(m) ==
    CASE m.role = "user" -> UserRow(m.text)
      [] IsError(m) -> ErrorRow
      [] m.role = "assistant" /\ ~IsError(m) -> TextRow(m.text, FALSE)
      [] m.role = "tool" -> ToolRow(m.call, Outcome(m.isError))

Rows(messages) == [i \in DOMAIN messages |-> Row(messages[i])]

-----------------------------------------------------------------------------
(* apply_event: the view after an event. *)

Event(kind, of) == [kind |-> kind, of |-> of]

Push(v, row) == [v EXCEPT !.rows = Append(@, row)]
Put(v, i, row) == [v EXCEPT !.rows[i] = row]

\* The rows of the tool calls in progress: call -> row.
ToolAt(v, call) == {i \in v.tools : v.rows[i].call = call}
UpdateTool(v, call, state) ==
    IF ToolAt(v, call) # {}
    THEN Put(v, CHOOSE i \in ToolAt(v, call) : TRUE, ToolRow(call, state))
    ELSE [Push(v, ToolRow(call, state)) EXCEPT !.tools = @ \cup {Len(v.rows) + 1}]

MessageUpdate(v) ==
    IF v.streaming # 0
    THEN [v EXCEPT !.rows[v.streaming].text = @ + 1]
    ELSE [Push(v, TextRow(1, TRUE)) EXCEPT !.streaming = Len(v.rows) + 1]

\* Mutant: the row stays the streaming one.
MessageEnd_Streaming(v, m) ==
    IF v.streaming # 0 THEN Put(v, v.streaming, Row(m)) ELSE Push(v, Row(m))

MessageEnd(v, m) ==
    IF v.streaming # 0 THEN [Put(v, v.streaming, Row(m)) EXCEPT !.streaming = 0]
                       ELSE Push(v, Row(m))

ApplyEvent(v, e) ==
    CASE e.kind \in {"agent_start", "compaction_start"} -> [v EXCEPT !.status = "active"]
      [] e.kind = "user" -> Push(v, UserRow(e.of))
      [] e.kind = "delta" -> MessageUpdate(v)
      [] e.kind = "message_end" -> MessageEnd(v, e.of)
      [] e.kind = "tool_start" ->
            [Push(v, ToolRow(e.of, "Started")) EXCEPT !.tools = @ \cup {Len(v.rows) + 1}]
      [] e.kind = "tool_update" -> UpdateTool(v, e.of, "Progress")
      [] e.kind = "tool_end" ->
            LET w == UpdateTool(v, e.of.call, Outcome(e.of.isError))
            IN  [w EXCEPT !.tools = @ \ ToolAt(w, e.of.call)]
      [] e.kind \in {"compaction_end", "turn_failed"} -> [v EXCEPT !.status = "notice"]
      [] e.kind = "agent_end" ->
            [v EXCEPT !.status = IF @ = "active" THEN "idle" ELSE @]

\* clear_transcript
Cleared(v) == [v EXCEPT !.rows = <<>>, !.streaming = 0, !.tools = {}]
Noticed(v) == [v EXCEPT !.status = "notice"]

-----------------------------------------------------------------------------
(* The operation, on the executor: RunHandle::drive and                     *)
(* CompactionHandle::drive as the application sees them.                    *)

At(kind, label) == op.kind = kind /\ op.at = label
Emit(s) == events' = events \o s
Say(m) == <<Event("message_end", m)>>
Calls == {k \in 1 .. MaxCalls : k > used.calls}
OffUi == UNCHANGED <<view, ui, session>>

\* A run that was aborted before it was first polled.
RunRefused ==
    /\ op.at = "created" /\ Idle
    /\ op' = [op EXCEPT !.at = "returned", !.outcome = "failed"]
    /\ OffUi /\ UNCHANGED <<agent, events, extensions, used>>

RunStart ==
    /\ At("run", "created") /\ ~Idle
    /\ Emit(<<Event("agent_start", 0), Event("user", op.prompt)>>)
    /\ op' = [op EXCEPT !.at = "inject"]
    /\ OffUi /\ UNCHANGED <<agent, extensions, used>>

\* What is injected before the next request, one message at a time.
InjectFrom(queue) ==
    /\ queue # <<>>
    /\ Emit(<<Event("user", Head(queue))>>)
    /\ op' = [op EXCEPT !.at = "request", !.turn = @ + 1, !.deltas = 0]

InjectSteering ==
    /\ op.kind = "run" /\ op.at \in {"inject", "boundary"}
    /\ InjectFrom(agent.steering)
    /\ agent' = [agent EXCEPT !.messages = Append(@, User(Head(agent.steering))),
                              !.steering = Tail(@)]
    /\ OffUi /\ UNCHANGED <<extensions, used>>

NoInput ==
    /\ \/ At("run", "inject")
       \/ At("run", "boundary") /\ op.more
    /\ agent.steering = <<>>
    /\ op' = [op EXCEPT !.at = "request", !.turn = @ + 1, !.deltas = 0]
    /\ OffUi /\ UNCHANGED <<agent, events, extensions, used>>

InjectFollowUp ==
    /\ At("run", "boundary") /\ ~op.more /\ agent.steering = <<>>
    /\ InjectFrom(agent.followUp)
    /\ agent' = [agent EXCEPT !.messages = Append(@, User(Head(agent.followUp))),
                              !.followUp = Tail(@)]
    /\ OffUi /\ UNCHANGED <<extensions, used>>

Succeed ==
    /\ At("run", "boundary") /\ ~op.more
    /\ agent.steering = <<>> /\ agent.followUp = <<>>
    /\ Emit(<<Event("agent_end", 0)>>)
    /\ op' = [op EXCEPT !.at = "ended", !.outcome = "ok"]
    /\ OffUi /\ UNCHANGED <<agent, extensions, used>>

\* The transcript with the response so far, or what became of it.
Responded(m) ==
    IF op.deltas = 0 THEN Append(agent.messages, m)
    ELSE [agent.messages EXCEPT ![Len(agent.messages)] = m]

TextDelta ==
    /\ At("run", "request") /\ op.deltas < MaxDeltas
    /\ agent' = [agent EXCEPT !.messages = Responded(Response(op.deltas + 1, {}, "None"))]
    /\ Emit(<<Event("delta", 0)>>)
    /\ op' = [op EXCEPT !.deltas = @ + 1]
    /\ OffUi /\ UNCHANGED <<extensions, used>>

\* The response ends: with text, with a call, or with a call and another stop
\* reason, which the run then refuses.
ResponseEnds(calls, stop, next) ==
    LET m == Response(op.deltas, calls, stop)
    IN  /\ At("run", "request")
        /\ agent' = [agent EXCEPT !.messages = Responded(m)]
        /\ Emit(Say(m))
        /\ op' = [op EXCEPT !.at = next, !.more = FALSE]
        /\ used' = [used EXCEPT !.calls = @ + Cardinality(calls)]
        /\ OffUi /\ UNCHANGED extensions

Stops == ResponseEnds({}, "Stop", "boundary")
CallsTool == op.turn < MaxTurns /\ Calls # {}
             /\ ResponseEnds({used.calls + 1}, "ToolUse", "tool")
UnexpectedCalls == "calls" \in Faults /\ Calls # {}
                   /\ ResponseEnds({used.calls + 1}, "Stop", "failing")

StartTool ==
    /\ At("run", "tool")
    /\ Emit(<<Event("tool_start", used.calls)>>)
    /\ op' = [op EXCEPT !.at = "running"]
    /\ OffUi /\ UNCHANGED <<agent, extensions, used>>

UpdateFromTool ==
    /\ At("run", "running") /\ op.deltas < MaxDeltas
    /\ Emit(<<Event("tool_update", used.calls)>>)
    /\ op' = [op EXCEPT !.deltas = @ + 1]
    /\ OffUi /\ UNCHANGED <<agent, extensions, used>>

\* A tool may have written an extension file.
EndTool ==
    /\ At("run", "running")
    /\ \E isError \in {Cancelled, FALSE} :
         LET m == ToolResult(used.calls, isError)
         IN  /\ agent' = [agent EXCEPT !.messages = Append(@, m)]
             /\ Emit(<<Event("tool_end", m)>>)
    /\ \E disk \in {extensions.disk} \cup Versions
                   \cup (IF "broken" \in Faults THEN {Broken} ELSE {}) :
         extensions' = [extensions EXCEPT !.disk = disk]
    /\ op' = [op EXCEPT !.at = "boundary", !.more = TRUE]
    /\ OffUi /\ UNCHANGED used

\* The run is settled with an error message of its own, unless the response
\* was the aborted one already.
Settle(outcome, synthetic) ==
    /\ agent' = [agent EXCEPT !.messages = @ \o synthetic]
    /\ Emit((IF synthetic = <<>> THEN <<>> ELSE Say(synthetic[1]))
            \o <<Event("turn_failed", 0), Event("agent_end", 0)>>)
    /\ op' = [op EXCEPT !.at = "ended", !.outcome = outcome]
    /\ OffUi /\ UNCHANGED <<extensions, used>>

RunFails ==
    /\ \/ At("run", "failing")
       \/ At("run", "request") /\ "stream" \in Faults
    /\ ~Cancelled
    /\ Settle("failed", <<Response(0, {}, "Error")>>)

RunCancelled ==
    /\ op.kind = "run" /\ op.at \in {"request", "failing"}
    /\ Cancelled
    /\ Settle("cancelled", <<Response(0, {}, "Aborted")>>)

\* The provider itself ends the response with an error or as cancelled.
ResponseFails ==
    /\ At("run", "request")
    /\ \E stop \in (IF "stream" \in Faults THEN {"Error"} ELSE {})
                   \cup (IF Cancelled THEN {"Cancelled", "Aborted"} ELSE {}) :
         LET m == Response(op.deltas, {}, stop)
         IN  /\ agent' = [agent EXCEPT !.messages = Responded(m)]
             /\ Emit(Say(m) \o <<Event("turn_failed", 0), Event("agent_end", 0)>>)
             /\ op' = [op EXCEPT !.at = "ended",
                         !.outcome = IF stop = "Error" THEN "failed" ELSE "cancelled"]
    /\ OffUi /\ UNCHANGED <<extensions, used>>

CompactionStart ==
    /\ At("compaction", "created")
    /\ Emit(<<Event("compaction_start", 0)>>)
    /\ op' = [op EXCEPT !.at = "compacting"]
    /\ OffUi /\ UNCHANGED <<agent, extensions, used>>

\* The compactor of the application answers with one summary message.
CompactionEnd ==
    /\ At("compaction", "compacting")
    /\ Emit(<<Event("compaction_end", 0)>>)
    /\ \/ /\ ~Cancelled
          /\ agent' = [agent EXCEPT !.messages = IF @ = <<>> THEN @ ELSE <<User(Summary)>>]
          /\ op' = [op EXCEPT !.at = "ended", !.outcome = "ok"]
       \/ /\ Cancelled \/ "compactor" \in Faults
          /\ op' = [op EXCEPT !.at = "ended",
                      !.outcome = IF Cancelled THEN "cancelled" ELSE "failed"]
          /\ UNCHANGED agent
    /\ OffUi /\ UNCHANGED <<extensions, used>>

\* settle_agent: the agent is idle before drive returns.
Finish ==
    /\ op.at = "ended"
    /\ agent' = [agent EXCEPT !.phase = "idle"]
    /\ op' = [op EXCEPT !.at = "returned"]
    /\ OffUi /\ UNCHANGED <<events, extensions, used>>

\* spawn_operation: what drive returned is sent to whoever still waits for it.
SendResult ==
    /\ op.at = "returned"
    /\ op' = [op EXCEPT !.at = "sent"]
    /\ agent' = agent
    /\ OffUi /\ UNCHANGED <<events, extensions, used>>

\* A provider, tool or compactor that panics, in a build that unwinds: the task
\* is dropped with its sender, and RunHandle::drop cancels a run that nobody
\* will settle.
OperationPanics ==
    /\ "panic" \in Faults /\ op.at \in {"request", "running", "compacting"}
    /\ op' = [op EXCEPT !.at = "dropped"]
    /\ agent' = [agent EXCEPT !.phase = "cancelling"]
    /\ OffUi /\ UNCHANGED <<events, extensions, used>>

Drive ==
    \/ RunRefused \/ RunStart \/ InjectSteering \/ NoInput \/ InjectFollowUp
    \/ TextDelta \/ Stops \/ CallsTool \/ UnexpectedCalls \/ ResponseFails
    \/ StartTool \/ UpdateFromTool \/ EndTool
    \/ Succeed \/ RunFails \/ RunCancelled
    \/ CompactionStart \/ CompactionEnd \/ Finish \/ SendResult

-----------------------------------------------------------------------------
(* The event loop. *)

\* drain_events: the executor may emit while it runs.
Drain ==
    /\ ui.at = "drain"
    /\ IF events = <<>>
       THEN /\ ui' = [ui EXCEPT !.at = "reap"]
            /\ UNCHANGED <<events, view>>
       ELSE /\ view' = ApplyEvent(view, Head(events))
            /\ events' = Tail(events)
            /\ UNCHANGED ui
    /\ UNCHANGED <<agent, op, session, extensions, used>>

\* reload_tea_extensions: a registry that does not load, or an agent that is
\* not idle, leaves the configuration that is in use.
Reloaded ==
    IF extensions.disk # Broken /\ Idle
    THEN [extensions EXCEPT !.loaded = extensions.disk] ELSE extensions

\* persist_session: nothing to save, saved, or failed.
Saved == [session EXCEPT !.files[session.id] = agent.messages]
PersistResults ==
    IF ~Idle THEN {[saved |-> FALSE, session |-> session]}
    ELSE IF agent.messages = <<>> THEN {[saved |-> TRUE, session |-> session]}
    ELSE {[saved |-> TRUE, session |-> Saved]}
         \cup (IF "save" \in Faults THEN {[saved |-> FALSE, session |-> session]} ELSE {})

Ready == ui.task = "waiting" /\ op.at = "sent"
AfterReap(task) == IF ui.quitting /\ task = "none" THEN "exited" ELSE "poll"

ReapSuccess ==
    /\ ui.at = "reap" /\ Ready /\ op.outcome = "ok"
    /\ \E result \in PersistResults :
         /\ session' = result.session
         /\ view' = [view EXCEPT !.status =
                       IF result.saved /\ extensions.disk # Broken THEN "idle" ELSE "notice"]
    /\ extensions' = Reloaded
    /\ ui' = [ui EXCEPT !.task = "none", !.prompt = "", !.at = AfterReap("none")]
    /\ UNCHANGED <<agent, events, op, used>>

\* Mutant: a failed prompt is not given back.
ReapFailure_Drops ==
    /\ ui.at = "reap" /\ Ready /\ op.outcome # "ok"
    /\ view' = Noticed(view)
    /\ extensions' = Reloaded
    /\ ui' = [ui EXCEPT !.task = "none", !.prompt = "", !.at = AfterReap("none")]
    /\ UNCHANGED <<agent, events, op, session, used>>

\* Mutant: what a failed run left is saved as well.
ReapFailure_Saves ==
    /\ ui.at = "reap" /\ Ready /\ op.outcome # "ok"
    /\ view' = Noticed(view)
    /\ session' = Saved
    /\ extensions' = Reloaded
    /\ ui' = [ui EXCEPT !.task = "none", !.prompt = "", !.at = AfterReap("none"),
                        !.composer = IF @ = "" THEN ui.prompt ELSE @]
    /\ UNCHANGED <<agent, events, op, used>>

\* restore_submitted_prompt: the prompt comes back into an empty composer, or
\* stays stored.
ReapFailure ==
    /\ ui.at = "reap" /\ Ready /\ op.outcome # "ok"
    /\ view' = Noticed(view)
    /\ extensions' = Reloaded
    /\ ui' = IF ui.composer = "" /\ ui.prompt # ""
             THEN [ui EXCEPT !.task = "none", !.composer = ui.prompt, !.prompt = "",
                             !.at = AfterReap("none")]
             ELSE [ui EXCEPT !.task = "none", !.at = AfterReap("none")]
    /\ UNCHANGED <<agent, events, op, session, used>>

\* TryRecvError::Disconnected: the sender is gone.
Disconnected == ui.task = "waiting" /\ op.at = "dropped"

\* Mutant: a channel without a sender is taken for an empty one.
ReapDisconnected_Waits ==
    /\ ui.at = "reap" /\ Disconnected
    /\ ui' = [ui EXCEPT !.at = AfterReap(ui.task)]
    /\ UNCHANGED <<agent, events, op, view, session, extensions, used>>

\* The task is over, but its prompt stays stored and nothing is reloaded.
ReapDisconnected ==
    /\ ui.at = "reap" /\ Disconnected
    /\ view' = Noticed(view)
    /\ ui' = [ui EXCEPT !.task = "none", !.at = AfterReap("none")]
    /\ UNCHANGED <<agent, events, op, session, extensions, used>>

\* TryRecvError::Empty, or no operation.
NothingToReap ==
    /\ ui.at = "reap" /\ ~Ready /\ ~Disconnected
    /\ ui' = [ui EXCEPT !.at = AfterReap(ui.task)]
    /\ UNCHANGED <<agent, events, op, view, session, extensions, used>>

\* poll_event returned nothing.
NoKey ==
    /\ ui.at = "poll"
    /\ ui' = [ui EXCEPT !.at = "drain"]
    /\ UNCHANGED <<agent, events, op, view, session, extensions, used>>

Loop == Drain \/ ReapSuccess \/ ReapFailure \/ ReapDisconnected \/ NothingToReap \/ NoKey

-----------------------------------------------------------------------------
(* Keys. *)

Pressed(key) ==
    /\ ui.at = "poll" /\ key \in Commands /\ used.keys < MaxKeys
    /\ used' = [used EXCEPT !.keys = @ + 1]
NextLoop == [ui EXCEPT !.at = "drain"]

\* The composer takes keys while no surface is open; a command is a line.
Typing(key) == Pressed(key) /\ ui.picker = "none"
Command(name) == Typing(name) /\ ui.composer = ""

\* Commands that refuse while an operation is active.
IdleCommand(name) == Command(name) /\ Idle
RefusedCommand ==
    /\ \E name \in {"model", "compact", "reload", "session", "new", "clear"} : Command(name)
    /\ ~Idle
    /\ view' = Noticed(view)
    /\ ui' = NextLoop
    /\ UNCHANGED <<agent, events, op, session, extensions>>

Type(text) ==
    /\ Typing("prompt") /\ ui.composer = ""
    /\ ui' = [NextLoop EXCEPT !.composer = text]
    /\ UNCHANGED <<agent, events, op, view, session, extensions>>

\* submit_composer reads the phase of the agent ...
Submit ==
    /\ Typing("prompt") /\ ui.composer # ""
    /\ ui' = [ui EXCEPT !.at = IF Idle THEN "start" ELSE "steer", !.composer = "",
                        !.entered = ui.composer]
    /\ UNCHANGED <<agent, events, op, view, session, extensions>>

\* spawn_operation: a result nobody reaped yet is forgotten.
Operation(kind, text) ==
    [kind |-> kind, at |-> "created", outcome |-> "none", prompt |-> text,
     turn |-> 0, deltas |-> 0, more |-> FALSE]

\* ... and acts on what it read: only this thread starts operations, but a run
\* may settle before it is steered.
StartPrompt ==
    /\ ui.at = "start"
    /\ IF agent.model = NoModel
       THEN /\ ui' = [NextLoop EXCEPT !.entered = "", !.picker = "model"]
            /\ view' = Noticed(view)
            /\ UNCHANGED <<agent, op>>
       ELSE /\ agent' = [agent EXCEPT !.phase = "running",
                                      !.messages = Append(@, User(ui.entered))]
            /\ op' = Operation("run", ui.entered)
            /\ ui' = [NextLoop EXCEPT !.entered = "", !.task = "waiting",
                                      !.prompt = ui.entered]
            /\ view' = [view EXCEPT !.status = "active"]
    /\ UNCHANGED <<events, session, extensions, used>>

Enqueue ==
    /\ ui.at = "steer"
    /\ agent' = [agent EXCEPT !.steering = Append(@, ui.entered)]
    /\ ui' = [NextLoop EXCEPT !.entered = ""]
    /\ view' = Noticed(view)
    /\ UNCHANGED <<events, op, session, extensions, used>>

\* enqueue_command_prompt
FollowUp(text) ==
    /\ Command("followup")
    /\ agent' = [agent EXCEPT !.followUp = Append(@, text)]
    /\ ui' = NextLoop
    /\ view' = Noticed(view)
    /\ UNCHANGED <<events, op, session, extensions>>

\* Agent::abort: a run that was not polled yet is settled here.
AbortedAgent ==
    IF Idle THEN agent
    ELSE [agent EXCEPT !.steering = <<>>, !.followUp = <<>>,
            !.phase = IF At("run", "created") THEN "idle" ELSE "cancelling"]

\* handle_control_c
ControlC ==
    /\ Typing("ctrl_c")
    /\ agent' = AbortedAgent
    /\ view' = IF Idle THEN view ELSE Noticed(view)
    /\ ui' = IF ~Idle THEN NextLoop
             ELSE [NextLoop EXCEPT !.quitting = @ \/ ui.composer = "", !.composer = ""]
    /\ UNCHANGED <<events, op, session, extensions>>

Quit ==
    /\ Command("quit")
    /\ agent' = AbortedAgent
    /\ view' = IF Idle THEN view ELSE Noticed(view)
    /\ ui' = [NextLoop EXCEPT !.quitting = TRUE]
    /\ UNCHANGED <<events, op, session, extensions>>

Compact ==
    /\ IdleCommand("compact")
    /\ agent' = [agent EXCEPT !.phase = "running"]
    /\ op' = Operation("compaction", "")
    /\ ui' = [NextLoop EXCEPT !.task = "waiting"]
    /\ view' = [view EXCEPT !.status = "active"]
    /\ UNCHANGED <<events, session, extensions>>

Reload ==
    /\ IdleCommand("reload")
    /\ extensions' = Reloaded
    /\ view' = Noticed(view)
    /\ ui' = NextLoop
    /\ UNCHANGED <<agent, events, op, session>>

\* Agent::reset
ResetAgent == [agent EXCEPT !.messages = <<>>, !.steering = <<>>, !.followUp = <<>>]

Clear ==
    /\ IdleCommand("clear")
    /\ agent' = ResetAgent
    /\ view' = Noticed(Cleared(view))
    /\ ui' = NextLoop
    /\ UNCHANGED <<events, op, session, extensions>>

NewSession ==
    /\ IdleCommand("new") /\ session.next <= MaxSessions
    /\ \E result \in PersistResults :
         IF result.saved
         THEN /\ agent' = ResetAgent
              /\ session' = [result.session EXCEPT !.id = session.next, !.next = @ + 1]
              /\ view' = Noticed(Cleared(view))
         ELSE /\ view' = Noticed(view)
              /\ UNCHANGED <<agent, session>>
    /\ ui' = NextLoop
    /\ UNCHANGED <<events, op, extensions>>

-----------------------------------------------------------------------------
(* The pickers. *)

Stored == {i \in 1 .. MaxSessions : session.files[i] # NoFile}

OpenPicker ==
    /\ \E kind \in {"model", "session"} :
         /\ IdleCommand(kind)
         /\ ui' = [NextLoop EXCEPT !.picker =
                     IF kind = "session" /\ Stored = {} THEN "none" ELSE kind]
    /\ UNCHANGED <<agent, events, op, view, session, extensions>>

ClosePicker ==
    /\ Pressed("esc") /\ ui.picker # "none"
    /\ ui' = [NextLoop EXCEPT !.picker = "none"]
    /\ UNCHANGED <<agent, events, op, view, session, extensions>>

\* A model that cannot be configured leaves the picker open.
SelectModel(model) ==
    /\ Pressed("enter") /\ ui.picker = "model"
    /\ \/ /\ agent' = [agent EXCEPT !.model = model]
          /\ ui' = [NextLoop EXCEPT !.picker = "none"]
       \/ /\ "model" \in Faults
          /\ agent' = agent
          /\ ui' = NextLoop
    /\ view' = Noticed(view)
    /\ UNCHANGED <<events, op, session, extensions>>

\* validate_messages: every call answered, every response a finished one.
CallsIn(messages) ==
    UNION {m.calls : m \in {x \in ToSet(messages) : x.role = "assistant"}}
AnswersIn(messages) == {m.call : m \in {x \in ToSet(messages) : x.role = "tool"}}
Valid(messages) == CallsIn(messages) = AnswersIn(messages)

\* resume_session: the conversation that is shown so far is not saved first.
Resume(i) ==
    /\ Pressed("enter") /\ ui.picker = "session"
    /\ i \in Stored /\ Valid(session.files[i])
    /\ \E model \in Models :
         agent' = [ResetAgent EXCEPT !.messages = session.files[i], !.model = model]
    /\ view' = Noticed([Cleared(view) EXCEPT !.rows = Rows(session.files[i])])
    /\ session' = [session EXCEPT !.id = i]
    /\ ui' = [NextLoop EXCEPT !.picker = "none"]
    /\ UNCHANGED <<events, op, extensions>>

\* A record that is not a conversation, or whose model can no longer be
\* configured, leaves everything and the picker open.
ResumeRefused(i) ==
    /\ Pressed("enter") /\ ui.picker = "session"
    /\ i \in Stored
    /\ "model" \in Faults \/ ~Valid(session.files[i])
    /\ view' = Noticed(view)
    /\ ui' = NextLoop
    /\ UNCHANGED <<agent, events, op, session, extensions>>

Keys ==
    \/ \E text \in Prompts : Type(text) \/ FollowUp(text)
    \/ Submit \/ ControlC \/ Quit \/ Compact \/ Reload \/ Clear \/ NewSession
    \/ RefusedCommand \/ OpenPicker \/ ClosePicker
    \/ \E model \in Models : SelectModel(model)
    \/ \E i \in 1 .. MaxSessions : Resume(i) \/ ResumeRefused(i)

-----------------------------------------------------------------------------
Init ==
    /\ \E model \in InitialModels :
         agent = [phase |-> "idle", messages |-> <<>>, steering |-> <<>>,
                  followUp |-> <<>>, model |-> model]
    /\ events = <<>>
    /\ op = [Operation("none", "") EXCEPT !.at = "none"]
    /\ view = [rows |-> <<WelcomeRow>>, streaming |-> 0, tools |-> {}, status |-> "idle"]
    /\ ui = [at |-> "drain", composer |-> "", entered |-> "", prompt |-> "",
             task |-> "none", picker |-> "none", quitting |-> FALSE]
    /\ session = [id |-> 1, next |-> 2, files |-> [i \in 1 .. MaxSessions |-> NoFile]]
    /\ \E v \in Versions : extensions = [disk |-> v, loaded |-> v]
    /\ used = [keys |-> 0, calls |-> 0]

Next == Drive \/ OperationPanics \/ Loop \/ StartPrompt \/ Enqueue \/ Keys

\* The executor polls the operation, whose provider and tools answer, and the
\* loop goes round every twenty milliseconds; nobody has to press a key.
Fairness == WF_vars(Drive) /\ WF_vars(Loop \/ StartPrompt \/ Enqueue)

Spec == Init /\ [][Next]_vars
FairSpec == Spec /\ Fairness

-----------------------------------------------------------------------------
TypeOK ==
    /\ agent.phase \in {"idle", "running", "cancelling"}
    /\ ToSet(agent.steering) \cup ToSet(agent.followUp) \subseteq Prompts
    /\ agent.model \in Models \cup {NoModel}
    /\ op.kind \in {"none", "run", "compaction"}
    /\ op.outcome \in {"none", "ok", "failed", "cancelled"}
    /\ view.streaming \in 0 .. Len(view.rows)
    /\ view.tools \subseteq {i \in DOMAIN view.rows : view.rows[i].kind = "tool"}
    /\ view.status \in {"idle", "active", "notice"}
    /\ ui.at \in {"drain", "reap", "poll", "start", "steer", "exited"}
    /\ {ui.composer, ui.entered, ui.prompt} \subseteq Prompts \cup {""}
    /\ ui.task \in {"none", "waiting"} /\ ui.quitting \in BOOLEAN
    /\ session.id \in 1 .. MaxSessions
    /\ extensions.loaded \in Versions /\ extensions.disk \in Versions \cup {Broken}

UpToDate == Idle /\ events = <<>>

\* An agent at rest is shown at rest, whatever was cancelled, failed, cleared
\* or resumed in the middle of the events: no row goes on streaming, no tool
\* goes on running and, once the operation is reaped, nothing is active.
SettledView ==
    UpToDate =>
        /\ view.streaming = 0 /\ view.tools = {}
        /\ \A i \in DOMAIN view.rows :
             /\ view.rows[i].kind = "assistant" => ~view.rows[i].streaming
             /\ view.rows[i].kind = "tool" => view.rows[i].state \in {"Completed", "Failed"}
        /\ ui.task = "none" => view.status # "active"

\* The messages a reader must see.  A summary has no row, a response that was
\* cut off shares the row of the error that replaced it, and a prompt that was
\* aborted before its run was first polled is never announced, so a prompt
\* counts when it has an answer.
Announced(i) ==
    LET m == agent.messages[i]
    IN  \/ m.role = "tool"
        \/ m.role = "assistant" /\ m.stop # "None"
        \/ /\ m.role = "user" /\ m.text # Summary
           /\ i < Len(agent.messages) /\ agent.messages[i + 1].role = "assistant"

\* The last of the wanted messages that is shown in order up to a row, when i
\* is the last that is shown before it.
ShownUpTo(wanted, i, row) ==
    LET later == {j \in wanted : j > i}
    IN  IF later # {} /\ row = Row(agent.messages[Min(later)]) THEN Min(later) ELSE i

\* What the next request would carry is on the screen, in order: folding the
\* events, and rebuilding the rows of a session, never lose a message.
HeldIsShown ==
    UpToDate =>
        LET wanted == {i \in DOMAIN agent.messages : Announced(i)}
            shown[k \in 0 .. Len(view.rows)] ==
              IF k = 0 THEN 0 ELSE ShownUpTo(wanted, shown[k - 1], view.rows[k])
        IN  \A i \in wanted : i <= shown[Len(view.rows)]

\* When the application learns of the end of its operation the agent is idle,
\* so neither the save nor the reload that follow can be refused.
ReapedIsSettled == ui.at = "reap" /\ Ready => Idle

\* What is on the screen is what the agent holds and does.
ViewIsTrue == TypeOK /\ SettledView /\ HeldIsShown /\ ReapedIsSettled

\* docs/tui.md: sessions are saved only after an operation that succeeded, or
\* by /new; a save writes the whole conversation of an idle agent under its
\* own identifier.
SavesAreSettled ==
    [][session'.files # session.files =>
         /\ Idle
         /\ session'.files = [session.files EXCEPT ![session.id] = agent.messages]
         /\ ui.at = "reap" => op.outcome = "ok"]_vars

\* /new never drops a conversation that is not on disk.
NewKeepsOld ==
    [][session'.next # session.next =>
         agent.messages = <<>> \/ session'.files[session.id] = agent.messages]_vars

\* Saves write settled conversations, and nothing unsaved is dropped for a new one.
SavesAreSafe == SavesAreSettled /\ NewKeepsOld

\* docs/tui.md: a failed or cancelled prompt comes back for a re-submit, and
\* never into a draft.
PromptComesBack ==
    [][ui.at = "reap" /\ Ready /\ op.kind = "run" /\ op.outcome # "ok" =>
         ui'.composer # "" /\ (ui.composer # "" => ui'.composer = ui.composer)]_vars

\* Asked to quit, the application does, whatever the operation is doing: also
\* when it fails, is refused, or takes its sender with it.
QuitEnds == ui.quitting ~> ui.at = "exited"

=============================================================================
