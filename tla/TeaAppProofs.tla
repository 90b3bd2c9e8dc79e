---------------------------- MODULE TeaAppProofs ----------------------------
(***************************************************************************)
(* What the terminal application shows and saves, for any number of        *)
(* prompts, turns, deltas, calls, keys and sessions: what is on the screen *)
(* is what the agent holds and does (ViewTrue), a save writes a settled    *)
(* conversation and /new drops none (SavesSafe), and a prompt that failed  *)
(* comes back (PromptBack).                                                *)
(*                                                                         *)
(* The first is about a moment when nothing is left to do; its invariant   *)
(* (Inv) is about every moment before.  The events that wait continue the  *)
(* view, and the operation continues the events (Shape): a row that        *)
(* streams or runs is the last one and the next event is its own, and what *)
(* started will be closed.  And every message that counts has its row, in  *)
(* order, among the rows that are there and those that the waiting events  *)
(* will give (Shown), because whatever appends a message emits its event.  *)
(***************************************************************************)
EXTENDS TeaApp, SequenceTheorems, NaturalsInduction, FiniteSetTheorems, TLAPS
-----------------------------------------------------------------------------
(* The values of the variables. *)

Texts == Prompts \cup {Summary}
StopReasons == {"None", "Stop", "ToolUse", "Error", "Aborted", "Cancelled"}
Users == [role : {"user"}, text : Texts]
Responses == [role : {"assistant"}, text : Nat, calls : SUBSET Nat, stop : StopReasons]
Results == [role : {"tool"}, call : Nat, isError : BOOLEAN]
Messages == Users \cup Responses \cup Results

TextRows == [kind : {"assistant"}, text : Nat, streaming : BOOLEAN]
ToolRows == [kind : {"tool"}, call : Nat, state : {"Started", "Progress", "Completed", "Failed"}]
AllRows == [kind : {"user"}, text : Texts] \cup TextRows \cup ToolRows
           \cup {ErrorRow, WelcomeRow}

Marks == {"agent_start", "agent_end", "compaction_start", "compaction_end", "turn_failed",
          "delta"}
Events == [kind : {"user"}, of : Texts]
          \cup [kind : {"message_end"}, of : Responses]
          \cup [kind : {"tool_start", "tool_update"}, of : Nat]
          \cup [kind : {"tool_end"}, of : Results]
          \cup [kind : Marks, of : {0}]

Resting == {"none", "returned", "sent"}
Working == {"inject", "request", "boundary", "tool", "running", "failing"}
Typed == Prompts \cup {""}

AgentType ==
    agent \in [phase : {"idle", "running", "cancelling"}, messages : Seq(Messages),
               steering : Seq(Prompts), followUp : Seq(Prompts), model : Models \cup {NoModel}]
EventsType == events \in Seq(Events)
OpType ==
    op \in [kind : {"none", "run", "compaction"},
            at : Resting \cup Working \cup {"created", "compacting", "ended", "dropped"},
            outcome : {"none", "ok", "failed", "cancelled"}, prompt : Typed,
            turn : Nat, deltas : Nat, more : BOOLEAN]
Views == [rows : Seq(AllRows), streaming : Nat, tools : SUBSET Nat,
          status : {"idle", "active", "notice"}]
ViewType == view \in Views
UiType ==
    ui \in [at : {"drain", "reap", "poll", "start", "steer", "exited"}, composer : Typed,
            entered : Typed, prompt : Typed, task : {"none", "waiting"},
            picker : {"none", "model", "session"}, quitting : BOOLEAN]
SessionType ==
    session \in [id : 1 .. MaxSessions, next : Nat \ {0},
                 files : [1 .. MaxSessions -> Seq(Messages) \cup {NoFile}]]
ExtensionsType ==
    extensions \in [disk : Versions \cup {Broken}, loaded : Versions]
UsedType == used \in [keys : Nat, calls : Nat]

Types ==
    /\ AgentType /\ EventsType /\ OpType /\ ViewType
    /\ UiType /\ SessionType /\ ExtensionsType /\ UsedType

-----------------------------------------------------------------------------
(* Who is at work. *)

Control ==
    /\ op.at \in Resting => Idle
    /\ ~Idle \/ op.at \in Resting \/ At("run", "created")
    /\ op.at \in Working => op.kind = "run"
    /\ op.at = "compacting" => op.kind = "compaction"
    /\ ui.task = "none" => op.at \in {"none", "sent", "dropped"}
    /\ ui.task = "waiting" /\ op.kind = "run" => ui.prompt # ""
    /\ ui.at = "start" => Idle /\ ui.entered \in Prompts \ {""}
    /\ ui.at = "steer" => ui.entered \in Prompts
    /\ ui.picker # "none" => Idle /\ ui.at # "start"

-----------------------------------------------------------------------------
(* The view between two events. *)

\* Rows that more events will change.
OpenText(row) == row \in TextRows /\ row.streaming
OpenCall(row) == row \in ToolRows /\ row.state \in {"Started", "Progress"}

\* Only the last row is open, and the view knows it.
InPlace(v) ==
    LET n == Len(v.rows)
    IN  /\ v.streaming = IF n > 0 /\ OpenText(v.rows[n]) THEN n ELSE 0
        /\ v.tools = IF n > 0 /\ OpenCall(v.rows[n]) THEN {n} ELSE {}
        /\ \A i \in 1 .. n - 1 : ~OpenText(v.rows[i]) /\ ~OpenCall(v.rows[i])

\* What follows a text that streams is more of it or its end, in the events or
\* from the operation (emits); what follows a call is an update or its end.
TextGoesOn(es, k, emits) ==
    IF k \in DOMAIN es THEN es[k].kind \in {"delta", "message_end"} ELSE emits
CallGoesOn(es, k, call, emits) ==
    IF k \in DOMAIN es
    THEN \/ es[k].kind = "tool_update" /\ es[k].of = call
         \/ es[k].kind = "tool_end" /\ es[k].of.call = call
    ELSE call \in emits

\* An operation that was dropped leaves them open for good.
TextOn == op.at = "dropped" \/ (op.at = "request" /\ op.deltas > 0)
CallOn == IF op.at \in {"running", "dropped"} THEN {used.calls} ELSE {}

\* Between the start and the end of a text or a call comes nothing else.
Unbroken(es, text, call) ==
    /\ \A k \in DOMAIN es : es[k].kind = "delta" => TextGoesOn(es, k + 1, text)
    /\ \A k \in DOMAIN es : es[k].kind \in {"tool_start", "tool_update"} =>
           CallGoesOn(es, k + 1, es[k].of, call)

\* Nor between the last row, if it is open, and the first event.
Continued(v, es, text, call) ==
    /\ v.streaming # 0 => TextGoesOn(es, 1, text)
    /\ v.tools # {} => CallGoesOn(es, 1, v.rows[Len(v.rows)].call, call)

Starts == {"agent_start", "compaction_start"}
Closers == {"agent_end", "compaction_end", "turn_failed"}

\* What starts is still at work, or closed by a later event.
Closed(es, working) ==
    \A k \in DOMAIN es : es[k].kind \in Starts =>
        working \/ \E j \in DOMAIN es : j > k /\ es[j].kind \in Closers

AtWork == op.at \in Working \cup {"compacting", "dropped"}

\* Without a task, what is active will be closed.
StatusGoesBack ==
    ui.task = "none" /\ view.status = "active" =>
        op.at = "dropped" \/ \E j \in DOMAIN events : events[j].kind \in Closers

-----------------------------------------------------------------------------
(* Messages and their rows. *)

NoRow == [kind |-> "none"]
RowOf(e) ==
    CASE e.kind = "user" -> UserRow(e.of)
      [] e.kind \in {"message_end", "tool_end"} -> Row(e.of)
      [] OTHER -> NoRow

\* The rows of the view, and those the events will give it.
Slots(rows, es) ==
    [k \in 1 .. Len(rows) + Len(es) |->
       IF k <= Len(rows) THEN rows[k] ELSE RowOf(es[k - Len(rows)])]

\* The messages that have a row: those of HeldIsShown, and the last one while
\* the run that carries it goes on.
Covered ==
    {i \in DOMAIN agent.messages :
       \/ Announced(i)
       \/ /\ i = Len(agent.messages) /\ op.at \in Working
          /\ agent.messages[i].role = "user" /\ agent.messages[i].text # Summary}

Placed(m, C, s) ==
    \E f \in [C -> DOMAIN s] :
        /\ \A i \in C : s[f[i]] = Row(m[i])
        /\ \A i, j \in C : i < j => f[i] < f[j]

Streams ==
    /\ op.at = "request" /\ op.deltas > 0 =>
         /\ agent.messages # <<>>
         /\ agent.messages[Len(agent.messages)].role = "assistant"
         /\ agent.messages[Len(agent.messages)].stop = "None"
    /\ At("run", "created") /\ ~Idle =>
         /\ agent.messages # <<>>
         /\ agent.messages[Len(agent.messages)] = User(op.prompt)
         /\ op.prompt \in Prompts

Shown == Placed(agent.messages, Covered, Slots(view.rows, events))

Shape ==
    /\ InPlace(view)
    /\ Unbroken(events, TextOn, CallOn) /\ Continued(view, events, TextOn, CallOn)
    /\ Closed(events, AtWork) /\ StatusGoesBack

Inv == Types /\ Control /\ Streams /\ Shape /\ Shown

-----------------------------------------------------------------------------
(* Values. *)

\* The events that the operation emits.
LEMMA TypedEvents ==
    /\ \A k \in Marks : Event(k, 0) \in Events
    /\ \A t \in Texts : Event("user", t) \in Events
    /\ \A m \in Responses : Event("message_end", m) \in Events
    /\ \A c \in Nat : Event("tool_start", c) \in Events /\ Event("tool_update", c) \in Events
    /\ \A m \in Results : Event("tool_end", m) \in Events
BY DEF Events, Event

\* The messages that it appends.
LEMMA TypedMessages ==
    /\ \A t \in Texts : User(t) \in Messages
    /\ \A n \in Nat, c \in SUBSET Nat, s \in StopReasons : Response(n, c, s) \in Responses
    /\ \A c \in Nat, b \in BOOLEAN : ToolResult(c, b) \in Results
    /\ Responses \subseteq Messages /\ Results \subseteq Messages
BY DEF Messages, Users, Responses, Results, User, Response, ToolResult

\* A row that a message gets is settled.
LEMMA TypedRow ==
    ASSUME NEW m \in Messages
    PROVE  /\ Row(m) \in AllRows /\ Row(m) # NoRow
           /\ Row(m).kind = "assistant" => ~Row(m).streaming
           /\ Row(m).kind = "tool" => Row(m).state \in {"Completed", "Failed"}
<1>1. CASE m \in Users
  BY <1>1 DEF Users, Row, UserRow, AllRows, NoRow, IsError
<1>2. CASE m \in Responses
  <2>1. CASE IsError(m)
    BY <1>2, <2>1 DEF Responses, Row, AllRows, NoRow, ErrorRow
  <2>2. CASE ~IsError(m)
    BY <1>2, <2>2 DEF Responses, Row, TextRow, AllRows, TextRows, NoRow
  <2> QED BY <2>1, <2>2
<1>3. CASE m \in Results
  BY <1>3 DEF Results, Row, ToolRow, Outcome, AllRows, ToolRows, NoRow, IsError
<1> QED BY <1>1, <1>2, <1>3 DEF Messages

\* Emitting events keeps their type.
LEMMA EmittedTypes ==
    ASSUME EventsType, NEW s \in Seq(Events), Emit(s) PROVE EventsType'
BY DEF EventsType, Emit

-----------------------------------------------------------------------------
(* Each step keeps the types. *)

\* What a step leaves alone keeps its type.
LEMMA KeptTypes ==
    ASSUME Types
    PROVE  /\ UNCHANGED agent => AgentType'
           /\ UNCHANGED events => EventsType'
           /\ UNCHANGED op => OpType'
           /\ UNCHANGED view => ViewType'
           /\ UNCHANGED ui => UiType'
           /\ UNCHANGED session => SessionType'
           /\ UNCHANGED extensions => ExtensionsType'
           /\ UNCHANGED used => UsedType'
           /\ OffUi => ViewType' /\ UiType' /\ SessionType'
<1>1. UNCHANGED agent => AgentType'
  BY DEF Types, AgentType
<1>2. UNCHANGED events => EventsType'
  BY DEF Types, EventsType
<1>3. UNCHANGED op => OpType'
  BY DEF Types, OpType
<1>4. UNCHANGED view => ViewType'
  BY DEF Types, ViewType
<1>5. UNCHANGED ui => UiType'
  BY DEF Types, UiType
<1>6. UNCHANGED session => SessionType'
  BY DEF Types, SessionType
<1>7. UNCHANGED extensions => ExtensionsType'
  BY DEF Types, ExtensionsType
<1>8. UNCHANGED used => UsedType'
  BY DEF Types, UsedType
<1> QED BY <1>1, <1>2, <1>3, <1>4, <1>5, <1>6, <1>7, <1>8 DEF OffUi

\* Fields of the agent and the operation that steps set.
LEMMA AgentSet ==
    ASSUME AgentType
    PROVE  /\ \A m \in Seq(Messages) : agent' = [agent EXCEPT !.messages = m] => AgentType'
           /\ \A m \in Seq(Messages), q \in Seq(Prompts) :
                agent' = [agent EXCEPT !.messages = m, !.steering = q] => AgentType'
           /\ \A m \in Seq(Messages), q \in Seq(Prompts) :
                agent' = [agent EXCEPT !.messages = m, !.followUp = q] => AgentType'
           /\ \A q \in Seq(Prompts) : agent' = [agent EXCEPT !.steering = q] => AgentType'
           /\ \A q \in Seq(Prompts) : agent' = [agent EXCEPT !.followUp = q] => AgentType'
           /\ \A m \in Seq(Messages) :
                agent' = [agent EXCEPT !.phase = "running", !.messages = m] => AgentType'
           /\ \A p \in {"idle", "running", "cancelling"} :
                agent' = [agent EXCEPT !.phase = p] => AgentType'
           /\ \A k \in Models : agent' = [agent EXCEPT !.model = k] => AgentType'
BY DEF AgentType

\* Fields of the operation that steps set.
LEMMA OpSet ==
    ASSUME OpType, NEW at \in Resting \cup Working \cup {"created", "compacting", "ended", "dropped"},
           NEW b \in BOOLEAN, NEW o \in {"none", "ok", "failed", "cancelled"}
    PROVE  /\ op' = [op EXCEPT !.at = at] => OpType'
           /\ op' = [op EXCEPT !.at = at, !.outcome = o] => OpType'
           /\ op' = [op EXCEPT !.at = at, !.more = b] => OpType'
           /\ op' = [op EXCEPT !.at = at, !.turn = @ + 1, !.deltas = 0] => OpType'
           /\ op' = [op EXCEPT !.deltas = @ + 1] => OpType'
<1>1. op.turn + 1 \in Nat /\ op.deltas + 1 \in Nat /\ 0 \in Nat
  BY DEF OpType
<1>2. /\ op' = [op EXCEPT !.at = at] => OpType'
      /\ op' = [op EXCEPT !.at = at, !.outcome = o] => OpType'
      /\ op' = [op EXCEPT !.at = at, !.more = b] => OpType'
  BY DEF OpType
<1>3. \A t, d \in Nat : op' = [op EXCEPT !.at = at, !.turn = t, !.deltas = d] => OpType'
  BY DEF OpType
<1>4. \A d \in Nat : op' = [op EXCEPT !.deltas = d] => OpType'
  BY DEF OpType
<1>5. op' = [op EXCEPT !.at = at, !.turn = @ + 1, !.deltas = 0] => OpType'
  BY <1>1, <1>3
<1>6. op' = [op EXCEPT !.deltas = @ + 1] => OpType'
  BY <1>1, <1>4
<1> QED BY <1>2, <1>5, <1>6

\* The places an operation can be at.
LEMMA Places ==
    {"none", "returned", "sent", "inject", "request", "boundary", "tool", "running", "failing",
     "created", "compacting", "ended", "dropped"}
    = Resting \cup Working \cup {"created", "compacting", "ended", "dropped"}
BY DEF Resting, Working

\* The events of a failure, concatenated.
LEMMA ThreeElements ==
    ASSUME NEW a, NEW b, NEW c PROVE <<a>> \o <<b, c>> = <<a, b, c>>
<1> DEFINE S == {a, b, c}
           s == <<a>> \o <<b, c>>
<1>1. <<a>> \in Seq(S) /\ <<b, c>> \in Seq(S) /\ <<a, b, c>> \in Seq(S)
  OBVIOUS
<1>2. s \in Seq(S) /\ Len(s) = 3 /\ s[1] = a /\ s[2] = b /\ s[3] = c
  BY <1>1
<1>3. \A i \in 1 .. Len(s) : s[i] = <<a, b, c>>[i]
  BY <1>2
<1> HIDE DEF s, S
<1>4. s = <<a, b, c>>
  BY <1>1, <1>2, <1>3, SeqEqual
<1> QED BY <1>4 DEF s

\* A response is put where the text that streamed so far is.
LEMMA RespondedType ==
    ASSUME AgentType, NEW m \in Responses PROVE Responded(m) \in Seq(Messages)
<1>1. m \in Messages /\ agent.messages \in Seq(Messages)
  BY TypedMessages DEF AgentType
<1>2. CASE op.deltas = 0
  BY <1>1, <1>2 DEF Responded
<1>3. CASE op.deltas # 0
  <2>1. CASE agent.messages = <<>>
    <3>1. Responded(m) = [agent.messages EXCEPT ![Len(agent.messages)] = m]
      BY <1>3 DEF Responded
    <3>2. Responded(m) \in [1 .. 0 -> Messages]
      <4>1. agent.messages \in [1 .. Len(agent.messages) -> Messages] /\ Len(agent.messages) = 0
        BY <1>1, <2>1
      <4>2. agent.messages \in [1 .. 0 -> Messages]
        BY <4>1
      <4> QED BY <1>1, <3>1, <4>2
    <3> QED BY <3>2, SeqDef
  <2>2. CASE agent.messages # <<>>
    BY <1>1, <1>3, <2>2 DEF Responded
  <2> QED BY <2>1, <2>2
<1> QED BY <1>2, <1>3

\* A run that begins, takes input and gets an answer keeps the types.
LEMMA RunTypesKept ==
    ASSUME Types, Control, Streams,
           \/ RunRefused \/ RunStart \/ InjectSteering \/ NoInput \/ InjectFollowUp
           \/ Succeed \/ TextDelta \/ Stops \/ CallsTool \/ UnexpectedCalls
    PROVE  Types'
<1> USE KeptTypes, Places
<1>0. /\ AgentType /\ EventsType /\ OpType /\ agent.messages \in Seq(Messages)
      /\ used.calls \in Nat /\ op.deltas \in Nat
      /\ {"None", "Stop", "ToolUse"} \subseteq StopReasons
  BY DEF Types, AgentType, UsedType, OpType, StopReasons
<1>1. CASE RunRefused
  <2>1. OpType'
    BY <1>1, <1>0, OpSet DEF RunRefused
  <2> QED BY <1>1, <2>1 DEF RunRefused, Types
<1>2. CASE RunStart
  <2>1. <<Event("agent_start", 0), Event("user", op.prompt)>> \in Seq(Events)
    BY <1>2, TypedEvents DEF RunStart, At, Streams, Marks, Texts
  <2>2. EventsType' /\ OpType'
    BY <1>2, <1>0, <2>1, EmittedTypes, OpSet DEF RunStart
  <2> QED BY <1>2, <2>2 DEF RunStart, Types
<1>3. ASSUME NEW q \in Seq(Prompts), InjectFrom(q)
      PROVE  /\ Append(agent.messages, User(Head(q))) \in Seq(Messages)
             /\ Tail(q) \in Seq(Prompts) /\ EventsType' /\ OpType'
  <2>1. q # <<>> /\ Head(q) \in Texts /\ Tail(q) \in Seq(Prompts)
    BY <1>3 DEF InjectFrom, Texts
  <2>2. <<Event("user", Head(q))>> \in Seq(Events) /\ User(Head(q)) \in Messages
    BY <2>1, TypedEvents, TypedMessages
  <2>3. EventsType' /\ OpType'
    BY <1>3, <1>0, <2>2, EmittedTypes, OpSet DEF InjectFrom
  <2> QED BY <2>1, <2>2, <2>3, <1>0
<1>4. agent.steering \in Seq(Prompts) /\ agent.followUp \in Seq(Prompts)
  BY <1>0 DEF AgentType
<1>5. CASE InjectSteering
  <2> DEFINE q == agent.steering
  <2>1. /\ EventsType' /\ OpType' /\ Tail(q) \in Seq(Prompts)
        /\ Append(agent.messages, User(Head(q))) \in Seq(Messages)
    BY <1>3, <1>4, <1>5 DEF InjectSteering
  <2>2. agent' = [agent EXCEPT !.messages = Append(agent.messages, User(Head(q))),
                               !.steering = Tail(q)]
    BY <1>5 DEF InjectSteering
  <2>3. AgentType'
    BY <1>0, <2>1, <2>2, AgentSet
  <2> QED BY <1>5, <2>1, <2>3 DEF InjectSteering, Types
<1>6. CASE InjectFollowUp
  <2> DEFINE q == agent.followUp
  <2>1. /\ EventsType' /\ OpType' /\ Tail(q) \in Seq(Prompts)
        /\ Append(agent.messages, User(Head(q))) \in Seq(Messages)
    BY <1>3, <1>4, <1>6 DEF InjectFollowUp
  <2>2. agent' = [agent EXCEPT !.messages = Append(agent.messages, User(Head(q))),
                               !.followUp = Tail(q)]
    BY <1>6 DEF InjectFollowUp
  <2>3. AgentType'
    BY <1>0, <2>1, <2>2, AgentSet
  <2> QED BY <1>6, <2>1, <2>3 DEF InjectFollowUp, Types
<1>7. CASE NoInput
  <2>1. OpType'
    BY <1>7, <1>0, OpSet DEF NoInput
  <2> QED BY <1>7, <2>1 DEF NoInput, Types
<1>8. CASE Succeed
  <2>1. <<Event("agent_end", 0)>> \in Seq(Events)
    BY TypedEvents DEF Marks
  <2>2. EventsType' /\ OpType'
    BY <1>8, <1>0, <2>1, EmittedTypes, OpSet DEF Succeed
  <2> QED BY <1>8, <2>2 DEF Succeed, Types
<1>9. CASE TextDelta
  <2>1. <<Event("delta", 0)>> \in Seq(Events)
    BY TypedEvents DEF Marks
  <2>2. Responded(Response(op.deltas + 1, {}, "None")) \in Seq(Messages)
    BY <1>0, RespondedType, TypedMessages
  <2>3. EventsType' /\ OpType'
    BY <1>9, <1>0, <2>1, EmittedTypes, OpSet DEF TextDelta
  <2>4. AgentType'
    BY <1>9, <1>0, <2>2, AgentSet DEF TextDelta
  <2> QED BY <1>9, <2>3, <2>4 DEF TextDelta, Types
<1>10. ASSUME NEW calls \in {{}, {used.calls + 1}}, NEW stop \in {"Stop", "ToolUse"},
              NEW next \in {"boundary", "tool", "failing"}, ResponseEnds(calls, stop, next)
       PROVE  Types'
  <2> DEFINE m == Response(op.deltas, calls, stop)
  <2>1. m \in Responses
    BY <1>0, TypedMessages
  <2>2. Say(m) \in Seq(Events) /\ Responded(m) \in Seq(Messages)
    BY <1>0, <2>1, RespondedType, TypedEvents DEF Say
  <2>3. EventsType' /\ OpType'
    BY <1>10, <1>0, <2>2, EmittedTypes, OpSet DEF ResponseEnds
  <2>6. AgentType'
    BY <1>10, <1>0, <2>2, AgentSet DEF ResponseEnds
  <2>4. Cardinality({}) = 0 /\ Cardinality({used.calls + 1}) = 1
    BY FS_EmptySet, FS_Singleton
  <2>5. UsedType'
    <3>1. \A n \in Nat : used' = [used EXCEPT !.calls = n] => UsedType'
      BY DEF Types, UsedType
    <3>2. used.calls + Cardinality(calls) \in Nat
      <4>1. CASE calls = {}
        BY <1>0, <2>4, <4>1
      <4>2. CASE calls = {used.calls + 1}
        BY <1>0, <2>4, <4>2
      <4> QED BY <4>1, <4>2
    <3> QED BY <1>10, <3>1, <3>2 DEF ResponseEnds
  <2> QED BY <1>10, <2>3, <2>5, <2>6 DEF ResponseEnds, Types
<1>11. CASE Stops \/ CallsTool \/ UnexpectedCalls
  BY <1>10, <1>11 DEF Stops, CallsTool, UnexpectedCalls
<1> QED BY <1>1, <1>2, <1>5, <1>6, <1>7, <1>8, <1>9, <1>11


\* So does one that calls tools or ends, and a compaction.
LEMMA RunEndTypesKept ==
    ASSUME Types, Control, Streams,
           \/ ResponseFails \/ StartTool \/ UpdateFromTool \/ EndTool \/ RunFails \/ RunCancelled
           \/ CompactionStart \/ CompactionEnd \/ Finish \/ SendResult
    PROVE  Types'
<1> USE KeptTypes, Places
<1>0. /\ AgentType /\ EventsType /\ OpType /\ agent.messages \in Seq(Messages)
      /\ used.calls \in Nat /\ op.deltas \in Nat
      /\ {"Error", "Cancelled", "Aborted"} \subseteq StopReasons
  BY DEF Types, AgentType, UsedType, OpType, StopReasons
<1>1. ASSUME NEW m \in Responses
      PROVE  /\ Say(m) \o <<Event("turn_failed", 0), Event("agent_end", 0)>> \in Seq(Events)
             /\ Append(agent.messages, m) \in Seq(Messages)
  <2>1. Event("message_end", m) \in Events /\ Event("turn_failed", 0) \in Events
        /\ Event("agent_end", 0) \in Events /\ m \in Messages
    BY TypedEvents, TypedMessages DEF Marks
  <2> QED BY <1>0, <2>1 DEF Say
<1>2. CASE ResponseFails
  <2>1. PICK stop \in {"Error", "Cancelled", "Aborted"} :
          LET m == Response(op.deltas, {}, stop)
          IN  /\ agent' = [agent EXCEPT !.messages = Responded(m)]
              /\ Emit(Say(m) \o <<Event("turn_failed", 0), Event("agent_end", 0)>>)
              /\ op' = [op EXCEPT !.at = "ended",
                         !.outcome = IF stop = "Error" THEN "failed" ELSE "cancelled"]
    BY <1>2 DEF ResponseFails
  <2> DEFINE m == Response(op.deltas, {}, stop)
  <2>2. m \in Responses
    BY <1>0, TypedMessages
  <2>3. Responded(m) \in Seq(Messages)
    BY <1>0, <2>2, RespondedType
  <2>4. EventsType'
    BY <1>0, <1>1, <2>1, <2>2, EmittedTypes
  <2>5. AgentType' /\ OpType'
    BY <1>0, <2>1, <2>3, AgentSet, OpSet
  <2> QED BY <1>2, <2>4, <2>5 DEF ResponseFails, Types
<1>3. CASE StartTool \/ UpdateFromTool
  <2>1. <<Event("tool_start", used.calls)>> \in Seq(Events)
        /\ <<Event("tool_update", used.calls)>> \in Seq(Events)
    BY <1>0, TypedEvents
  <2>2. EventsType' /\ OpType'
    BY <1>0, <1>3, <2>1, EmittedTypes, OpSet DEF StartTool, UpdateFromTool
  <2> QED BY <1>3, <2>2 DEF StartTool, UpdateFromTool, Types
<1>4. CASE EndTool
  <2>1. PICK isError \in BOOLEAN :
          /\ agent' = [agent EXCEPT !.messages = Append(@, ToolResult(used.calls, isError))]
          /\ Emit(<<Event("tool_end", ToolResult(used.calls, isError))>>)
    BY <1>4 DEF EndTool, Cancelled
  <2>2. ToolResult(used.calls, isError) \in Results /\ ToolResult(used.calls, isError) \in Messages
    BY <1>0, TypedMessages
  <2>3. <<Event("tool_end", ToolResult(used.calls, isError))>> \in Seq(Events)
        /\ Append(agent.messages, ToolResult(used.calls, isError)) \in Seq(Messages)
    BY <1>0, <2>2, TypedEvents
  <2>4. EventsType' /\ AgentType'
    BY <1>0, <2>1, <2>3, EmittedTypes, AgentSet
  <2>5. ExtensionsType'
    BY <1>4 DEF EndTool, Types, ExtensionsType
  <2>6. OpType'
    BY <1>0, <1>4, OpSet DEF EndTool
  <2> QED BY <1>4, <2>4, <2>5, <2>6 DEF EndTool, Types
<1>5. CASE RunFails \/ RunCancelled
  <2>1. PICK m \in {Response(0, {}, "Error"), Response(0, {}, "Aborted")},
             outcome \in {"failed", "cancelled"} : Settle(outcome, <<m>>)
    BY <1>5 DEF RunFails, RunCancelled
  <2>2. m \in Responses
    BY <1>0, TypedMessages
  <2>3. /\ agent' = [agent EXCEPT !.messages = agent.messages \o <<m>>]
        /\ Emit(Say(m) \o <<Event("turn_failed", 0), Event("agent_end", 0)>>)
        /\ op' = [op EXCEPT !.at = "ended", !.outcome = outcome]
        /\ OffUi /\ UNCHANGED <<extensions, used>>
    BY <2>1 DEF Settle
  <2>4. m \in Messages
    BY <2>2, TypedMessages
  <2>5. agent.messages \o <<m>> \in Seq(Messages)
    BY <1>0, <2>4
  <2>6. EventsType' /\ AgentType' /\ OpType'
    BY <1>0, <1>1, <2>2, <2>3, <2>5, EmittedTypes, AgentSet, OpSet
  <2> QED BY <2>3, <2>6 DEF Types
<1>6. CASE CompactionStart
  <2>1. <<Event("compaction_start", 0)>> \in Seq(Events)
    BY TypedEvents DEF Marks
  <2>2. EventsType' /\ OpType'
    BY <1>0, <1>6, <2>1, EmittedTypes, OpSet DEF CompactionStart
  <2> QED BY <1>6, <2>2 DEF CompactionStart, Types
<1>7. CASE CompactionEnd
  <2>1. Event("compaction_end", 0) \in Events /\ User(Summary) \in Messages
    BY TypedEvents, TypedMessages DEF Marks, Texts
  <2>2. EventsType'
    <3>1. <<Event("compaction_end", 0)>> \in Seq(Events)
      BY <2>1
    <3> QED BY <1>0, <1>7, <3>1, EmittedTypes DEF CompactionEnd
  <2>3. (IF agent.messages = <<>> THEN agent.messages ELSE <<User(Summary)>>) \in Seq(Messages)
    BY <1>0, <2>1
  <2>4. AgentType'
    BY <1>0, <1>7, <2>3, AgentSet DEF CompactionEnd
  <2>5. OpType'
    BY <1>0, <1>7, OpSet DEF CompactionEnd
  <2> QED BY <1>7, <2>2, <2>4, <2>5 DEF CompactionEnd, Types
<1>8. CASE Finish
  <2>1. AgentType' /\ OpType'
    BY <1>0, <1>8, AgentSet, OpSet DEF Finish
  <2> QED BY <1>8, <2>1 DEF Finish, Types
<1>9. CASE SendResult
  <2>1. OpType'
    BY <1>0, <1>9, OpSet DEF SendResult
  <2> QED BY <1>9, <2>1 DEF SendResult, Types
<1> QED BY <1>2, <1>3, <1>4, <1>5, <1>6, <1>7, <1>8, <1>9


-----------------------------------------------------------------------------
(* The view after an event. *)

\* What becomes of the rows when an event is applied: one more row, or the open
\* row at the end changes, or none does.
RowsMove(v, w, row) ==
    LET n == Len(v.rows)
    IN  \/ /\ Len(w.rows) = n + 1
           /\ \A k \in 1 .. n : w.rows[k] = v.rows[k]
           /\ row # NoRow => w.rows[n + 1] = row
        \/ /\ Len(w.rows) = n
           /\ \A k \in 1 .. n : \/ w.rows[k] = v.rows[k]
                                \/ k = n /\ (OpenText(v.rows[k]) \/ OpenCall(v.rows[k]))
           /\ row # NoRow => /\ n > 0 /\ w.rows[n] = row
                             /\ OpenText(v.rows[n]) \/ OpenCall(v.rows[n])

\* A row is added to a view that has no open row.
LEMMA PushedRow ==
    ASSUME NEW v \in Views, InPlace(v), v.streaming = 0, v.tools = {},
           NEW row \in AllRows, NEW w \in Views, w.rows = Append(v.rows, row),
           w.streaming = IF OpenText(row) THEN Len(v.rows) + 1 ELSE 0,
           w.tools = IF OpenCall(row) THEN {Len(v.rows) + 1} ELSE {}
    PROVE  /\ InPlace(w)
           /\ \A r : (r # NoRow => r = row) => RowsMove(v, w, r)
           /\ w.tools # {} => w.rows[Len(w.rows)] = row
<1> DEFINE n == Len(v.rows)
<1>1. n \in Nat /\ v.rows \in Seq(AllRows)
  BY DEF Views
<1>2. /\ Len(w.rows) = n + 1 /\ w.rows[n + 1] = row
      /\ \A k \in 1 .. n : w.rows[k] = v.rows[k]
  BY <1>1
<1>3. n > 0 => ~OpenText(v.rows[n]) /\ ~OpenCall(v.rows[n])
  <2>1. ASSUME n > 0, OpenText(v.rows[n]) PROVE FALSE
    <3>1. v.streaming = n
      BY <2>1 DEF InPlace
    <3> QED BY <1>1, <2>1, <3>1
  <2>2. ASSUME n > 0, OpenCall(v.rows[n]) PROVE FALSE
    <3>1. v.tools = {n}
      BY <2>2 DEF InPlace
    <3> QED BY <3>1
  <2> QED BY <2>1, <2>2
<1>4. \A i \in 1 .. n : ~OpenText(w.rows[i]) /\ ~OpenCall(w.rows[i])
  BY <1>1, <1>2, <1>3 DEF InPlace
<1>5. InPlace(w)
  BY <1>1, <1>2, <1>4 DEF InPlace
<1> QED BY <1>1, <1>2, <1>5 DEF RowsMove

\* The open row changes.
LEMMA ReplacedRow ==
    ASSUME NEW v \in Views, InPlace(v), v.streaming # 0 \/ v.tools # {},
           NEW row \in AllRows, NEW w \in Views,
           w.rows = [v.rows EXCEPT ![Len(v.rows)] = row],
           w.streaming = IF OpenText(row) THEN Len(v.rows) ELSE 0,
           w.tools = IF OpenCall(row) THEN {Len(v.rows)} ELSE {}
    PROVE  /\ InPlace(w)
           /\ \A r : (r # NoRow => r = row) => RowsMove(v, w, r)
           /\ w.tools # {} => w.rows[Len(w.rows)] = row
<1> DEFINE n == Len(v.rows)
<1>1. n \in Nat /\ v.rows \in Seq(AllRows)
  BY DEF Views
<1>2. n > 0 /\ (OpenText(v.rows[n]) \/ OpenCall(v.rows[n]))
  BY <1>1 DEF InPlace
<1>3. /\ Len(w.rows) = n /\ w.rows[n] = row
      /\ \A k \in 1 .. n : k # n => w.rows[k] = v.rows[k]
  BY <1>1, <1>2
<1>4. \A i \in 1 .. n - 1 : ~OpenText(w.rows[i]) /\ ~OpenCall(w.rows[i])
  BY <1>1, <1>3 DEF InPlace
<1>5. InPlace(w)
  BY <1>1, <1>2, <1>3, <1>4 DEF InPlace
<1> QED BY <1>1, <1>2, <1>3, <1>5 DEF RowsMove

\* Rows that events make.
LEMMA MadeRows ==
    /\ \A t \in Texts : UserRow(t) \in AllRows /\ ~OpenText(UserRow(t)) /\ ~OpenCall(UserRow(t))
    /\ \A n \in Nat : TextRow(n, TRUE) \in AllRows /\ OpenText(TextRow(n, TRUE))
                      /\ ~OpenCall(TextRow(n, TRUE))
    /\ \A c \in Nat, s \in {"Started", "Progress"} :
         /\ ToolRow(c, s) \in AllRows /\ OpenCall(ToolRow(c, s)) /\ ~OpenText(ToolRow(c, s))
         /\ ToolRow(c, s).call = c
    /\ \A m \in Messages : Row(m) \in AllRows /\ ~OpenText(Row(m)) /\ ~OpenCall(Row(m))
    /\ \A m \in Results : Row(m) = ToolRow(m.call, Outcome(m.isError))
<1>1. \A t \in Texts : UserRow(t) \in AllRows /\ ~OpenText(UserRow(t)) /\ ~OpenCall(UserRow(t))
  BY DEF UserRow, AllRows, OpenText, OpenCall, TextRows, ToolRows
<1>2. \A n \in Nat : TextRow(n, TRUE) \in AllRows /\ OpenText(TextRow(n, TRUE))
                     /\ ~OpenCall(TextRow(n, TRUE))
  BY DEF TextRow, AllRows, OpenText, OpenCall, TextRows, ToolRows
<1>3. \A c \in Nat, s \in {"Started", "Progress"} :
         /\ ToolRow(c, s) \in AllRows /\ OpenCall(ToolRow(c, s)) /\ ~OpenText(ToolRow(c, s))
         /\ ToolRow(c, s).call = c
  BY DEF ToolRow, AllRows, OpenText, OpenCall, TextRows, ToolRows
<1>4. \A m \in Messages : Row(m) \in AllRows /\ ~OpenText(Row(m)) /\ ~OpenCall(Row(m))
  BY TypedRow DEF OpenText, OpenCall, TextRows, ToolRows
<1>5. \A m \in Results : Row(m) = ToolRow(m.call, Outcome(m.isError))
  BY DEF Results, Row, IsError
<1> QED BY <1>1, <1>2, <1>3, <1>4, <1>5

\* The kinds of events.
LEMMA EventKinds ==
    ASSUME NEW e \in Events
    PROVE  /\ e.kind \in Marks \cup {"user", "message_end", "tool_start", "tool_update", "tool_end"}
           /\ e.kind = "user" => e.of \in Texts
           /\ e.kind = "message_end" => e.of \in Responses
           /\ e.kind \in {"tool_start", "tool_update"} => e.of \in Nat
           /\ e.kind = "tool_end" => e.of \in Results /\ e.of.call \in Nat
BY DEF Events, Marks, Results

\* A view with a row more.
LEMMA PushedView ==
    ASSUME NEW v \in Views, NEW r \in AllRows
    PROVE  /\ Push(v, r) \in Views /\ Push(v, r).rows = Append(v.rows, r)
           /\ Push(v, r).streaming = v.streaming /\ Push(v, r).tools = v.tools
           /\ Push(v, r).status = v.status
<1>1. Append(v.rows, r) \in Seq(AllRows)
  BY DEF Views
<1> QED BY <1>1 DEF Push, Views

\* A view with another row in place of one.
LEMMA PutView ==
    ASSUME NEW v \in Views, NEW r \in AllRows, NEW n \in 1 .. Len(v.rows)
    PROVE  /\ Put(v, n, r) \in Views /\ Put(v, n, r).rows = [v.rows EXCEPT ![n] = r]
           /\ Put(v, n, r).streaming = v.streaming /\ Put(v, n, r).tools = v.tools
           /\ Put(v, n, r).status = v.status
<1>1. v.rows \in Seq(AllRows)
  BY DEF Views
<1>2. [v.rows EXCEPT ![n] = r] \in Seq(AllRows)
  BY <1>1, ExceptSeq
<1>3. Put(v, n, r) = [v EXCEPT !.rows = [v.rows EXCEPT ![n] = r]]
  BY DEF Put, Views
<1> QED BY <1>2, <1>3 DEF Views


\* A call that ends or is updated: its row is the open one, or it gets one.
LEMMA UpdatedTool ==
    ASSUME NEW v \in Views, InPlace(v), v.streaming = 0,
           NEW call \in Nat, NEW state \in {"Progress", "Completed", "Failed"},
           v.tools # {} => v.rows[Len(v.rows)].call = call
    PROVE  LET u == UpdateTool(v, call, state) IN
           /\ u \in Views /\ u.streaming = 0 /\ u.status = v.status
           /\ u.tools = {Len(u.rows)} /\ Len(u.rows) > 0 /\ Len(u.rows) \in Nat
           /\ u.rows[Len(u.rows)] = ToolRow(call, state)
           /\ v.tools # {} => u.rows = [v.rows EXCEPT ![Len(v.rows)] = ToolRow(call, state)]
           /\ v.tools = {} => u.rows = Append(v.rows, ToolRow(call, state))
<1> DEFINE n == Len(v.rows)
           r == ToolRow(call, state)
<1>u. SUFFICES ASSUME NEW u, u = UpdateTool(v, call, state)
      PROVE  /\ u \in Views /\ u.streaming = 0 /\ u.status = v.status
             /\ u.tools = {Len(u.rows)} /\ Len(u.rows) > 0 /\ Len(u.rows) \in Nat
             /\ u.rows[Len(u.rows)] = ToolRow(call, state)
             /\ v.tools # {} => u.rows = [v.rows EXCEPT ![Len(v.rows)] = ToolRow(call, state)]
             /\ v.tools = {} => u.rows = Append(v.rows, ToolRow(call, state))
  OBVIOUS
<1>0a. v.tools # {} => v.rows[n].call = call
  OBVIOUS
<1>0b. n \in Nat /\ v.rows \in Seq(AllRows)
  BY DEF Views
<1>1. r \in AllRows
  BY DEF ToolRow, AllRows, ToolRows
<1>2. CASE v.tools = {}
  <2> DEFINE x == Push(v, r)
  <2>1. u = [x EXCEPT !.tools = x.tools \cup {n + 1}]
    BY <1>0a, <1>u, <1>2 DEF UpdateTool, ToolAt
  <2> HIDE DEF r
  <2>2. /\ x \in Views /\ x.rows = Append(v.rows, r) /\ x.tools = {} /\ x.streaming = 0
        /\ x.status = v.status
    BY <1>0a, <1>u, <1>1, <1>2, PushedView
  <2> HIDE DEF x
  <2>3. x.tools \cup {n + 1} = {n + 1} /\ {n + 1} \in SUBSET Nat
    BY <1>0b, <2>2
  <2>4. /\ u \in Views /\ u.rows = Append(v.rows, r) /\ u.tools = {n + 1} /\ u.streaming = 0
        /\ u.status = v.status
    BY <2>1, <2>2, <2>3 DEF Views
  <2>5. Len(u.rows) = n + 1 /\ u.rows[n + 1] = r
    BY <1>0b, <1>1, <2>4
  <2> QED BY <1>0b, <1>2, <2>4, <2>5 DEF r
<1>3. CASE v.tools # {}
  <2>1. v.tools = {n} /\ n > 0
    BY <1>3 DEF InPlace
  <2>2. ToolAt(v, call) = {n}
    BY <1>0a, <1>u, <1>3, <2>1 DEF ToolAt
  <2>3. u = Put(v, n, r)
    BY <1>0a, <1>u, <2>2 DEF UpdateTool
  <2> HIDE DEF r
  <2>4. /\ u \in Views /\ u.rows = [v.rows EXCEPT ![n] = r] /\ u.tools = {n} /\ u.streaming = 0
        /\ u.status = v.status
    BY <1>0b, <1>0a, <1>1, <2>1, <2>3, PutView
  <2>5. Len(u.rows) = n /\ u.rows[n] = r
    BY <1>0b, <1>1, <2>1, <2>4
  <2> QED BY <1>0b, <1>3, <2>1, <2>4, <2>5 DEF r
<1> QED BY <1>2, <1>3

\* What an event does to a view that it follows.
LEMMA AppliedEvent ==
    ASSUME NEW v \in Views, InPlace(v), NEW e \in Events,
           v.streaming # 0 => e.kind \in {"delta", "message_end"},
           v.tools # {} => \/ e.kind = "tool_update" /\ e.of = v.rows[Len(v.rows)].call
                           \/ e.kind = "tool_end" /\ e.of.call = v.rows[Len(v.rows)].call,
           NEW w, w = ApplyEvent(v, e)
    PROVE  /\ w \in Views /\ InPlace(w) /\ RowsMove(v, w, RowOf(e))
           /\ w.streaming # 0 => e.kind = "delta"
           /\ w.tools # {} => /\ e.kind \in {"tool_start", "tool_update"}
                              /\ w.rows[Len(w.rows)].call = e.of
           /\ w.status = "active" => \/ e.kind \in Starts
                                     \/ v.status = "active" /\ e.kind \notin Closers
<1> DEFINE n == Len(v.rows)
<1>0. /\ n \in Nat /\ v.rows \in Seq(AllRows) /\ v.streaming \in Nat /\ v.tools \in SUBSET Nat
      /\ v.status \in {"idle", "active", "notice"}
  BY DEF Views
<1>1. CASE e.kind \in {"agent_start", "agent_end", "compaction_start", "compaction_end",
                       "turn_failed"}
  <2>1. \E s \in {"idle", "active", "notice"} :
          /\ w = [v EXCEPT !.status = s]
          /\ s = "active" => \/ e.kind \in Starts
                             \/ v.status = "active" /\ e.kind \notin Closers
    BY <1>0, <1>1 DEF ApplyEvent, Starts, Closers
  <2>2. /\ w \in Views /\ w.rows = v.rows /\ w.streaming = v.streaming /\ w.tools = v.tools
        /\ w.status = "active" => \/ e.kind \in Starts
                                  \/ v.status = "active" /\ e.kind \notin Closers
    <3>1. PICK s \in {"idle", "active", "notice"} :
            /\ w = [v EXCEPT !.status = s]
            /\ s = "active" => \/ e.kind \in Starts
                               \/ v.status = "active" /\ e.kind \notin Closers
      BY <2>1
    <3> QED BY <3>1 DEF Views
  <2>3. RowOf(e) = NoRow /\ v.streaming = 0 /\ v.tools = {}
    BY <1>1 DEF RowOf
  <2>4. InPlace(w) /\ RowsMove(v, w, RowOf(e))
    BY <1>0, <2>2, <2>3 DEF InPlace, RowsMove
  <2> QED BY <2>2, <2>3, <2>4
<1>2. CASE e.kind = "user"
  <2>1. w = Push(v, UserRow(e.of)) /\ RowOf(e) = UserRow(e.of) /\ e.of \in Texts
    BY <1>2, EventKinds DEF ApplyEvent, RowOf
  <2>2. /\ w \in Views /\ w.rows = Append(v.rows, UserRow(e.of)) /\ w.streaming = v.streaming
        /\ w.tools = v.tools /\ w.status = v.status
    <3>1. UserRow(e.of) \in AllRows
      BY <2>1, MadeRows
    <3> QED BY <2>1, <3>1, PushedView
  <2>3. v.streaming = 0 /\ v.tools = {}
    BY <1>2
  <2>4. InPlace(w) /\ RowsMove(v, w, RowOf(e))
    BY <2>1, <2>2, <2>3, MadeRows, PushedRow
  <2> QED BY <1>2, <2>2, <2>3, <2>4 DEF Closers
<1>3. CASE e.kind = "delta" /\ v.streaming = 0
  <2> DEFINE r == TextRow(1, TRUE)
  <2>1. w = [Push(v, r) EXCEPT !.streaming = Len(v.rows) + 1] /\ RowOf(e) = NoRow /\ v.tools = {}
    BY <1>3 DEF ApplyEvent, RowOf, MessageUpdate
  <2>2. r \in AllRows /\ OpenText(r) /\ ~OpenCall(r)
    BY MadeRows
  <2> HIDE DEF r
  <2>3. /\ Push(v, r) \in Views /\ Push(v, r).rows = Append(v.rows, r) /\ Push(v, r).tools = v.tools
        /\ Push(v, r).status = v.status
    BY <2>2, PushedView
  <2>4. /\ w \in Views /\ w.rows = Append(v.rows, r) /\ w.streaming = n + 1
        /\ w.tools = v.tools /\ w.status = v.status
    <3> DEFINE u == Push(v, r)
    <3>1. w = [u EXCEPT !.streaming = n + 1] /\ u \in Views /\ n + 1 \in Nat
      BY <1>0, <2>1, <2>3
    <3> HIDE DEF u
    <3>2. /\ w \in Views /\ w.streaming = n + 1 /\ w.rows = u.rows /\ w.tools = u.tools
          /\ w.status = u.status
      BY <3>1 DEF Views
    <3> QED BY <2>3, <3>2 DEF u
  <2>5. InPlace(w) /\ RowsMove(v, w, RowOf(e))
    BY <1>3, <2>1, <2>2, <2>4, PushedRow
  <2> QED BY <1>3, <2>1, <2>4, <2>5 DEF Closers
<1>4. CASE e.kind = "delta" /\ v.streaming # 0
  <2> DEFINE r == [v.rows[n] EXCEPT !.text = v.rows[n].text + 1]
  <2>1. v.streaming = n /\ n > 0 /\ OpenText(v.rows[n])
    BY <1>0, <1>4 DEF InPlace
  <2>2. /\ v.tools = {} /\ RowOf(e) = NoRow
    BY <1>4 DEF RowOf
  <2>3. w = Put(v, n, r)
    BY <1>0, <1>4, <2>1 DEF ApplyEvent, MessageUpdate, Put, Views
  <2>4. r \in AllRows /\ OpenText(r) /\ ~OpenCall(r)
    BY <2>1 DEF OpenText, OpenCall, TextRows, ToolRows, AllRows
  <2> HIDE DEF r
  <2>5. /\ w \in Views /\ w.rows = [v.rows EXCEPT ![n] = r] /\ w.streaming = v.streaming
        /\ w.tools = v.tools /\ w.status = v.status
    BY <1>0, <2>1, <2>3, <2>4, PutView
  <2>6. InPlace(w) /\ RowsMove(v, w, RowOf(e))
    BY <1>4, <2>1, <2>2, <2>4, <2>5, ReplacedRow
  <2> QED BY <1>4, <2>2, <2>5, <2>6 DEF Closers
<1>5. CASE e.kind = "message_end"
  <2> DEFINE r == Row(e.of)
  <2>1. /\ r \in AllRows /\ ~OpenText(r) /\ ~OpenCall(r) /\ RowOf(e) = r /\ v.tools = {}
    BY <1>5, EventKinds, TypedMessages, MadeRows DEF RowOf
  <2>2. w = MessageEnd(v, e.of)
    BY <1>5 DEF ApplyEvent
  <2> HIDE DEF r
  <2>3. CASE v.streaming = 0
    <3>1. w = Push(v, r)
      BY <2>2, <2>3 DEF MessageEnd, r
    <3>2. /\ w \in Views /\ w.rows = Append(v.rows, r) /\ w.streaming = v.streaming
          /\ w.tools = v.tools /\ w.status = v.status
      BY <2>1, <3>1, PushedView
    <3>3. InPlace(w) /\ RowsMove(v, w, RowOf(e))
      BY <2>1, <2>3, <3>2, PushedRow
    <3> QED BY <1>5, <2>1, <2>3, <3>2, <3>3 DEF Closers
  <2>4. CASE v.streaming # 0
    <3>1. v.streaming = n /\ n > 0
      BY <1>0, <2>4 DEF InPlace
    <3>2. w = [Put(v, n, r) EXCEPT !.streaming = 0]
      BY <2>2, <2>4, <3>1 DEF MessageEnd, r
    <3>3. /\ Put(v, n, r) \in Views /\ Put(v, n, r).rows = [v.rows EXCEPT ![n] = r]
          /\ Put(v, n, r).tools = v.tools /\ Put(v, n, r).status = v.status
      BY <1>0, <2>1, <3>1, PutView
    <3>4. /\ w \in Views /\ w.rows = [v.rows EXCEPT ![n] = r] /\ w.streaming = 0
          /\ w.tools = v.tools /\ w.status = v.status
      BY <3>2, <3>3 DEF Views
    <3>5. InPlace(w) /\ RowsMove(v, w, RowOf(e))
      BY <2>1, <2>4, <3>1, <3>4, ReplacedRow
    <3> QED BY <1>5, <2>1, <3>4, <3>5 DEF Closers
  <2> QED BY <2>3, <2>4
<1>6. CASE e.kind = "tool_start"
  <2> DEFINE r == ToolRow(e.of, "Started")
             u == Push(v, r)
  <2>1. /\ r \in AllRows /\ ~OpenText(r) /\ OpenCall(r) /\ r.call = e.of
        /\ RowOf(e) = NoRow /\ v.tools = {} /\ v.streaming = 0
    BY <1>6, EventKinds, MadeRows DEF RowOf
  <2>2. w = [u EXCEPT !.tools = u.tools \cup {n + 1}]
    BY <1>6 DEF ApplyEvent
  <2> HIDE DEF r
  <2>3. /\ u \in Views /\ u.rows = Append(v.rows, r) /\ u.tools = {} /\ u.streaming = 0
        /\ u.status = v.status
    BY <2>1, PushedView
  <2> HIDE DEF u
  <2>4. /\ w \in Views /\ w.rows = Append(v.rows, r) /\ w.streaming = 0 /\ w.tools = {n + 1}
        /\ w.status = v.status
    <3>1. u.tools \cup {n + 1} = {n + 1} /\ {n + 1} \in SUBSET Nat
      BY <1>0, <2>3
    <3> QED BY <2>2, <2>3, <3>1 DEF Views
  <2>5. InPlace(w) /\ RowsMove(v, w, RowOf(e)) /\ w.rows[Len(w.rows)] = r
    BY <2>1, <2>4, PushedRow
  <2> QED BY <1>6, <2>1, <2>4, <2>5 DEF Closers
<1>8. CASE e.kind = "tool_update"
  <2> DEFINE r == ToolRow(e.of, "Progress")
  <2>1. /\ r \in AllRows /\ ~OpenText(r) /\ OpenCall(r) /\ r.call = e.of
        /\ RowOf(e) = NoRow /\ v.streaming = 0 /\ e.of \in Nat
    BY <1>8, EventKinds, MadeRows DEF RowOf
  <2>2. w = UpdateTool(v, e.of, "Progress") /\ (v.tools # {} => v.rows[n].call = e.of)
    BY <1>8 DEF ApplyEvent
  <2>3. /\ w \in Views /\ w.streaming = 0 /\ w.status = v.status
        /\ w.tools = {Len(w.rows)} /\ Len(w.rows) > 0 /\ w.rows[Len(w.rows)] = r
        /\ v.tools # {} => w.rows = [v.rows EXCEPT ![n] = r]
        /\ v.tools = {} => w.rows = Append(v.rows, r)
    <3> DEFINE call == e.of
               state == "Progress"
    <3>1. /\ call \in Nat /\ state \in {"Progress", "Completed", "Failed"} /\ r = ToolRow(call, state)
          /\ w = UpdateTool(v, call, state) /\ v.streaming = 0
          /\ v.tools # {} => v.rows[n].call = call
      BY <2>1, <2>2
    <3> HIDE DEF call, state, r
    <3>2. PICK u : u = UpdateTool(v, call, state)
      OBVIOUS
    <3>3. /\ u \in Views /\ u.streaming = 0 /\ u.status = v.status
          /\ u.tools = {Len(u.rows)} /\ Len(u.rows) > 0 /\ u.rows[Len(u.rows)] = ToolRow(call, state)
          /\ v.tools # {} => u.rows = [v.rows EXCEPT ![n] = ToolRow(call, state)]
          /\ v.tools = {} => u.rows = Append(v.rows, ToolRow(call, state))
      BY <3>1, <3>2, UpdatedTool
    <3> QED BY <3>1, <3>2, <3>3
  <2> HIDE DEF r
  <2>4. CASE v.tools = {}
    <3>1. Len(w.rows) = n + 1
      BY <1>0, <2>1, <2>3, <2>4
    <3>2. InPlace(w) /\ RowsMove(v, w, RowOf(e))
      BY <2>1, <2>3, <2>4, <3>1, PushedRow
    <3> QED BY <1>8, <2>1, <2>3, <3>2 DEF Closers
  <2>5. CASE v.tools # {}
    <3>1. Len(w.rows) = n
      BY <1>0, <2>1, <2>3, <2>5
    <3>2. InPlace(w) /\ RowsMove(v, w, RowOf(e))
      BY <2>1, <2>3, <2>5, <3>1, ReplacedRow
    <3> QED BY <1>8, <2>1, <2>3, <3>2 DEF Closers
  <2> QED BY <2>4, <2>5
<1>9. CASE e.kind = "tool_end"
  <2> DEFINE r == Row(e.of)
  <2>0. PICK u : u = UpdateTool(v, e.of.call, Outcome(e.of.isError))
    OBVIOUS
  <2>1. /\ r \in AllRows /\ ~OpenText(r) /\ ~OpenCall(r) /\ RowOf(e) = r /\ v.streaming = 0
        /\ e.of \in Results /\ e.of.call \in Nat
    BY <1>9, EventKinds, TypedMessages, MadeRows DEF RowOf
  <2>2. /\ Outcome(e.of.isError) \in {"Progress", "Completed", "Failed"}
        /\ r = ToolRow(e.of.call, Outcome(e.of.isError)) /\ r.call = e.of.call
    BY <2>1, MadeRows DEF Outcome, ToolRow
  <2>3. /\ w = [u EXCEPT !.tools = u.tools \ ToolAt(u, e.of.call)]
        /\ v.tools # {} => v.rows[n].call = e.of.call
    BY <1>9, <2>0 DEF ApplyEvent
  <2>4. /\ u \in Views /\ u.streaming = 0 /\ u.status = v.status
        /\ u.tools = {Len(u.rows)} /\ u.rows[Len(u.rows)] = r
        /\ v.tools # {} => u.rows = [v.rows EXCEPT ![n] = r]
        /\ v.tools = {} => u.rows = Append(v.rows, r)
    <3> DEFINE call == e.of.call
               state == Outcome(e.of.isError)
    <3>1. call \in Nat /\ state \in {"Progress", "Completed", "Failed"} /\ r = ToolRow(call, state)
          /\ u = UpdateTool(v, call, state) /\ v.streaming = 0
          /\ (v.tools # {} => v.rows[n].call = call)
      BY <2>0, <2>1, <2>2, <2>3
    <3> HIDE DEF call, state, r
    <3>2. /\ u \in Views /\ u.streaming = 0 /\ u.status = v.status
          /\ u.tools = {Len(u.rows)} /\ u.rows[Len(u.rows)] = ToolRow(call, state)
          /\ v.tools # {} => u.rows = [v.rows EXCEPT ![n] = ToolRow(call, state)]
          /\ v.tools = {} => u.rows = Append(v.rows, ToolRow(call, state))
      BY <3>1, UpdatedTool
    <3> QED BY <3>1, <3>2
  <2> HIDE DEF r
  <2>5. u.tools \ ToolAt(u, e.of.call) = {}
    BY <2>2, <2>4 DEF ToolAt
  <2>6. /\ w \in Views /\ w.streaming = 0 /\ w.status = v.status /\ w.tools = {}
        /\ w.rows = u.rows
    BY <2>3, <2>4, <2>5 DEF Views
  <2>7. CASE v.tools = {}
    <3>1. InPlace(w) /\ RowsMove(v, w, RowOf(e))
      BY <2>1, <2>4, <2>6, <2>7, PushedRow
    <3> QED BY <1>9, <2>6, <3>1 DEF Closers
  <2>8. CASE v.tools # {}
    <3>1. InPlace(w) /\ RowsMove(v, w, RowOf(e))
      BY <2>1, <2>4, <2>6, <2>8, ReplacedRow
    <3> QED BY <1>9, <2>6, <3>1 DEF Closers
  <2> QED BY <2>7, <2>8
<1> QED BY <1>1, <1>2, <1>3, <1>4, <1>5, <1>6, <1>8, <1>9, EventKinds DEF Marks

-----------------------------------------------------------------------------
(* What follows what in the events. *)

\* The rest of the events goes on as they do.
LEMMA TailGoesOn ==
    ASSUME NEW es \in Seq(Events), es # <<>>, NEW text, NEW call, NEW working,
           Unbroken(es, text, call), Closed(es, working)
    PROVE  /\ Tail(es) \in Seq(Events)
           /\ Unbroken(Tail(es), text, call) /\ Closed(Tail(es), working)
           /\ Head(es).kind = "delta" => TextGoesOn(Tail(es), 1, text)
           /\ Head(es).kind \in {"tool_start", "tool_update"} =>
                CallGoesOn(Tail(es), 1, Head(es).of, call)
           /\ Head(es).kind \in Starts =>
                working \/ \E j \in DOMAIN Tail(es) : Tail(es)[j].kind \in Closers
<1> DEFINE rest == Tail(es)
<1>1. /\ rest \in Seq(Events) /\ Len(es) \in Nat /\ Len(es) > 0 /\ Len(rest) = Len(es) - 1
      /\ DOMAIN es = 1 .. Len(es) /\ DOMAIN rest = 1 .. Len(rest)
      /\ \A k \in DOMAIN rest : rest[k] = es[k + 1] /\ k + 1 \in DOMAIN es
      /\ \A k \in Nat : k + 1 \in DOMAIN es /\ k > 0 => k \in DOMAIN rest /\ rest[k] = es[k + 1]
      /\ Head(es) = es[1] /\ 1 \in DOMAIN es
  OBVIOUS
<1> HIDE DEF rest
<1>2. \A k \in Nat : k > 0 => (TextGoesOn(es, k + 1, text) => TextGoesOn(rest, k, text))
  BY <1>1 DEF TextGoesOn
<1>3. \A k \in Nat : k > 0 => \A c : (CallGoesOn(es, k + 1, c, call) => CallGoesOn(rest, k, c, call))
  BY <1>1 DEF CallGoesOn
<1>4. Unbroken(rest, text, call)
  BY <1>1, <1>2, <1>3 DEF Unbroken
<1>5. Closed(rest, working)
  <2>1. SUFFICES ASSUME NEW k \in DOMAIN rest, rest[k].kind \in Starts, ~working
                 PROVE  \E j \in DOMAIN rest : j > k /\ rest[j].kind \in Closers
    BY DEF Closed
  <2>2. PICK j \in DOMAIN es : j > k + 1 /\ es[j].kind \in Closers
    BY <1>1, <2>1 DEF Closed
  <2>3. j - 1 \in DOMAIN rest /\ rest[j - 1] = es[j] /\ j - 1 > k
    BY <1>1, <2>1, <2>2
  <2> QED BY <2>2, <2>3
<1>6. Head(es).kind = "delta" => TextGoesOn(rest, 1, text)
  BY <1>1, <1>2 DEF Unbroken
<1>7. Head(es).kind \in {"tool_start", "tool_update"} => CallGoesOn(rest, 1, Head(es).of, call)
  BY <1>1, <1>3 DEF Unbroken
<1>8. ASSUME Head(es).kind \in Starts, ~working
      PROVE  \E j \in DOMAIN rest : rest[j].kind \in Closers
  <2>1. PICK j \in DOMAIN es : j > 1 /\ es[j].kind \in Closers
    BY <1>1, <1>8 DEF Closed
  <2>2. j - 1 \in DOMAIN rest /\ rest[j - 1] = es[j]
    BY <1>1, <2>1
  <2> QED BY <2>1, <2>2
<1> QED BY <1>1, <1>4, <1>5, <1>6, <1>7, <1>8 DEF rest

\* What is emitted may follow what an operation emits next, and leads to what
\* it emits afterwards.
Follows(s, text, call, working, text2, call2, working2) ==
    /\ Unbroken(s, text2, call2) /\ Closed(s, working2)
    /\ text => TextGoesOn(s, 1, text2)
    /\ \A c \in call : CallGoesOn(s, 1, c, call2)
    /\ working => working2 \/ \E j \in DOMAIN s : s[j].kind \in Closers

\* Emitting it keeps the events, and the view before them, unbroken.
LEMMA EmittedGoesOn ==
    ASSUME NEW es \in Seq(Events), NEW s \in Seq(Events), NEW v,
           NEW text, NEW call, NEW working, NEW text2, NEW call2, NEW working2,
           Unbroken(es, text, call), Closed(es, working), Continued(v, es, text, call),
           Follows(s, text, call, working, text2, call2, working2)
    PROVE  /\ Unbroken(es \o s, text2, call2) /\ Closed(es \o s, working2)
           /\ Continued(v, es \o s, text2, call2)
           /\ (\E j \in DOMAIN es : es[j].kind \in Closers) =>
                \E j \in DOMAIN (es \o s) : (es \o s)[j].kind \in Closers
<1> DEFINE all == es \o s
           n == Len(es)
<1>1. /\ n \in Nat /\ Len(s) \in Nat /\ DOMAIN es = 1 .. n /\ DOMAIN s = 1 .. Len(s)
      /\ DOMAIN all = 1 .. n + Len(s)
      /\ \A k \in 1 .. n : all[k] = es[k]
      /\ \A k \in 1 .. Len(s) : all[n + k] = s[k]
  OBVIOUS
<1> HIDE DEF all, n
<1>2. ASSUME NEW k \in 1 .. n + 1, TextGoesOn(es, k, text) PROVE TextGoesOn(all, k, text2)
  <2>1. CASE k <= n
    BY <1>1, <1>2, <2>1 DEF TextGoesOn
  <2>2. CASE k = n + 1
    <3>1. TextGoesOn(s, 1, text2)
      BY <1>1, <1>2, <2>2 DEF TextGoesOn, Follows
    <3>2. CASE Len(s) > 0
      BY <1>1, <2>2, <3>1, <3>2 DEF TextGoesOn
    <3>3. CASE Len(s) = 0
      BY <1>1, <2>2, <3>1, <3>3 DEF TextGoesOn
    <3> QED BY <1>1, <3>2, <3>3
  <2> QED BY <1>1, <2>1, <2>2
<1>3. ASSUME NEW k \in 1 .. n + 1, NEW c, CallGoesOn(es, k, c, call)
      PROVE  CallGoesOn(all, k, c, call2)
  <2>1. CASE k <= n
    BY <1>1, <1>3, <2>1 DEF CallGoesOn
  <2>2. CASE k = n + 1
    <3>1. CallGoesOn(s, 1, c, call2)
      BY <1>1, <1>3, <2>2 DEF CallGoesOn, Follows
    <3>2. CASE Len(s) > 0
      BY <1>1, <2>2, <3>1, <3>2 DEF CallGoesOn
    <3>3. CASE Len(s) = 0
      BY <1>1, <2>2, <3>1, <3>3 DEF CallGoesOn
    <3> QED BY <1>1, <3>2, <3>3
  <2> QED BY <1>1, <2>1, <2>2
<1>4. ASSUME NEW k \in 1 .. Len(s) + 1 PROVE
        /\ TextGoesOn(s, k, text2) => TextGoesOn(all, n + k, text2)
        /\ \A c : CallGoesOn(s, k, c, call2) => CallGoesOn(all, n + k, c, call2)
  BY <1>1, <1>4 DEF TextGoesOn, CallGoesOn
<1>5. Unbroken(all, text2, call2)
  <2>1. ASSUME NEW k \in DOMAIN all
        PROVE  /\ all[k].kind = "delta" => TextGoesOn(all, k + 1, text2)
               /\ all[k].kind \in {"tool_start", "tool_update"} =>
                    CallGoesOn(all, k + 1, all[k].of, call2)
    <3>1. CASE k <= n
      BY <1>1, <1>2, <1>3, <2>1, <3>1 DEF Unbroken
    <3>2. CASE k > n
      <4>1. PICK i \in 1 .. Len(s) : k = n + i
        <5>1. k - n \in 1 .. Len(s) /\ k = n + (k - n)
          BY <1>1, <2>1, <3>2
        <5> QED BY <5>1
      <4>2. all[k] = s[i] /\ i + 1 \in 1 .. Len(s) + 1 /\ k + 1 = n + (i + 1)
        BY <1>1, <4>1
      <4>3. /\ s[i].kind = "delta" => TextGoesOn(s, i + 1, text2)
            /\ s[i].kind \in {"tool_start", "tool_update"} => CallGoesOn(s, i + 1, s[i].of, call2)
        BY <1>1, <4>1 DEF Follows, Unbroken
      <4> QED BY <1>4, <4>2, <4>3
    <3> QED BY <1>1, <2>1, <3>1, <3>2
  <2> QED BY <2>1 DEF Unbroken
<1>6. Closed(all, working2)
  <2>1. SUFFICES ASSUME NEW k \in DOMAIN all, all[k].kind \in Starts, ~working2
                 PROVE  \E j \in DOMAIN all : j > k /\ all[j].kind \in Closers
    BY DEF Closed
  <2>2. ASSUME NEW j \in 1 .. Len(s), s[j].kind \in Closers, n + j > k
        PROVE  \E i \in DOMAIN all : i > k /\ all[i].kind \in Closers
    BY <1>1, <2>2
  <2>3. CASE k <= n
    <3>1. CASE working
      <4>1. PICK j \in DOMAIN s : s[j].kind \in Closers
        BY <2>1, <3>1 DEF Follows
      <4> QED BY <1>1, <2>1, <2>2, <2>3, <4>1
    <3>2. CASE ~working
      <4>1. PICK j \in DOMAIN es : j > k /\ es[j].kind \in Closers
        BY <1>1, <2>1, <2>3, <3>2 DEF Closed
      <4> QED BY <1>1, <4>1
    <3> QED BY <3>1, <3>2
  <2>4. CASE k > n
    <3>1. PICK i \in 1 .. Len(s) : k = n + i
      <4>1. k - n \in 1 .. Len(s) /\ k = n + (k - n)
        BY <1>1, <2>1, <2>4
      <4> QED BY <4>1
    <3>2. PICK j \in DOMAIN s : j > i /\ s[j].kind \in Closers
      BY <1>1, <2>1, <3>1 DEF Follows, Closed
    <3> QED BY <1>1, <2>2, <3>1, <3>2
  <2> QED BY <1>1, <2>1, <2>3, <2>4
<1>7. Continued(v, all, text2, call2)
  BY <1>1, <1>2, <1>3 DEF Continued
<1>8. (\E j \in DOMAIN es : es[j].kind \in Closers) => \E j \in DOMAIN all : all[j].kind \in Closers
  BY <1>1
<1> QED BY <1>5, <1>6, <1>7, <1>8 DEF all

-----------------------------------------------------------------------------
(* Where the rows of the messages are. *)

\* Fewer messages, more slots.
LEMMA PlacedStill ==
    ASSUME NEW m, NEW C, NEW s, Placed(m, C, s),
           NEW m2, NEW C2 \in SUBSET C, NEW s2,
           \A i \in C2 : m2[i] = m[i],
           DOMAIN s \subseteq DOMAIN s2, \A k \in DOMAIN s : s2[k] = s[k]
    PROVE  Placed(m2, C2, s2)
<1>1. PICK f \in [C -> DOMAIN s] :
        /\ \A i \in C : s[f[i]] = Row(m[i])
        /\ \A i, j \in C : i < j => f[i] < f[j]
  BY DEF Placed
<1> DEFINE g == [i \in C2 |-> f[i]]
<1>2. g \in [C2 -> DOMAIN s2] /\ \A i \in C2 : g[i] = f[i] /\ f[i] \in DOMAIN s
  BY <1>1
<1> HIDE DEF g
<1>3. (\A i \in C2 : s2[g[i]] = Row(m2[i])) /\ \A i, j \in C2 : i < j => g[i] < g[j]
  BY <1>1, <1>2
<1> QED BY <1>2, <1>3 DEF Placed

\* A message n more, whose row is in a new slot k.
OneMore(m, C, s, m2, C2, s2, n, k) ==
    /\ \E l, l2 \in Nat : DOMAIN s = 1 .. l /\ DOMAIN s2 = 1 .. l2 /\ k > l
    /\ C \in SUBSET Nat /\ C2 \subseteq C \cup {n} /\ n \in Nat
    /\ \A i \in C : i < n /\ m2[i] = m[i]
    /\ \A j \in DOMAIN s : j \in DOMAIN s2 /\ s2[j] = s[j]
    /\ k \in DOMAIN s2 /\ s2[k] = Row(m2[n])

\* Such a message finds its row after all others.
LEMMA PlacedOneMore ==
    ASSUME NEW m, NEW C, NEW s, NEW m2, NEW C2, NEW s2, NEW n, NEW k,
           Placed(m, C, s), OneMore(m, C, s, m2, C2, s2, n, k)
    PROVE  Placed(m2, C2, s2)
<1> USE DEF OneMore
<1>1. PICK f \in [C -> DOMAIN s] :
        /\ \A i \in C : s[f[i]] = Row(m[i])
        /\ \A i, j \in C : i < j => f[i] < f[j]
  BY DEF Placed
<1> DEFINE g == [i \in C2 |-> IF i = n THEN k ELSE f[i]]
<1>2. /\ n \notin C /\ \A i \in C : f[i] \in DOMAIN s /\ f[i] \in Nat /\ f[i] < k
      /\ \A i \in C2 : i = n \/ i \in C
  BY <1>1
<1>3. g \in [C2 -> DOMAIN s2]
  BY <1>2
<1>4. \A i \in C2 : g[i] = IF i = n THEN k ELSE f[i]
  OBVIOUS
<1> HIDE DEF g
<1>5. ASSUME NEW i \in C2 PROVE s2[g[i]] = Row(m2[i])
  <2>1. CASE i = n
    BY <1>4, <2>1
  <2>2. CASE i # n
    BY <1>1, <1>2, <1>4, <2>2
  <2> QED BY <2>1, <2>2
<1>6. ASSUME NEW i \in C2, NEW j \in C2, i < j PROVE g[i] < g[j]
  <2>1. CASE j = n
    <3>1. i \in C /\ i # n
      BY <1>2, <1>6, <2>1
    <3> QED BY <1>2, <1>4, <2>1, <3>1
  <2>2. CASE j # n
    <3>1. j \in C /\ j < n /\ i \in Nat /\ i # n
      BY <1>2, <1>6, <2>2
    <3> QED BY <1>1, <1>2, <1>4, <1>6, <2>2, <3>1
  <2> QED BY <2>1, <2>2
<1> QED BY <1>3, <1>5, <1>6 DEF Placed

\* Every message keeps its row when the slots move, in order.
LEMMA PlacedMoved ==
    ASSUME NEW m, NEW C \in SUBSET Nat, NEW s, Placed(m, C, s), NEW s2, NEW g,
           \A k \in DOMAIN s : (\E i \in C : s[k] = Row(m[i])) =>
                g[k] \in DOMAIN s2 /\ s2[g[k]] = s[k],
           \A k, l \in DOMAIN s : k < l /\ (\E i \in C : s[k] = Row(m[i]))
                                  /\ (\E i \in C : s[l] = Row(m[i])) => g[k] < g[l]
    PROVE  Placed(m, C, s2)
<1>1. PICK f \in [C -> DOMAIN s] :
        /\ \A i \in C : s[f[i]] = Row(m[i])
        /\ \A i, j \in C : i < j => f[i] < f[j]
  BY DEF Placed
<1> DEFINE h == [i \in C |-> g[f[i]]]
<1>2. \A i \in C : f[i] \in DOMAIN s /\ g[f[i]] \in DOMAIN s2 /\ s2[g[f[i]]] = Row(m[i])
  BY <1>1
<1>3. h \in [C -> DOMAIN s2] /\ \A i \in C : h[i] = g[f[i]]
  BY <1>2
<1>4. \A i, j \in C : i < j => g[f[i]] < g[f[j]]
  BY <1>1, <1>2
<1> HIDE DEF h
<1>5. (\A i \in C : s2[h[i]] = Row(m[i])) /\ \A i, j \in C : i < j => h[i] < h[j]
  BY <1>2, <1>3, <1>4
<1> QED BY <1>3, <1>5 DEF Placed

\* Applying the first event leaves the messages their rows.
LEMMA DrainedSlots ==
    ASSUME NEW v \in Views, NEW w \in Views, NEW es \in Seq(Events), es # <<>>,
           RowsMove(v, w, RowOf(Head(es))),
           NEW m, NEW C \in SUBSET Nat, \A i \in C : m[i] \in Messages,
           Placed(m, C, Slots(v.rows, es))
    PROVE  Placed(m, C, Slots(w.rows, Tail(es)))
<1> DEFINE n == Len(v.rows)
           l == Len(w.rows)
           rest == Tail(es)
           s == Slots(v.rows, es)
           s2 == Slots(w.rows, rest)
<1>1. n \in Nat /\ l \in Nat
  BY DEF Views
<1>2. /\ Len(es) \in Nat /\ Len(es) > 0 /\ Len(rest) = Len(es) - 1 /\ Head(es) = es[1]
      /\ \A k \in 1 .. Len(rest) : rest[k] = es[k + 1]
  OBVIOUS
<1>3. /\ DOMAIN s = 1 .. n + Len(es) /\ DOMAIN s2 = 1 .. l + Len(rest)
      /\ \A k \in 1 .. n : s[k] = v.rows[k]
      /\ \A k \in 1 .. Len(es) : s[n + k] = RowOf(es[k])
      /\ \A k \in 1 .. l : s2[k] = w.rows[k]
      /\ \A k \in 1 .. Len(rest) : s2[l + k] = RowOf(es[k + 1])
  BY <1>1, <1>2 DEF Slots
<1> HIDE DEF n, l, rest, s, s2
<1>4. \A k : (\E i \in C : s[k] = Row(m[i])) =>
        s[k] # NoRow /\ ~OpenText(s[k]) /\ ~OpenCall(s[k])
  BY TypedRow, MadeRows
<1>5. CASE l = n + 1
  <2> DEFINE g == [k \in DOMAIN s |-> k]
  <2>1. /\ \A k \in 1 .. n : w.rows[k] = v.rows[k]
        /\ RowOf(Head(es)) # NoRow => w.rows[n + 1] = RowOf(Head(es))
    BY <1>1, <1>5 DEF RowsMove, n, l
  <2>2. ASSUME NEW k \in DOMAIN s, \E i \in C : s[k] = Row(m[i])
        PROVE  k \in DOMAIN s2 /\ s2[k] = s[k]
    <3>1. k \in DOMAIN s2
      BY <1>1, <1>2, <1>3, <1>5
    <3>2. CASE k <= n
      BY <1>1, <1>3, <1>5, <2>1, <3>2
    <3>3. CASE k = n + 1
      <4>1. s[k] = RowOf(es[1]) /\ s[k] # NoRow
        <5>1. 1 \in 1 .. Len(es) /\ s[n + 1] = RowOf(es[1])
          BY <1>2, <1>3
        <5> QED BY <1>4, <2>2, <3>3, <5>1
      <4> QED BY <1>1, <1>2, <1>3, <1>5, <2>1, <3>1, <3>3, <4>1
    <3>4. CASE k > n + 1
      <4>1. k - n \in 1 .. Len(es) /\ k - l \in 1 .. Len(rest) /\ k - n = (k - l) + 1
            /\ k = n + (k - n) /\ k = l + (k - l)
        BY <1>1, <1>2, <1>3, <1>5, <3>4
      <4>2. s[k] = RowOf(es[k - n]) /\ s2[k] = RowOf(es[k - n])
        BY <1>3, <4>1
      <4> QED BY <3>1, <4>2
    <3> QED BY <1>1, <1>3, <3>2, <3>3, <3>4
  <2>3. /\ \A k \in DOMAIN s : (\E i \in C : s[k] = Row(m[i])) =>
                g[k] \in DOMAIN s2 /\ s2[g[k]] = s[k]
        /\ \A k, j \in DOMAIN s : k < j /\ (\E i \in C : s[k] = Row(m[i]))
                                  /\ (\E i \in C : s[j] = Row(m[i])) => g[k] < g[j]
    BY <2>2
  <2> HIDE DEF g
  <2>4. Placed(m, C, s2)
    BY <2>3, PlacedMoved DEF s
  <2> QED BY <2>4 DEF s2, rest
<1>6. CASE l # n + 1
  <2> DEFINE g == [k \in DOMAIN s |-> IF k <= n THEN k ELSE k - 1]
  <2>1. /\ l = n
        /\ \A k \in 1 .. n : \/ w.rows[k] = v.rows[k]
                             \/ k = n /\ (OpenText(v.rows[k]) \/ OpenCall(v.rows[k]))
        /\ RowOf(Head(es)) # NoRow => /\ n > 0 /\ w.rows[n] = RowOf(Head(es))
                                      /\ OpenText(v.rows[n]) \/ OpenCall(v.rows[n])
    BY <1>1, <1>6 DEF RowsMove, n, l
  <2>2. ASSUME NEW k \in DOMAIN s, \E i \in C : s[k] = Row(m[i]), k <= n
        PROVE  k \in DOMAIN s2 /\ s2[k] = s[k]
    BY <1>1, <1>2, <1>3, <1>4, <2>1, <2>2
  <2>3. ASSUME NEW k \in DOMAIN s, \E i \in C : s[k] = Row(m[i]), k > n
        PROVE  /\ k - 1 \in DOMAIN s2 /\ s2[k - 1] = s[k]
               /\ k = n + 1 => OpenText(s[n]) \/ OpenCall(s[n])
    <3>1. CASE k = n + 1
      <4>1. s[k] = RowOf(es[1]) /\ s[k] # NoRow
        <5>1. 1 \in 1 .. Len(es) /\ s[n + 1] = RowOf(es[1])
          BY <1>2, <1>3
        <5> QED BY <1>4, <2>3, <3>1, <5>1
      <4> QED BY <1>1, <1>2, <1>3, <2>1, <3>1, <4>1
    <3>2. CASE k # n + 1
      <4>1. k - n \in 1 .. Len(es) /\ k - n - 1 \in 1 .. Len(rest)
            /\ k = n + (k - n) /\ k - 1 = l + (k - n - 1) /\ (k - n - 1) + 1 = k - n
        BY <1>1, <1>2, <1>3, <2>1, <2>3, <3>2
      <4>2. s[k] = RowOf(es[k - n]) /\ s2[k - 1] = RowOf(es[k - n])
        BY <1>3, <4>1
      <4>3. k - 1 \in DOMAIN s2
        BY <1>1, <1>2, <1>3, <2>1, <2>3, <3>2
      <4> QED BY <3>2, <4>2, <4>3
    <3> QED BY <3>1, <3>2
  <2>4. \A k \in DOMAIN s : (\E i \in C : s[k] = Row(m[i])) =>
            g[k] \in DOMAIN s2 /\ s2[g[k]] = s[k]
    BY <1>1, <1>3, <2>2, <2>3
  <2>5. ASSUME NEW k \in DOMAIN s, NEW j \in DOMAIN s, k < j,
               \E i \in C : s[k] = Row(m[i]), \E i \in C : s[j] = Row(m[i])
        PROVE  g[k] < g[j]
    <3>1. CASE j = n + 1 /\ k = n
      BY <1>1, <1>3, <1>4, <2>3, <2>5, <3>1
    <3>2. CASE ~(j = n + 1 /\ k = n)
      BY <1>1, <1>3, <2>5, <3>2
    <3> QED BY <3>1, <3>2
  <2> HIDE DEF g
  <2>6. Placed(m, C, s2)
    BY <2>4, <2>5, PlacedMoved DEF s
  <2> QED BY <2>6 DEF s2, rest
<1> QED BY <1>5, <1>6

\* Slots that go on for the events s after the first l.
Longer(old, new, l, s) ==
    /\ DOMAIN old = 1 .. l /\ DOMAIN new = 1 .. l + Len(s)
    /\ \A k \in DOMAIN old : k \in DOMAIN new /\ new[k] = old[k]
    /\ \A k \in 1 .. Len(s) : new[l + k] = RowOf(s[k])

\* Emitting events adds slots.
LEMMA EmittedSlots ==
    ASSUME NEW rows, Len(rows) \in Nat, NEW es \in Seq(Events), NEW s \in Seq(Events)
    PROVE  Longer(Slots(rows, es), Slots(rows, es \o s), Len(rows) + Len(es), s)
<1>1. /\ Len(es) \in Nat /\ Len(s) \in Nat /\ Len(es \o s) = Len(es) + Len(s)
      /\ \A k \in 1 .. Len(es) : (es \o s)[k] = es[k]
      /\ \A k \in 1 .. Len(s) : (es \o s)[Len(es) + k] = s[k]
  OBVIOUS
<1>2. PICK all : all = es \o s
  OBVIOUS
<1> DEFINE old == Slots(rows, es)
           new == Slots(rows, all)
           n == Len(rows)
           e == Len(es)
<1>3. /\ DOMAIN old = 1 .. n + e /\ DOMAIN new = 1 .. n + e + Len(s)
      /\ \A k \in DOMAIN old : old[k] = IF k <= n THEN rows[k] ELSE RowOf(es[k - n])
      /\ \A k \in DOMAIN new : new[k] = IF k <= n THEN rows[k] ELSE RowOf(all[k - n])
  BY <1>1, <1>2 DEF Slots
<1>4. \A k \in 1 .. e : all[k] = es[k]
  BY <1>1, <1>2
<1>5. \A k \in 1 .. Len(s) : all[e + k] = s[k]
  BY <1>1, <1>2
<1>6. n \in Nat /\ e \in Nat /\ Len(s) \in Nat
  BY <1>1
<1> HIDE DEF old, new, n, e
<1>7. \A k \in DOMAIN old : k \in DOMAIN new /\ new[k] = old[k]
  <2>1. SUFFICES ASSUME NEW k \in DOMAIN old PROVE k \in DOMAIN new /\ new[k] = old[k]
    OBVIOUS
  <2>2. k \in DOMAIN new
    BY <1>3, <1>6
  <2>3. CASE k <= n
    BY <1>3, <2>2, <2>3
  <2>4. CASE k > n
    <3>1. k - n \in 1 .. e
      BY <1>3, <1>6, <2>4
    <3>2. new[k] = RowOf(all[k - n]) /\ old[k] = RowOf(es[k - n])
      BY <1>3, <1>6, <2>2, <2>4
    <3> QED BY <1>4, <2>2, <3>1, <3>2
  <2> QED BY <1>3, <1>6, <2>3, <2>4
<1>8. ASSUME NEW k \in 1 .. Len(s) PROVE new[n + e + k] = RowOf(s[k])
  <2>1. n + e + k \in DOMAIN new /\ n + e + k > n /\ (n + e + k) - n = e + k
    BY <1>3, <1>6
  <2>2. new[n + e + k] = RowOf(all[e + k])
    BY <1>3, <1>6, <2>1
  <2> QED BY <1>5, <2>2
<1> QED BY <1>2, <1>3, <1>7, <1>8 DEF old, new, n, e, Longer

-----------------------------------------------------------------------------
(* What a step of the operation emits. *)

\* One event, and what it must be while a text or a call goes on.
LEMMA OneFollows ==
    ASSUME NEW text, NEW call, NEW working, NEW text2, NEW call2, NEW working2, NEW e,
           e.kind = "delta" => text2,
           e.kind \in {"tool_start", "tool_update"} => e.of \in call2,
           e.kind \in Starts => working2,
           text => e.kind \in {"delta", "message_end"},
           \A c \in call : \/ e.kind = "tool_update" /\ e.of = c
                           \/ e.kind = "tool_end" /\ e.of.call = c,
           working => working2 \/ e.kind \in Closers
    PROVE  Follows(<<e>>, text, call, working, text2, call2, working2)
<1>1. PICK s : s = <<e>>
  OBVIOUS
<1>2. DOMAIN s = {1} /\ s[1] = e
  BY <1>1
<1>3. Unbroken(s, text2, call2)
  BY <1>2 DEF Unbroken, TextGoesOn, CallGoesOn
<1>4. Closed(s, working2)
  BY <1>2 DEF Closed
<1>5. (text => TextGoesOn(s, 1, text2)) /\ \A c \in call : CallGoesOn(s, 1, c, call2)
  BY <1>2 DEF TextGoesOn, CallGoesOn
<1>6. working => working2 \/ \E j \in DOMAIN s : s[j].kind \in Closers
  BY <1>2
<1> QED BY <1>1, <1>3, <1>4, <1>5, <1>6 DEF Follows

\* The events of a run that begins.
LEMMA StartFollows ==
    ASSUME NEW text, NEW call, NEW working, NEW text2, NEW call2, NEW t,
           ~text, call = {}
    PROVE  Follows(<<Event("agent_start", 0), Event("user", t)>>,
                   text, call, working, text2, call2, TRUE)
<1>1. PICK s : s = <<Event("agent_start", 0), Event("user", t)>>
  OBVIOUS
<1>2. DOMAIN s = {1, 2} /\ s[1].kind = "agent_start" /\ s[2].kind = "user"
  BY <1>1 DEF Event
<1>3. Unbroken(s, text2, call2) /\ Closed(s, TRUE)
  BY <1>2 DEF Unbroken, Closed
<1> QED BY <1>1, <1>3 DEF Follows

\* And of one that is settled with a failure.
LEMMA FailureFollows ==
    ASSUME NEW text, NEW call, NEW working, NEW text2, NEW call2, NEW working2, NEW m, call = {}
    PROVE  Follows(<<Event("message_end", m), Event("turn_failed", 0), Event("agent_end", 0)>>,
                   text, call, working, text2, call2, working2)
<1>1. PICK s : s = <<Event("message_end", m), Event("turn_failed", 0), Event("agent_end", 0)>>
  OBVIOUS
<1>2. /\ DOMAIN s = {1, 2, 3} /\ s[1].kind = "message_end" /\ s[2].kind = "turn_failed"
      /\ s[3].kind = "agent_end"
  BY <1>1 DEF Event
<1>3. Unbroken(s, text2, call2) /\ Closed(s, working2)
  BY <1>2 DEF Unbroken, Closed, Starts
<1>4. TextGoesOn(s, 1, text2) /\ \E j \in DOMAIN s : s[j].kind \in Closers
  BY <1>2 DEF TextGoesOn, Closers
<1> QED BY <1>1, <1>3, <1>4 DEF Follows

\* A step of the operation keeps the shape of the view if what it emits follows.
LEMMA DriveKeepsShape ==
    ASSUME Types, Shape, UNCHANGED <<view, ui>>, NEW s \in Seq(Events), events' = events \o s,
           op.at # "dropped",
           Follows(s, TextOn, CallOn, AtWork, TextOn', CallOn', AtWork')
    PROVE  Shape'
<1>1. events \in Seq(Events)
  BY DEF Types, EventsType
<1> DEFINE t == TextOn
           c == CallOn
           a == AtWork
           t2 == TextOn'
           c2 == CallOn'
           a2 == AtWork'
<1>2. /\ Unbroken(events, t, c) /\ Closed(events, a) /\ Continued(view, events, t, c)
      /\ Follows(s, t, c, a, t2, c2, a2)
  BY DEF Shape
<1> HIDE DEF t, c, a, t2, c2, a2
<1>3. /\ Unbroken(events \o s, t2, c2) /\ Closed(events \o s, a2)
      /\ Continued(view, events \o s, t2, c2)
      /\ (\E j \in DOMAIN events : events[j].kind \in Closers) =>
           \E j \in DOMAIN (events \o s) : (events \o s)[j].kind \in Closers
  BY <1>1, <1>2, EmittedGoesOn
<1> USE DEF t, c, a, t2, c2, a2
<1>4. Unbroken(events, TextOn, CallOn)' /\ Closed(events, AtWork)'
      /\ Continued(view, events, TextOn, CallOn)'
  BY <1>3
<1>5. StatusGoesBack'
  BY <1>3 DEF Shape, StatusGoesBack
<1> QED BY <1>4, <1>5 DEF Shape, InPlace

-----------------------------------------------------------------------------
(* The messages that have a row, after a step. *)

\* Messages that have a row are messages of the transcript.
LEMMA CoveredType ==
    ASSUME AgentType
    PROVE  /\ Covered \in SUBSET Nat /\ \A i \in Covered : i \in 1 .. Len(agent.messages)
           /\ \A i \in Covered : agent.messages[i] \in Messages
<1>1. agent.messages \in Seq(Messages)
  BY DEF AgentType
<1> QED BY <1>1 DEF Covered

\* A transcript that stays keeps them, if no run begins.
LEMMA CoveredSame ==
    ASSUME agent'.messages = agent.messages, op'.at \in Working => op.at \in Working
    PROVE  Covered' \subseteq Covered
BY DEF Covered, Announced

\* A message that is appended may have a row; the others keep theirs.
LEMMA CoveredAppend ==
    ASSUME AgentType, NEW m \in Messages, agent'.messages = Append(agent.messages, m),
           op.at \in Working \/ m.role = "user"
    PROVE  LET n == Len(agent.messages) + 1
           IN  /\ Covered' \subseteq Covered \cup {n}
               /\ \A i \in Covered : i < n /\ agent'.messages[i] = agent.messages[i]
               /\ agent'.messages[n] = m /\ n \in Nat /\ Len(agent'.messages) = n
               /\ m.role = "assistant" /\ m.stop = "None" => n \notin Covered'
               /\ m.role = "user" /\ op'.at \notin Working => n \notin Covered'
<1> DEFINE n == Len(agent.messages) + 1
<1>1. /\ agent.messages \in Seq(Messages) /\ n \in Nat /\ Len(agent'.messages) = n
      /\ agent'.messages[n] = m /\ DOMAIN agent.messages = 1 .. n - 1
      /\ DOMAIN agent'.messages = 1 .. n
      /\ \A i \in 1 .. n - 1 : agent'.messages[i] = agent.messages[i]
  BY DEF AgentType
<1>2. \A i \in Covered : i \in 1 .. n - 1
  BY <1>1 DEF Covered
<1>3. ASSUME NEW i \in Covered', i # n PROVE i \in Covered
  <2>1. i \in 1 .. n - 1 /\ agent'.messages[i] = agent.messages[i]
    BY <1>1, <1>3 DEF Covered
  <2>2. Announced(i)'
    BY <1>1, <1>3, <2>1 DEF Covered
  <2>3. CASE i < n - 1
    <3>1. i + 1 \in 1 .. n - 1 /\ agent'.messages[i + 1] = agent.messages[i + 1]
      BY <1>1, <2>1, <2>3
    <3>2. Announced(i)
      BY <1>1, <2>1, <2>2, <2>3, <3>1 DEF Announced
    <3> QED BY <1>1, <2>1, <3>2 DEF Covered
  <2>4. CASE i = n - 1
    <3>1. agent'.messages[i + 1] = m
      BY <1>1, <2>4
    <3>2. CASE m.role = "user"
      <4>1. Announced(i)
        BY <1>1, <2>1, <2>2, <3>1, <3>2 DEF Announced
      <4> QED BY <1>1, <2>1, <4>1 DEF Covered
    <3>3. CASE op.at \in Working
      <4>1. \/ agent.messages[i].role = "tool"
            \/ agent.messages[i].role = "assistant" /\ agent.messages[i].stop # "None"
            \/ agent.messages[i].role = "user" /\ agent.messages[i].text # Summary
        BY <2>1, <2>2 DEF Announced
      <4> QED BY <1>1, <2>1, <2>4, <3>3, <4>1 DEF Covered, Announced
    <3> QED BY <3>2, <3>3
  <2> QED BY <1>1, <2>1, <2>3, <2>4
<1>4. ASSUME m.role = "assistant", m.stop = "None" PROVE n \notin Covered'
  BY <1>1, <1>4 DEF Covered, Announced
<1>5. ASSUME m.role = "user", op'.at \notin Working PROVE n \notin Covered'
  BY <1>1, <1>5 DEF Covered, Announced
<1> QED BY <1>1, <1>2, <1>3, <1>4, <1>5

\* The response so far, which has no row of its own, is replaced.
LEMMA CoveredReplace ==
    ASSUME AgentType, NEW m \in Responses, agent.messages # <<>>,
           agent.messages[Len(agent.messages)].role = "assistant",
           agent.messages[Len(agent.messages)].stop = "None",
           agent'.messages = [agent.messages EXCEPT ![Len(agent.messages)] = m]
    PROVE  LET n == Len(agent.messages)
           IN  /\ Covered' \subseteq Covered \cup {n}
               /\ \A i \in Covered : i < n /\ agent'.messages[i] = agent.messages[i]
               /\ agent'.messages[n] = m /\ n \in Nat /\ Len(agent'.messages) = n /\ n > 0
               /\ m.stop = "None" => n \notin Covered'
<1> DEFINE n == Len(agent.messages)
<1>0. m.role = "assistant"
  BY DEF Responses
<1>1. /\ agent.messages \in Seq(Messages) /\ n \in Nat /\ n > 0 /\ Len(agent'.messages) = n
      /\ agent'.messages[n] = m /\ DOMAIN agent.messages = 1 .. n
      /\ DOMAIN agent'.messages = 1 .. n
      /\ \A i \in 1 .. n - 1 : agent'.messages[i] = agent.messages[i]
  <2>1. agent.messages \in Seq(Messages) /\ n \in Nat /\ n > 0
    BY DEF AgentType
  <2>2. m \in Messages
    BY TypedMessages
  <2> QED BY <2>1, <2>2, ExceptSeq
<1>2. n \notin Covered
  BY <1>1 DEF Covered, Announced
<1>3. \A i \in Covered : i \in 1 .. n - 1
  BY <1>1, <1>2 DEF Covered
<1>4. ASSUME NEW i \in Covered', i # n PROVE i \in Covered
  <2>1. i \in 1 .. n - 1 /\ agent'.messages[i] = agent.messages[i] /\ Announced(i)'
    BY <1>1, <1>4 DEF Covered
  <2>2. agent'.messages[i + 1].role = agent.messages[i + 1].role
    <3>1. CASE i + 1 = n
      BY <1>0, <1>1, <3>1
    <3>2. CASE i + 1 # n
      BY <1>1, <2>1, <3>2
    <3> QED BY <3>1, <3>2
  <2>3. Announced(i)
    BY <1>1, <2>1, <2>2 DEF Announced
  <2> QED BY <1>1, <2>1, <2>3 DEF Covered
<1>5. ASSUME m.stop = "None" PROVE n \notin Covered'
  BY <1>0, <1>1, <1>5 DEF Covered, Announced
<1> QED BY <1>1, <1>3, <1>4, <1>5

\* What a response becomes: the transcript after it, and its row.
LEMMA CoveredResponse ==
    ASSUME AgentType, OpType, Streams, op.at = "request", NEW m \in Responses,
           agent'.messages = Responded(m)
    PROVE  \E n \in Nat :
               /\ Covered' \subseteq Covered \cup {n}
               /\ \A i \in Covered : i < n /\ agent'.messages[i] = agent.messages[i]
               /\ agent'.messages[n] = m /\ Len(agent'.messages) = n /\ n > 0
               /\ m.stop = "None" => n \notin Covered'
<1>0. m \in Messages /\ m.role = "assistant" /\ op.deltas \in Nat /\ "request" \in Working
      /\ Len(agent.messages) \in Nat
  BY TypedMessages DEF Responses, OpType, Working, AgentType
<1>1. CASE op.deltas = 0
  <2>1. agent'.messages = Append(agent.messages, m)
    BY <1>1 DEF Responded
  <2>2. PICK n : n = Len(agent.messages) + 1
    OBVIOUS
  <2>3. /\ Covered' \subseteq Covered \cup {n}
        /\ \A i \in Covered : i < n /\ agent'.messages[i] = agent.messages[i]
        /\ agent'.messages[n] = m /\ n \in Nat /\ Len(agent'.messages) = n
        /\ m.role = "assistant" /\ m.stop = "None" => n \notin Covered'
    BY <1>0, <2>1, <2>2, CoveredAppend
  <2>4. n > 0
    BY <1>0, <2>2
  <2> QED BY <1>0, <2>3, <2>4
<1>2. CASE op.deltas # 0
  <2>1. /\ agent'.messages = [agent.messages EXCEPT ![Len(agent.messages)] = m]
        /\ agent.messages # <<>>
        /\ agent.messages[Len(agent.messages)].role = "assistant"
        /\ agent.messages[Len(agent.messages)].stop = "None"
    BY <1>0, <1>2 DEF Responded, Streams
  <2> QED BY <1>0, <2>1, CoveredReplace
<1> QED BY <1>1, <1>2

\* A step of the operation keeps the rows of messages, and may show one more.
LEMMA DriveKeepsShown ==
    ASSUME Types, Shown, UNCHANGED view, NEW s \in Seq(Events), events' = events \o s,
           Covered' \subseteq Covered, \A i \in Covered' : agent'.messages[i] = agent.messages[i]
    PROVE  Shown'
<1> DEFINE m == agent.messages
           m2 == agent'.messages
           C == Covered
           C2 == Covered'
           old == Slots(view.rows, events)
           new == Slots(view.rows, events \o s)
<1>1. events \in Seq(Events) /\ Len(view.rows) \in Nat
  BY DEF Types, EventsType, ViewType, Views
<1>2. DOMAIN old \subseteq DOMAIN new /\ \A k \in DOMAIN old : new[k] = old[k]
  BY <1>1, EmittedSlots DEF Longer
<1>3. Placed(m, C, old) /\ C2 \in SUBSET C /\ \A i \in C2 : m2[i] = m[i]
  BY DEF Shown
<1> HIDE DEF m, m2, C, C2, old, new
<1>4. Placed(m2, C2, new)
  BY <1>2, <1>3, PlacedStill
<1> QED BY <1>4 DEF Shown, m2, C2, new

\* The row of the message it adds is one of the events it emits.
LEMMA DriveShowsMore ==
    ASSUME Types, Shown, UNCHANGED view, NEW s \in Seq(Events), events' = events \o s,
           NEW n \in Nat, Covered' \subseteq Covered \cup {n},
           \A i \in Covered : i < n /\ agent'.messages[i] = agent.messages[i],
           NEW k \in 1 .. Len(s), RowOf(s[k]) = Row(agent'.messages[n])
    PROVE  Shown'
<1> DEFINE m == agent.messages
           m2 == agent'.messages
           C == Covered
           C2 == Covered'
           old == Slots(view.rows, events)
           new == Slots(view.rows, events \o s)
           l == Len(view.rows) + Len(events)
<1>1. events \in Seq(Events) /\ Len(view.rows) \in Nat /\ AgentType
  BY DEF Types, EventsType, ViewType, Views
<1>2. Longer(old, new, l, s)
  BY <1>1, EmittedSlots
<1>3. l \in Nat /\ l + Len(s) \in Nat /\ l + k \in 1 .. l + Len(s) /\ l + k > l
  BY <1>1
<1>4. /\ Placed(m, C, old) /\ C \in SUBSET Nat /\ C2 \in SUBSET (C \cup {n})
      /\ \A i \in C : i < n /\ m2[i] = m[i]
      /\ RowOf(s[k]) = Row(m2[n])
  BY <1>1, CoveredType DEF Shown
<1> HIDE DEF m, m2, C, C2, old, new, l
<1>5. l + k \in DOMAIN new /\ new[l + k] = Row(m2[n])
  BY <1>2, <1>3, <1>4 DEF Longer
<1>6. OneMore(m, C, old, m2, C2, new, n, l + k)
  BY <1>2, <1>3, <1>4, <1>5 DEF OneMore, Longer
<1>7. Placed(m2, C2, new)
  BY <1>4, <1>6, PlacedOneMore
<1> QED BY <1>7 DEF Shown, m2, C2, new

-----------------------------------------------------------------------------
(* Who is at work after a step of the operation. *)

\* The operation does not touch the loop, and does nothing once it is over.
LEMMA DriveIsOffUi ==
    ASSUME Drive \/ OperationPanics PROVE OffUi /\ op.at \notin {"none", "sent", "dropped"}
BY DEF OperationPanics, Drive, RunRefused, RunStart, InjectSteering, NoInput, InjectFollowUp,
       Succeed, TextDelta,
       Stops, CallsTool, UnexpectedCalls, ResponseEnds, StartTool, UpdateFromTool, EndTool,
       RunFails, RunCancelled, Settle, ResponseFails, CompactionStart, CompactionEnd, Finish,
       SendResult, At

\* A request that nothing was answered to yet.
LEMMA QuietRequest ==
    ASSUME Types, Control, UNCHANGED ui, agent'.phase = agent.phase, op.kind = "run",
           op.at \in {"inject", "boundary"},
           op'.at = "request", op'.deltas = 0, op'.kind = "run"
    PROVE  Control' /\ Streams'
<1>1. ~Idle /\ ui.task = "waiting"
  BY DEF Types, UiType, Control, At, Resting
<1>2. Control'
  BY <1>1 DEF Control, At, Idle, Resting, Working
<1>3. Streams'
  BY DEF Streams, At
<1> QED BY <1>2, <1>3

\* A step of the operation keeps who is at work.
LEMMA DriveKeepsControl ==
    ASSUME Types, Control, Streams, Drive
    PROVE  Control' /\ Streams'
<1> USE DEF Types, AgentType, OpType, UiType, Control, Streams, OffUi, At, Idle, Resting, Working
<1>1. UNCHANGED ui
  BY DriveIsOffUi
<1>2. CASE RunRefused
  BY <1>1, <1>2 DEF RunRefused
<1>3. CASE RunStart
  BY <1>1, <1>3 DEF RunStart
<1>4. CASE InjectSteering
  <2>1. op' = [op EXCEPT !.at = "request", !.turn = op.turn + 1, !.deltas = 0] /\ op.kind = "run"
        /\ op.at \in {"inject", "boundary"}
    BY <1>4 DEF InjectSteering, InjectFrom
  <2>2. agent'.phase = agent.phase
    BY <1>4 DEF InjectSteering
  <2>3. op'.at = "request" /\ op'.deltas = 0 /\ op'.kind = "run"
    BY <2>1
  <2> QED BY <1>1, <2>1, <2>2, <2>3, QuietRequest
<1>5. CASE NoInput
  <2>1. op' = [op EXCEPT !.at = "request", !.turn = op.turn + 1, !.deltas = 0] /\ op.kind = "run"
        /\ op.at \in {"inject", "boundary"} /\ UNCHANGED agent
    BY <1>5 DEF NoInput
  <2>3. op'.at = "request" /\ op'.deltas = 0 /\ op'.kind = "run"
    BY <2>1
  <2> QED BY <1>1, <2>1, <2>3, QuietRequest
<1>6. CASE InjectFollowUp
  <2>1. op' = [op EXCEPT !.at = "request", !.turn = op.turn + 1, !.deltas = 0] /\ op.kind = "run"
        /\ op.at \in {"inject", "boundary"}
    BY <1>6 DEF InjectFollowUp, InjectFrom
  <2>2. agent'.phase = agent.phase
    BY <1>6 DEF InjectFollowUp
  <2>3. op'.at = "request" /\ op'.deltas = 0 /\ op'.kind = "run"
    BY <2>1
  <2> QED BY <1>1, <2>1, <2>2, <2>3, QuietRequest
<1>7. CASE Succeed
  BY <1>1, <1>7 DEF Succeed
<1>8. CASE StartTool
  BY <1>1, <1>8 DEF StartTool
<1>9. CASE UpdateFromTool
  BY <1>1, <1>9 DEF UpdateFromTool
<1>10. CASE EndTool
  BY <1>1, <1>10 DEF EndTool
<1>11. CASE RunFails
  BY <1>1, <1>11 DEF RunFails, Settle
<1>12. CASE RunCancelled
  BY <1>1, <1>12 DEF RunCancelled, Settle
<1>13. CASE ResponseFails
  <2>1. PICK o \in {"failed", "cancelled"} :
          op' = [op EXCEPT !.at = "ended", !.outcome = o] /\ op.at = "request"
    BY <1>13 DEF ResponseFails
  <2>2. agent'.phase = agent.phase
    BY <1>13 DEF ResponseFails
  <2> QED BY <1>1, <2>1, <2>2
<1>14. CASE CompactionStart
  BY <1>1, <1>14 DEF CompactionStart
<1>15. CASE CompactionEnd
  BY <1>1, <1>15 DEF CompactionEnd
<1>16. CASE Finish
  BY <1>1, <1>16 DEF Finish
<1>17. CASE SendResult
  BY <1>1, <1>17 DEF SendResult
<1>18. CASE Stops
  BY <1>1, <1>18 DEF Stops, ResponseEnds
<1>19. CASE CallsTool
  BY <1>1, <1>19 DEF CallsTool, ResponseEnds
<1>20. CASE UnexpectedCalls
  BY <1>1, <1>20 DEF UnexpectedCalls, ResponseEnds
<1>21. CASE TextDelta
  <2> HIDE DEF Types, AgentType, OpType, UiType, Control, Streams, OffUi, At, Idle, Resting, Working
  <2>0. op.deltas + 1 \in Nat /\ AgentType /\ OpType /\ "None" \in StopReasons
    BY DEF Types, OpType, StopReasons
  <2>1. PICK m \in Responses : m = Response(op.deltas + 1, {}, "None")
    BY <2>0, TypedMessages
  <2>2. m.role = "assistant" /\ m.stop = "None"
    BY <2>1 DEF Response
  <2>3. /\ agent'.messages # <<>> /\ agent'.phase = agent.phase
        /\ agent'.messages[Len(agent'.messages)] = m
    <3>1. agent'.messages = Responded(m) /\ agent'.phase = agent.phase /\ op.at = "request"
      BY <1>21, <2>1 DEF TextDelta, At, Types, AgentType
    <3>2. PICK n \in Nat : agent'.messages[n] = m /\ Len(agent'.messages) = n /\ n > 0
      BY <2>0, <3>1, CoveredResponse
    <3>3. agent'.messages # <<>>
      BY <3>2
    <3> QED BY <3>1, <3>2, <3>3
  <2>4. op'.at = "request" /\ op'.kind = "run" /\ op.kind = "run" /\ op.at = "request"
    BY <1>21 DEF TextDelta, At, Types, OpType
  <2> QED BY <1>1, <2>2, <2>3, <2>4
          DEF Types, AgentType, OpType, UiType, Control, Streams, At, Idle, Resting, Working
<1> QED BY <1>2, <1>3, <1>4, <1>5, <1>6, <1>7, <1>8, <1>9, <1>10, <1>11, <1>12, <1>13, <1>14,
        <1>15, <1>16, <1>17, <1>18, <1>19, <1>20, <1>21 DEF Drive

-----------------------------------------------------------------------------
(* The shape of the view after each step of the operation. *)

\* A step that emits nothing.
LEMMA SilentShape ==
    ASSUME Types, Shape, op.at # "dropped", UNCHANGED <<view, ui, events>>,
           ~TextOn, CallOn = {}, AtWork => AtWork'
    PROVE  Shape' /\ <<>> \in Seq(Events) /\ events' = events \o <<>>
<1> DEFINE t == TextOn
           c == CallOn
           a == AtWork
           t2 == TextOn'
           c2 == CallOn'
           a2 == AtWork'
<1>1. ~t /\ c = {} /\ (a => a2)
  OBVIOUS
<1> HIDE DEF t, c, a, t2, c2, a2
<1>2. Follows(<<>>, t, c, a, t2, c2, a2)
  BY <1>1 DEF Follows, Unbroken, Closed, TextGoesOn, CallGoesOn
<1>3. Follows(<<>>, TextOn, CallOn, AtWork, TextOn', CallOn', AtWork')
  BY <1>2 DEF t, c, a, t2, c2, a2
<1>4. <<>> \in Seq(Events) /\ events' = events \o <<>>
  BY DEF Types, EventsType
<1> QED BY <1>3, <1>4, DriveKeepsShape

\* A step that emits one event that continues the others.
LEMMA OneEventShape ==
    ASSUME Types, Shape, op.at # "dropped", UNCHANGED <<view, ui>>, NEW e \in Events, Emit(<<e>>),
           e.kind = "delta" => TextOn',
           e.kind \in {"tool_start", "tool_update"} => e.of \in CallOn',
           e.kind \in Starts => AtWork',
           TextOn => e.kind \in {"delta", "message_end"},
           \A c \in CallOn : \/ e.kind = "tool_update" /\ e.of = c
                             \/ e.kind = "tool_end" /\ e.of.call = c,
           AtWork => AtWork' \/ e.kind \in Closers
    PROVE  Shape' /\ <<e>> \in Seq(Events)
<1> DEFINE t == TextOn
           c == CallOn
           a == AtWork
           t2 == TextOn'
           c2 == CallOn'
           a2 == AtWork'
<1>1. /\ e.kind = "delta" => t2
      /\ e.kind \in {"tool_start", "tool_update"} => e.of \in c2
      /\ e.kind \in Starts => a2
      /\ t => e.kind \in {"delta", "message_end"}
      /\ \A x \in c : \/ e.kind = "tool_update" /\ e.of = x
                      \/ e.kind = "tool_end" /\ e.of.call = x
      /\ a => a2 \/ e.kind \in Closers
  OBVIOUS
<1> HIDE DEF t, c, a, t2, c2, a2
<1>2. Follows(<<e>>, t, c, a, t2, c2, a2)
  BY <1>1, OneFollows
<1>3. Follows(<<e>>, TextOn, CallOn, AtWork, TextOn', CallOn', AtWork')
  BY <1>2 DEF t, c, a, t2, c2, a2
<1>4. <<e>> \in Seq(Events) /\ <<e>>[1] = e /\ Len(<<e>>) = 1
  OBVIOUS
<1> QED BY <1>3, <1>4, DriveKeepsShape DEF Emit

\* A run is settled with a failure: its message, and the end of the turn and of
\* the run.
Failure(m) == <<Event("message_end", m), Event("turn_failed", 0), Event("agent_end", 0)>>

\* A step that settles the run with a failure.
LEMMA FailureShape ==
    ASSUME Types, Shape, op.at # "dropped", UNCHANGED <<view, ui>>, NEW m \in Responses,
           Emit(Failure(m)),
           CallOn = {}
    PROVE  /\ Shape' /\ Failure(m) \in Seq(Events)
           /\ RowOf(Failure(m)[1]) = Row(m) /\ Len(Failure(m)) = 3
<1> DEFINE t == TextOn
           c == CallOn
           a == AtWork
           t2 == TextOn'
           c2 == CallOn'
           a2 == AtWork'
<1>1. c = {}
  OBVIOUS
<1> HIDE DEF t, c, a, t2, c2, a2
<1>2. Follows(Failure(m), t, c, a, t2, c2, a2)
  BY <1>1, FailureFollows DEF Failure
<1>3. Follows(Failure(m), TextOn, CallOn, AtWork, TextOn', CallOn', AtWork')
  BY <1>2 DEF t, c, a, t2, c2, a2
<1>4. Failure(m) \in Seq(Events)
  <2>1. /\ Event("message_end", m) \in Events /\ Event("turn_failed", 0) \in Events
        /\ Event("agent_end", 0) \in Events
    BY TypedEvents DEF Marks
  <2> QED BY <2>1 DEF Failure
<1>5. RowOf(Failure(m)[1]) = Row(m) /\ Len(Failure(m)) = 3
  <2>1. Failure(m)[1] = Event("message_end", m) /\ Len(Failure(m)) = 3
    BY DEF Failure
  <2> QED BY <2>1 DEF RowOf, Event
<1> QED BY <1>3, <1>4, <1>5, DriveKeepsShape DEF Emit

\* A step that begins the run.
LEMMA StartShape ==
    ASSUME Types, Shape, op.at # "dropped", UNCHANGED <<view, ui>>, NEW p \in Texts,
           NEW s, s = <<Event("agent_start", 0), Event("user", p)>>, Emit(s),
           ~TextOn, CallOn = {}, AtWork'
    PROVE  Shape' /\ s \in Seq(Events) /\ RowOf(s[2]) = UserRow(p) /\ Len(s) = 2
<1> DEFINE t == TextOn
           c == CallOn
           a == AtWork
           t2 == TextOn'
           c2 == CallOn'
           a2 == AtWork'
<1>1. ~t /\ c = {} /\ a2
  OBVIOUS
<1> HIDE DEF t, c, a, t2, c2, a2
<1>2. Follows(s, t, c, a, t2, c2, TRUE)
  BY <1>1, StartFollows
<1>3. Follows(s, TextOn, CallOn, AtWork, TextOn', CallOn', AtWork')
  BY <1>1, <1>2 DEF t, c, a, t2, c2, a2
<1>4. s \in Seq(Events)
  <2>1. Event("agent_start", 0) \in Events /\ Event("user", p) \in Events
    BY TypedEvents DEF Marks
  <2> QED BY <2>1
<1>5. RowOf(s[2]) = UserRow(p) /\ Len(s) = 2
  BY DEF RowOf, Event
<1> QED BY <1>3, <1>4, <1>5, DriveKeepsShape DEF Emit

-----------------------------------------------------------------------------
(* The shape of the view and the rows of the messages, after each step.  *)

\* A step without an event or a message.
LEMMA QuietStep ==
    ASSUME Types, Shape, op.at # "dropped", Shown, UNCHANGED <<view, ui, events>>,
           agent'.messages = agent.messages, ~TextOn, CallOn = {}, AtWork => AtWork',
           op'.at \in Working => op.at \in Working
    PROVE  Shape' /\ Shown'
<1>1. Shape' /\ <<>> \in Seq(Events) /\ events' = events \o <<>>
  BY SilentShape
<1>2. Covered' \subseteq Covered
  BY CoveredSame
<1>3. Shown'
  BY <1>1, <1>2, DriveKeepsShown
<1> QED BY <1>1, <1>3

\* The steps that do nothing else: no input, and the ends of an operation.
LEMMA QuietSteps ==
    ASSUME Types, Control, Shape, Shown, RunRefused \/ NoInput \/ Finish \/ SendResult
    PROVE  Shape' /\ Shown'
<1>1. UNCHANGED <<view, ui, events>> /\ agent'.messages = agent.messages
  BY DEF RunRefused, NoInput, Finish, SendResult, OffUi, Types, AgentType
<1>2. \/ op.at \in {"created", "ended", "returned"} /\ op'.at \in {"returned", "sent"}
      \/ op.at \in {"inject", "boundary"} /\ op'.at = "request"
  BY DEF RunRefused, NoInput, Finish, SendResult, At, Types, OpType
<1>3. /\ ~TextOn /\ CallOn = {} /\ (AtWork => AtWork') /\ op.at # "dropped"
      /\ op'.at \in Working => op.at \in Working
  BY <1>2 DEF TextOn, CallOn, AtWork, Working
<1> QED BY <1>1, <1>3, QuietStep

\* An event that says nothing of a message.
LEMMA NoteSteps ==
    ASSUME Types, Control, Shape, Shown, Succeed \/ StartTool \/ UpdateFromTool \/ CompactionStart
    PROVE  Shape' /\ Shown'
<1>1. UNCHANGED <<view, ui, agent, used>>
  BY DEF Succeed, StartTool, UpdateFromTool, CompactionStart, OffUi
<1>2. op'.at \in Working => op.at \in Working
  BY DEF Succeed, StartTool, UpdateFromTool, CompactionStart, At, Types, OpType, Working
<1>3. used.calls \in Nat
  BY DEF Types, UsedType
<1>4. \E e \in Events : Shape' /\ Emit(<<e>>)
  <2>1. CASE Succeed
    <3>1. PICK e \in Events : e = Event("agent_end", 0)
      BY TypedEvents DEF Marks
    <3>2. Emit(<<e>>) /\ e.kind = "agent_end"
      BY <2>1, <3>1 DEF Succeed, Event
    <3>3. op.at = "boundary" /\ op'.at = "ended"
      BY <2>1 DEF Succeed, At, Types, OpType
    <3>4. ~TextOn /\ CallOn = {} /\ e.kind \notin Starts /\ e.kind \in Closers
      BY <3>2, <3>3 DEF TextOn, CallOn, Starts, Closers
    <3> QED BY <1>1, <3>2, <3>3, <3>4, OneEventShape
  <2>2. CASE CompactionStart
    <3>1. PICK e \in Events : e = Event("compaction_start", 0)
      BY TypedEvents DEF Marks
    <3>2. Emit(<<e>>) /\ e.kind = "compaction_start"
      BY <2>2, <3>1 DEF CompactionStart, Event
    <3>3. op.at = "created" /\ op'.at = "compacting"
      BY <2>2 DEF CompactionStart, At, Types, OpType
    <3>4. ~TextOn /\ CallOn = {} /\ AtWork'
      BY <3>3 DEF TextOn, CallOn, AtWork
    <3> QED BY <1>1, <3>2, <3>3, <3>4, OneEventShape
  <2>3. CASE StartTool
    <3>1. PICK e \in Events : e = Event("tool_start", used.calls)
      BY <1>3, TypedEvents
    <3>2. Emit(<<e>>) /\ e.kind = "tool_start" /\ e.of = used.calls
      BY <2>3, <3>1 DEF StartTool, Event
    <3>3. op.at = "tool" /\ op'.at = "running"
      BY <2>3 DEF StartTool, At, Types, OpType
    <3>4. ~TextOn /\ CallOn = {} /\ CallOn' = {used.calls} /\ AtWork' /\ e.kind \notin Starts
      BY <1>1, <3>2, <3>3 DEF TextOn, CallOn, AtWork, Starts, Working
    <3> QED BY <1>1, <3>2, <3>3, <3>4, OneEventShape
  <2>4. CASE UpdateFromTool
    <3>1. PICK e \in Events : e = Event("tool_update", used.calls)
      BY <1>3, TypedEvents
    <3>2. Emit(<<e>>) /\ e.kind = "tool_update" /\ e.of = used.calls
      BY <2>4, <3>1 DEF UpdateFromTool, Event
    <3>3. op.at = "running" /\ op'.at = "running"
      BY <2>4 DEF UpdateFromTool, At, Types, OpType
    <3>4. /\ ~TextOn /\ CallOn = {used.calls} /\ CallOn' = {used.calls} /\ AtWork'
          /\ e.kind \notin Starts
      BY <1>1, <3>2, <3>3 DEF TextOn, CallOn, AtWork, Starts, Working
    <3> QED BY <1>1, <3>2, <3>3, <3>4, OneEventShape
  <2> QED BY <2>1, <2>2, <2>3, <2>4
<1>5. PICK e \in Events : Shape' /\ events' = events \o <<e>>
  BY <1>4 DEF Emit
<1>6. <<e>> \in Seq(Events) /\ Covered' \subseteq Covered
  BY <1>1, <1>2, <1>5, CoveredSame
<1>7. Shown'
  BY <1>1, <1>5, <1>6, DriveKeepsShown
<1> QED BY <1>5, <1>7

\* The summary that a compaction leaves has no row.
LEMMA CompactionEndStep ==
    ASSUME Types, Control, Shape, Shown, CompactionEnd
    PROVE  Shape' /\ Shown'
<1>1. UNCHANGED <<view, ui>> /\ op.at = "compacting" /\ op'.at = "ended"
  BY DEF CompactionEnd, OffUi, At, Types, OpType
<1>2. PICK e \in Events : e = Event("compaction_end", 0)
  BY TypedEvents DEF Marks
<1>3. Emit(<<e>>) /\ e.kind = "compaction_end"
  BY <1>2 DEF CompactionEnd, Event
<1>4. ~TextOn /\ CallOn = {} /\ e.kind \notin Starts /\ e.kind \in Closers
  BY <1>1, <1>3 DEF TextOn, CallOn, Starts, Closers
<1>5. Shape' /\ <<e>> \in Seq(Events)
  BY <1>1, <1>3, <1>4, OneEventShape
<1>6. Covered' \subseteq Covered /\ \A i \in Covered' : agent'.messages[i] = agent.messages[i]
  <2>1. op'.at \notin Working
    BY <1>1 DEF Working
  <2>2. CASE agent'.messages = agent.messages
    BY <2>1, <2>2, CoveredSame
  <2>3. CASE agent'.messages # agent.messages
    <3>1. agent'.messages = <<User(Summary)>>
      BY <2>3 DEF CompactionEnd, Types, AgentType
    <3>2. Covered' = {}
      <4>1. DOMAIN agent'.messages = {1} /\ Len(agent'.messages) = 1
            /\ agent'.messages[1].role = "user"
        BY <3>1 DEF User
      <4> QED BY <2>1, <4>1 DEF Covered, Announced
    <3> QED BY <3>2
  <2> QED BY <2>2, <2>3
<1>7. Shown'
  BY <1>1, <1>3, <1>5, <1>6, DriveKeepsShown DEF Emit
<1> QED BY <1>5, <1>7

\* The prompt that the run carries gets its row.
LEMMA RunStartStep ==
    ASSUME Types, Control, Streams, Shape, Shown, RunStart
    PROVE  Shape' /\ Shown'
<1> DEFINE n == Len(agent.messages)
<1>1. /\ UNCHANGED <<view, ui, agent>> /\ op.at = "created" /\ op'.at = "inject"
      /\ op.prompt \in Prompts /\ agent.messages # <<>> /\ agent.messages[n] = User(op.prompt)
  BY DEF RunStart, OffUi, At, Types, OpType, Streams
<1>2. op.prompt \in Texts /\ n \in Nat /\ n > 0 /\ agent.messages \in Seq(Messages)
  BY <1>1 DEF Texts, Types, AgentType
<1>3. PICK s : s = <<Event("agent_start", 0), Event("user", op.prompt)>>
  OBVIOUS
<1>4. Emit(s)
  BY <1>3 DEF RunStart
<1>5. ~TextOn /\ CallOn = {} /\ AtWork'
  BY <1>1 DEF TextOn, CallOn, AtWork, Working
<1>6. Shape' /\ s \in Seq(Events) /\ RowOf(s[2]) = UserRow(op.prompt) /\ Len(s) = 2
  BY <1>1, <1>2, <1>3, <1>4, <1>5, StartShape
<1>7. Row(agent'.messages[n]) = UserRow(op.prompt)
  BY <1>1 DEF Row, User, IsError
<1>8. /\ Covered' \subseteq Covered \cup {n}
      /\ \A i \in Covered : i < n /\ agent'.messages[i] = agent.messages[i]
  <2>1. n \notin Covered
    BY <1>1 DEF Covered, Announced, User, Working
  <2>2. \A i \in Covered : i < n
    BY <1>2, <2>1 DEF Covered
  <2> QED BY <1>1, <2>2 DEF Covered, Announced
<1>9. Shown'
  <2>1. 2 \in 1 .. Len(s) /\ RowOf(s[2]) = Row(agent'.messages[n]) /\ events' = events \o s
    BY <1>4, <1>6, <1>7 DEF Emit
  <2> HIDE DEF n
  <2> QED BY <1>1, <1>2, <1>6, <1>8, <2>1, DriveShowsMore
<1> QED BY <1>6, <1>9

-----------------------------------------------------------------------------
(* A message more. *)

\* One that is appended with an event that shows it.
LEMMA MessageStep ==
    ASSUME Types, Shape, Shown, UNCHANGED <<view, ui>>, op.at \in Working,
           NEW m \in Messages, agent'.messages = Append(agent.messages, m),
           NEW s \in Seq(Events), Emit(s), Len(s) > 0, RowOf(s[1]) = Row(m)
    PROVE  Shown'
<1>1. PICK n : n = Len(agent.messages) + 1
  OBVIOUS
<1>2. /\ Covered' \subseteq Covered \cup {n} /\ n \in Nat
      /\ \A i \in Covered : i < n /\ agent'.messages[i] = agent.messages[i]
      /\ agent'.messages[n] = m
  BY <1>1, CoveredAppend DEF Types
<1>3. 1 \in 1 .. Len(s) /\ RowOf(s[1]) = Row(agent'.messages[n]) /\ events' = events \o s
  BY <1>2 DEF Emit
<1> QED BY <1>2, <1>3, DriveShowsMore

\* One that becomes what the response is.
LEMMA ResponseStep ==
    ASSUME Types, Streams, Shape, Shown, UNCHANGED <<view, ui>>, op.at = "request",
           NEW m \in Responses, agent'.messages = Responded(m),
           NEW s \in Seq(Events), Emit(s), Len(s) > 0, RowOf(s[1]) = Row(m) \/ m.stop = "None"
    PROVE  Shown'
<1>1. AgentType /\ OpType
  BY DEF Types
<1>2. PICK n \in Nat :
        /\ Covered' \subseteq Covered \cup {n}
        /\ \A i \in Covered : i < n /\ agent'.messages[i] = agent.messages[i]
        /\ agent'.messages[n] = m
        /\ m.stop = "None" => n \notin Covered'
  BY <1>1, CoveredResponse
<1>3. CASE RowOf(s[1]) = Row(m)
  <2>1. 1 \in 1 .. Len(s) /\ RowOf(s[1]) = Row(agent'.messages[n]) /\ events' = events \o s
    BY <1>2, <1>3 DEF Emit
  <2> QED BY <1>2, <2>1, DriveShowsMore
<1>4. CASE m.stop = "None"
  <2>1. Covered' \subseteq Covered /\ \A i \in Covered' : agent'.messages[i] = agent.messages[i]
    BY <1>2, <1>4
  <2> QED BY <2>1, DriveKeepsShown DEF Emit
<1> QED BY <1>3, <1>4

\* An input that is injected is appended and announced.
LEMMA InjectSteps ==
    ASSUME Types, Control, Shape, Shown, InjectSteering \/ InjectFollowUp
    PROVE  Shape' /\ Shown'
<1>1. PICK q : /\ q \in {agent.steering, agent.followUp} /\ InjectFrom(q)
               /\ agent'.messages = Append(agent.messages, User(Head(q)))
  BY DEF InjectSteering, InjectFollowUp, Types, AgentType
<1>2. /\ UNCHANGED <<view, ui>> /\ op.at \in {"inject", "boundary"} /\ op'.at = "request"
      /\ op'.deltas = 0
  BY <1>1 DEF InjectSteering, InjectFollowUp, InjectFrom, OffUi, At, Types, OpType
<1>3. Head(q) \in Texts
  BY <1>1 DEF Types, AgentType, InjectFrom, Texts
<1>4. PICK e \in Events : e = Event("user", Head(q))
  BY <1>3, TypedEvents
<1>5. Emit(<<e>>) /\ e.kind = "user" /\ e.of = Head(q)
  BY <1>1, <1>4 DEF InjectFrom, Event
<1>6. ~TextOn /\ CallOn = {} /\ AtWork' /\ op.at \in Working
  BY <1>2 DEF TextOn, CallOn, AtWork, Working
<1>7. Shape'
  BY <1>2, <1>5, <1>6, OneEventShape DEF Starts
<1>8. PICK m \in Messages : m = User(Head(q))
  BY <1>3, TypedMessages
<1>9. RowOf(e) = Row(m)
  BY <1>5, <1>8 DEF RowOf, Row, User, IsError
<1>10. Shown'
  <2>0. PICK s : s = <<e>>
    OBVIOUS
  <2>1. s = <<e>> /\ s \in Seq(Events) /\ s[1] = e /\ Len(s) > 0
    BY <2>0
  <2>2. Emit(s)
    BY <1>5, <2>1
  <2> QED BY <1>1, <1>2, <1>5, <1>6, <1>7, <1>8, <1>9, <2>1, <2>2, MessageStep
<1> QED BY <1>7, <1>10

\* A delta changes the response, which has no row of its own yet.
LEMMA DeltaStep ==
    ASSUME Types, Control, Streams, Shape, Shown, TextDelta
    PROVE  Shape' /\ Shown'
<1>1. /\ UNCHANGED <<view, ui>> /\ op.at = "request" /\ op'.at = "request"
      /\ op.deltas + 1 \in Nat /\ op'.deltas = op.deltas + 1
      /\ agent'.messages = Responded(Response(op.deltas + 1, {}, "None"))
  BY DEF TextDelta, OffUi, At, Types, OpType, AgentType
<1>2. PICK m \in Responses : m = Response(op.deltas + 1, {}, "None")
  BY <1>1, TypedMessages DEF StopReasons
<1>3. PICK e \in Events : e = Event("delta", 0)
  BY TypedEvents DEF Marks
<1>4. Emit(<<e>>) /\ e.kind = "delta"
  BY <1>3 DEF TextDelta, Event
<1>5. TextOn' /\ CallOn = {} /\ AtWork'
  <2>1. op'.deltas > 0
    BY <1>1 DEF Types, OpType
  <2> QED BY <1>1, <2>1 DEF TextOn, CallOn, AtWork, Working
<1>6. Shape'
  BY <1>1, <1>4, <1>5, OneEventShape DEF Starts
<1>7. m.stop = "None"
  BY <1>2 DEF Response
<1>8. Shown'
  <2>0. PICK s : s = <<e>>
    OBVIOUS
  <2>1. s = <<e>> /\ s \in Seq(Events) /\ s[1] = e /\ Len(s) > 0
    BY <2>0
  <2>2. Emit(s)
    BY <1>4, <2>1
  <2> QED BY <1>1, <1>2, <1>4, <1>6, <1>7, <2>1, <2>2, ResponseStep
<1> QED BY <1>6, <1>8

\* A response that ends is the one that its event shows.
LEMMA ResponseEndsStep ==
    ASSUME Types, Control, Streams, Shape, Shown, Stops \/ CallsTool \/ UnexpectedCalls
    PROVE  Shape' /\ Shown'
<1>1. PICK calls, stop, next :
        /\ ResponseEnds(calls, stop, next) /\ calls \in SUBSET Nat
        /\ stop \in StopReasons /\ next \in Working \ {"request", "running"}
  BY DEF Stops, CallsTool, UnexpectedCalls, Types, UsedType, StopReasons, Working
<1>2. op.deltas \in Nat
  BY DEF Types, OpType
<1>3. PICK m \in Responses : m = Response(op.deltas, calls, stop)
  BY <1>1, <1>2, TypedMessages
<1>4. /\ UNCHANGED <<view, ui>> /\ op.at = "request" /\ op'.at = next
      /\ agent'.messages = Responded(m)
  BY <1>1, <1>3 DEF ResponseEnds, OffUi, At, Types, OpType, AgentType
<1>5. PICK e \in Events : e = Event("message_end", m)
  BY TypedEvents
<1>6. Emit(<<e>>) /\ e.kind = "message_end" /\ e.of = m
  BY <1>1, <1>3, <1>5 DEF ResponseEnds, Say, Event
<1>7. CallOn = {} /\ AtWork'
  BY <1>1, <1>4 DEF CallOn, AtWork
<1>8. Shape'
  BY <1>4, <1>6, <1>7, OneEventShape DEF Starts
<1>9. RowOf(e) = Row(m)
  BY <1>6 DEF RowOf
<1>10. Shown'
  <2>0. PICK s : s = <<e>>
    OBVIOUS
  <2>1. s = <<e>> /\ s \in Seq(Events) /\ s[1] = e /\ Len(s) > 0
    BY <2>0
  <2>2. Emit(s)
    BY <1>6, <2>1
  <2> QED BY <1>4, <1>6, <1>8, <1>9, <2>1, <2>2, ResponseStep
<1> QED BY <1>8, <1>10

\* So is the result of a call.
LEMMA EndToolStep ==
    ASSUME Types, Control, Shape, Shown, EndTool
    PROVE  Shape' /\ Shown'
<1>1. PICK isError \in BOOLEAN :
        /\ agent' = [agent EXCEPT !.messages = Append(@, ToolResult(used.calls, isError))]
        /\ Emit(<<Event("tool_end", ToolResult(used.calls, isError))>>)
  BY DEF EndTool, Cancelled
<1>2. used.calls \in Nat
  BY DEF Types, UsedType
<1>3. PICK m \in Results : m = ToolResult(used.calls, isError)
  BY <1>2, TypedMessages
<1>4. /\ UNCHANGED <<view, ui>> /\ op.at = "running" /\ op'.at = "boundary"
      /\ agent'.messages = Append(agent.messages, m)
  BY <1>1, <1>3 DEF EndTool, OffUi, At, Types, OpType, AgentType
<1>5. PICK e \in Events : e = Event("tool_end", m)
  BY TypedEvents
<1>6. Emit(<<e>>) /\ e.kind = "tool_end" /\ e.of = m /\ m.call = used.calls /\ m \in Messages
  BY <1>1, <1>3, <1>5, TypedMessages DEF Event, ToolResult
<1>7. ~TextOn /\ CallOn = {used.calls} /\ AtWork' /\ op.at \in Working
  BY <1>4 DEF TextOn, CallOn, AtWork, Working
<1>8. Shape'
  BY <1>4, <1>6, <1>7, OneEventShape DEF Starts
<1>9. RowOf(e) = Row(m)
  BY <1>6 DEF RowOf
<1>10. Shown'
  <2>0. PICK s : s = <<e>>
    OBVIOUS
  <2>1. s = <<e>> /\ s \in Seq(Events) /\ s[1] = e /\ Len(s) > 0
    BY <2>0
  <2>2. Emit(s)
    BY <1>6, <2>1
  <2> QED BY <1>4, <1>6, <1>7, <1>8, <1>9, <2>1, <2>2, MessageStep
<1> QED BY <1>8, <1>10

\* A run that is settled appends its error and shows it.
LEMMA SettleSteps ==
    ASSUME Types, Control, Shape, Shown, RunFails \/ RunCancelled
    PROVE  Shape' /\ Shown'
<1>1. PICK stop \in {"Error", "Aborted"}, outcome \in {"failed", "cancelled"} :
        Settle(outcome, <<Response(0, {}, stop)>>) /\ op.at \in {"request", "failing"}
  BY DEF RunFails, RunCancelled, At
<1>2. PICK m \in Responses : m = Response(0, {}, stop)
  BY TypedMessages DEF StopReasons
<1>3. Settle(outcome, <<m>>)
  BY <1>1, <1>2
<1>4. UNCHANGED <<view, ui>> /\ agent'.messages = Append(agent.messages, m) /\ m \in Messages
  <2>1. agent.messages \in Seq(Messages) /\ m \in Messages
    BY TypedMessages DEF Types, AgentType
  <2>2. agent'.messages = agent.messages \o <<m>>
    BY <1>3 DEF Settle, Types, AgentType
  <2>3. agent.messages \o <<m>> = Append(agent.messages, m)
    BY <2>1
  <2> QED BY <1>3, <2>1, <2>2, <2>3 DEF Settle, OffUi
<1>5. Emit(Failure(m))
  <2>1. Emit(Say(m) \o <<Event("turn_failed", 0), Event("agent_end", 0)>>)
    BY <1>3 DEF Settle
  <2> QED BY <2>1, ThreeElements DEF Say, Failure
<1>6. CallOn = {} /\ op.at \in Working /\ op.at # "dropped"
  BY <1>1 DEF CallOn, Working
<1>7. /\ Shape' /\ Failure(m) \in Seq(Events)
      /\ RowOf(Failure(m)[1]) = Row(m) /\ Len(Failure(m)) = 3
  BY <1>4, <1>5, <1>6, FailureShape
<1>8. Shown'
  <2>1. PICK s : s = Failure(m)
    OBVIOUS
  <2>2. s \in Seq(Events) /\ Emit(s) /\ Len(s) > 0 /\ RowOf(s[1]) = Row(m)
    BY <1>5, <1>7, <2>1
  <2> QED BY <1>4, <1>6, <2>2, MessageStep
<1> QED BY <1>7, <1>8

\* A response that failed replaces what streamed.
LEMMA ResponseFailsStep ==
    ASSUME Types, Control, Streams, Shape, Shown, ResponseFails
    PROVE  Shape' /\ Shown'
<1>1. PICK stop \in {"Error", "Cancelled", "Aborted"} :
        /\ agent' = [agent EXCEPT !.messages = Responded(Response(op.deltas, {}, stop))]
        /\ Emit(Say(Response(op.deltas, {}, stop))
                \o <<Event("turn_failed", 0), Event("agent_end", 0)>>)
  BY DEF ResponseFails
<1>2. op.deltas \in Nat
  BY DEF Types, OpType
<1>3. PICK m \in Responses : m = Response(op.deltas, {}, stop)
  BY <1>2, TypedMessages DEF StopReasons
<1>4. UNCHANGED <<view, ui>> /\ op.at = "request" /\ agent'.messages = Responded(m)
  BY <1>1, <1>3 DEF ResponseFails, OffUi, At, Types, AgentType
<1>5. Emit(Failure(m))
  BY <1>1, <1>3, ThreeElements DEF Say, Failure
<1>6. CallOn = {}
  BY <1>4 DEF CallOn
<1>7. /\ Shape' /\ Failure(m) \in Seq(Events)
      /\ RowOf(Failure(m)[1]) = Row(m) /\ Len(Failure(m)) = 3
  BY <1>4, <1>5, <1>6, FailureShape
<1>8. Shown'
  BY <1>4, <1>5, <1>7, ResponseStep
<1> QED BY <1>7, <1>8

\* A panic leaves the rows and the calls that are open to themselves.
LEMMA PanicKeeps ==
    ASSUME Inv, OperationPanics PROVE Inv'
<1>1. Types /\ Control /\ Streams /\ Shape /\ Shown
  BY DEF Inv
<1>2. /\ UNCHANGED <<events, view, ui, session, extensions, used>>
      /\ op.at \in {"request", "running", "compacting"}
      /\ op' = [op EXCEPT !.at = "dropped"] /\ agent' = [agent EXCEPT !.phase = "cancelling"]
  BY DEF OperationPanics, OffUi
<1>3. Types'
  <2>1. AgentType /\ OpType
    BY <1>1 DEF Types
  <2>2. AgentType' /\ OpType'
    BY <1>2, <2>1, AgentSet, OpSet
  <2> QED BY <1>1, <1>2, <2>2, KeptTypes DEF Types
<1>4. /\ op'.at = "dropped" /\ agent'.phase = "cancelling"
      /\ agent'.messages = agent.messages
  BY <1>1, <1>2 DEF Types, AgentType, OpType
<1>5. Control' /\ Streams'
  <2>1. ui.at # "start" /\ ui.picker = "none"
    BY <1>1, <1>2 DEF Control, Resting, At
  <2> QED BY <1>1, <1>2, <1>4, <2>1 DEF Control, Streams, Idle, At, Resting, Working, Types, OpType
<1>6. Shape' /\ Shown'
  <2>1. Unbroken(events, TextOn, CallOn)' /\ Continued(view, events, TextOn, CallOn)'
    BY <1>1, <1>2, <1>4 DEF Shape, Unbroken, Continued, TextGoesOn, CallGoesOn, TextOn, CallOn
  <2>2. Closed(events, AtWork)' /\ StatusGoesBack' /\ InPlace(view)'
    BY <1>1, <1>2, <1>4 DEF Shape, Closed, AtWork, StatusGoesBack, InPlace
  <2>3. Covered' \subseteq Covered
    BY <1>4, CoveredSame DEF Working
  <2>4. <<>> \in Seq(Events) /\ events' = events \o <<>>
    BY <1>1, <1>2 DEF Types, EventsType
  <2>5. Shown'
    BY <1>1, <1>2, <1>4, <2>3, <2>4, DriveKeepsShown
  <2> QED BY <2>1, <2>2, <2>5 DEF Shape
<1> QED BY <1>3, <1>5, <1>6 DEF Inv

\* The operation keeps the invariant.
LEMMA DriveKeeps ==
    ASSUME Inv, Drive PROVE Inv'
<1>1. Types /\ Control /\ Streams /\ Shape /\ Shown
  BY DEF Inv
<1>2. Types'
  BY <1>1, RunTypesKept, RunEndTypesKept DEF Drive
<1>3. Control' /\ Streams'
  BY <1>1, DriveKeepsControl
<1>4. Shape' /\ Shown'
  BY <1>1, QuietSteps, NoteSteps, CompactionEndStep, RunStartStep, InjectSteps, DeltaStep,
     ResponseEndsStep, EndToolStep, SettleSteps, ResponseFailsStep DEF Drive
<1> QED BY <1>2, <1>3, <1>4 DEF Inv

-----------------------------------------------------------------------------
(* Who is at work after a step of the event loop. *)

\* A step of the event loop, or a key, keeps who is at work.
LEMMA UiKeepsControl ==
    ASSUME Types, Control, Streams, Loop \/ StartPrompt \/ Enqueue \/ Keys
    PROVE  Control'
<1> USE DEF Types, AgentType, OpType, UiType, Control, At, Idle, Resting, Working, Ready, AfterReap
<1>1. CASE NothingToReap
  BY <1>1 DEF NothingToReap
<1>2. CASE NoKey
  BY <1>2 DEF NoKey
<1>3. CASE ReapSuccess
  BY <1>3 DEF ReapSuccess
<1>4. CASE ReapFailure
  BY <1>4 DEF ReapFailure
<1>22. CASE ReapDisconnected
  BY <1>22 DEF ReapDisconnected, Disconnected
<1>23. ASSUME NEW i \in 1 .. MaxSessions, ResumeRefused(i) PROVE Control'
  BY <1>23 DEF ResumeRefused, Pressed, NextLoop
<1>5. CASE Enqueue
  <2>1. agent'.phase = agent.phase /\ UNCHANGED op /\ ui' = [ui EXCEPT !.at = "drain", !.entered = ""]
    BY <1>5 DEF Enqueue, NextLoop
  <2>2. ui'.at = "drain" /\ ui'.task = ui.task /\ ui'.prompt = ui.prompt /\ ui'.picker = ui.picker
    BY <2>1
  <2> QED BY <2>1, <2>2
<1>6. CASE RefusedCommand
  BY <1>6 DEF RefusedCommand, Typing, Command, Pressed, NextLoop
<1>7. CASE Submit
  <2>1. /\ UNCHANGED <<agent, op>> /\ ui.picker = "none" /\ ui.composer # ""
        /\ ui' = [ui EXCEPT !.at = IF Idle THEN "start" ELSE "steer", !.composer = "",
                            !.entered = ui.composer]
    BY <1>7 DEF Submit, Typing
  <2>2. /\ ui'.at = IF Idle THEN "start" ELSE "steer"
        /\ ui'.entered = ui.composer /\ ui'.entered \in Prompts
        /\ ui'.task = ui.task /\ ui'.prompt = ui.prompt /\ ui'.picker = "none"
    BY <2>1 DEF Typed
  <2> QED BY <2>1, <2>2
<1>8. CASE ControlC
  BY <1>8 DEF ControlC, Typing, Pressed, NextLoop, AbortedAgent
<1>9. CASE Quit
  BY <1>9 DEF Quit, Command, Typing, Pressed, NextLoop, AbortedAgent
<1>10. CASE Compact
  BY <1>10 DEF Compact, IdleCommand, Command, Typing, Pressed, NextLoop, Operation
<1>11. CASE Reload
  BY <1>11 DEF Reload, IdleCommand, Command, Typing, Pressed, NextLoop
<1>12. CASE Clear
  BY <1>12 DEF Clear, IdleCommand, Command, Typing, Pressed, NextLoop, ResetAgent
<1>13. CASE NewSession
  BY <1>13 DEF NewSession, IdleCommand, Command, Typing, Pressed, NextLoop, ResetAgent
<1>14. CASE OpenPicker
  BY <1>14 DEF OpenPicker, IdleCommand, Command, Typing, Pressed, NextLoop
<1>15. CASE ClosePicker
  BY <1>15 DEF ClosePicker, Pressed, NextLoop
<1>16. ASSUME NEW text \in Prompts, Type(text) PROVE Control'
  BY <1>16 DEF Type, Typing, Pressed, NextLoop
<1>17. ASSUME NEW text \in Prompts, FollowUp(text) PROVE Control'
  BY <1>17 DEF FollowUp, Command, Typing, Pressed, NextLoop
<1>18. ASSUME NEW model \in Models, SelectModel(model) PROVE Control'
  BY <1>18 DEF SelectModel, Pressed, NextLoop
<1>19. ASSUME NEW i \in 1 .. MaxSessions, Resume(i) PROVE Control'
  BY <1>19 DEF Resume, Pressed, NextLoop, ResetAgent
<1>20. CASE Drain
  BY <1>20 DEF Drain
<1>21. CASE StartPrompt
  <2>1. CASE agent.model = NoModel
    BY <1>21, <2>1 DEF StartPrompt, NextLoop
  <2>2. CASE agent.model # NoModel
    <3>1. op'.kind = "run" /\ op'.at = "created"
      <4>1. op' = Operation("run", ui.entered)
        BY <1>21, <2>2 DEF StartPrompt
      <4> QED BY <4>1 DEF Operation
    <3>2. /\ ui'.at = "drain" /\ ui'.task = "waiting" /\ ui'.prompt = ui.entered
          /\ ui'.picker = ui.picker /\ ui.at = "start"
      BY <1>21, <2>2 DEF StartPrompt, NextLoop
    <3> QED BY <3>1, <3>2
  <2> QED BY <2>1, <2>2
<1> QED BY <1>1, <1>2, <1>3, <1>4, <1>5, <1>6, <1>7, <1>8, <1>9, <1>10, <1>11, <1>12, <1>13,
        <1>14, <1>15, <1>16, <1>17, <1>18, <1>19, <1>20, <1>21, <1>22, <1>23 DEF Loop, Keys

-----------------------------------------------------------------------------
(* The types after a step of the event loop. *)

\* What the steps of the loop do to the variables they share.
LEMMA UiPieces ==
    ASSUME Types
    PROVE  /\ \A key : Pressed(key) => UsedType'
           /\ view' = Noticed(view) => ViewType'
           /\ view' = Noticed(Cleared(view)) => ViewType'
           /\ extensions' = Reloaded => ExtensionsType'
           /\ agent' = AbortedAgent => AgentType'
           /\ agent' = ResetAgent => AgentType'
           /\ agent.messages # <<>> => (session' = Saved => SessionType')
           /\ Saved \in [id : 1 .. MaxSessions, next : Nat \ {0},
                         files : [1 .. MaxSessions -> Seq(Messages) \cup {NoFile}]]
<1>1. \A key : Pressed(key) => UsedType'
  BY DEF Types, UsedType, Pressed
<1>2. (view' = Noticed(view) => ViewType') /\ (view' = Noticed(Cleared(view)) => ViewType')
  <2>1. view \in Views /\ Noticed(view) \in Views
    BY DEF Types, ViewType, Views, Noticed
  <2>2. <<>> \in Seq(AllRows) /\ {} \in SUBSET Nat
    OBVIOUS
  <2>3. Cleared(view) \in Views
    BY <2>1, <2>2 DEF Views, Cleared
  <2>4. Noticed(Cleared(view)) \in Views
    BY <2>3 DEF Views, Noticed
  <2> QED BY <2>1, <2>4 DEF ViewType
<1>3. extensions' = Reloaded => ExtensionsType'
  BY DEF Types, ExtensionsType, Reloaded
<1>4. (agent' = AbortedAgent => AgentType') /\ (agent' = ResetAgent => AgentType')
  <2>1. AgentType /\ <<>> \in Seq(Messages) /\ <<>> \in Seq(Prompts)
    BY DEF Types
  <2>2. agent' = ResetAgent => AgentType'
    BY <2>1 DEF AgentType, ResetAgent
  <2>3. CASE Idle
    BY <2>1, <2>2, <2>3 DEF AgentType, AbortedAgent
  <2>4. CASE ~Idle
    <3>1. PICK p \in {"idle", "cancelling"} :
            AbortedAgent = [agent EXCEPT !.steering = <<>>, !.followUp = <<>>, !.phase = p]
      BY <2>4 DEF AbortedAgent
    <3> QED BY <2>1, <2>2, <3>1 DEF AgentType
  <2> QED BY <2>2, <2>3, <2>4
<1>5. Saved \in [id : 1 .. MaxSessions, next : Nat \ {0},
                 files : [1 .. MaxSessions -> Seq(Messages) \cup {NoFile}]]
  BY DEF Types, AgentType, SessionType, Saved
<1> QED BY <1>1, <1>2, <1>3, <1>4, <1>5 DEF SessionType

\* The state of the loop keeps its type.
LEMMA UiKeepsUiType ==
    ASSUME Types, Control, Loop \/ StartPrompt \/ Enqueue \/ Keys
    PROVE  UiType'
<1>0. /\ UiType /\ ui.composer \in Typed /\ ui.entered \in Typed /\ ui.prompt \in Typed
      /\ "" \in Typed /\ \A text \in Prompts : text \in Typed
  BY DEF Types, UiType, Typed
<1>1. CASE UNCHANGED ui
  BY <1>0, <1>1 DEF UiType
<1>2. CASE Drain \/ NothingToReap \/ NoKey
  BY <1>0, <1>1, <1>2 DEF Drain, ReapDisconnected, NothingToReap, NoKey, AfterReap, UiType
<1>3. CASE ReapSuccess \/ ReapFailure \/ ReapDisconnected
  BY <1>0, <1>3 DEF ReapSuccess, ReapFailure, ReapDisconnected, AfterReap, UiType
<1>4. CASE StartPrompt \/ Enqueue
  BY <1>0, <1>4 DEF StartPrompt, Enqueue, NextLoop, UiType
<1>5. CASE RefusedCommand \/ Reload \/ Clear \/ NewSession \/ Quit \/ Compact
  BY <1>0, <1>5 DEF RefusedCommand, Reload, Clear, NewSession, Quit, Compact, NextLoop, UiType
<1>6. CASE Submit \/ ControlC
  BY <1>0, <1>6 DEF Submit, ControlC, NextLoop, UiType
<1>7. CASE OpenPicker \/ ClosePicker
  BY <1>0, <1>7 DEF OpenPicker, ResumeRefused, ClosePicker, NextLoop, UiType
<1>8. ASSUME NEW text \in Prompts, Type(text) \/ FollowUp(text) PROVE UiType'
  BY <1>0, <1>8 DEF Type, FollowUp, NextLoop, UiType
<1>9. ASSUME NEW model \in Models, SelectModel(model) PROVE UiType'
  BY <1>0, <1>9 DEF SelectModel, NextLoop, UiType
<1>10. ASSUME NEW i \in 1 .. MaxSessions, Resume(i) \/ ResumeRefused(i) PROVE UiType'
  BY <1>0, <1>10 DEF Resume, ResumeRefused, NextLoop, UiType
<1> QED BY <1>2, <1>3, <1>4, <1>5, <1>6, <1>7, <1>8, <1>9, <1>10 DEF Loop, Keys

\* The first event is applied to a view that it goes on with.
LEMMA DrainStep ==
    ASSUME Types, Shape, events # <<>>, view' = ApplyEvent(view, Head(events))
    PROVE  /\ Head(events) \in Events /\ view' \in Views /\ InPlace(view')
           /\ RowsMove(view, view', RowOf(Head(events)))
           /\ view'.streaming # 0 => Head(events).kind = "delta"
           /\ view'.tools # {} => /\ Head(events).kind \in {"tool_start", "tool_update"}
                                  /\ view'.rows[Len(view'.rows)].call = Head(events).of
           /\ view'.status = "active" =>
                \/ Head(events).kind \in Starts
                \/ view.status = "active" /\ Head(events).kind \notin Closers
<1>1. PICK e \in Events : e = Head(events) /\ e = events[1] /\ 1 \in DOMAIN events
  BY DEF Types, EventsType
<1>2. view \in Views /\ InPlace(view)
  BY DEF Types, ViewType, Shape
<1>3. /\ view.streaming # 0 => e.kind \in {"delta", "message_end"}
      /\ view.tools # {} => \/ e.kind = "tool_update" /\ e.of = view.rows[Len(view.rows)].call
                            \/ e.kind = "tool_end" /\ e.of.call = view.rows[Len(view.rows)].call
  BY <1>1 DEF Shape, Continued, TextGoesOn, CallGoesOn
<1>4. PICK w : w = ApplyEvent(view, e)
  OBVIOUS
<1>5. /\ w \in Views /\ InPlace(w) /\ RowsMove(view, w, RowOf(e))
      /\ w.streaming # 0 => e.kind = "delta"
      /\ w.tools # {} => /\ e.kind \in {"tool_start", "tool_update"}
                         /\ w.rows[Len(w.rows)].call = e.of
      /\ w.status = "active" => \/ e.kind \in Starts
                                \/ view.status = "active" /\ e.kind \notin Closers
  BY <1>2, <1>3, <1>4, AppliedEvent
<1>6. view' = w
  BY <1>1, <1>4
<1> QED BY <1>1, <1>5, <1>6

\* A session that is resumed is shown message by message.
LEMMA ResumedView ==
    ASSUME Types, NEW i \in 1 .. MaxSessions, Resume(i)
    PROVE  /\ session.files[i] \in Seq(Messages) /\ agent'.messages = session.files[i]
           /\ view'.rows = Rows(session.files[i]) /\ view'.rows \in Seq(AllRows)
           /\ view'.streaming = 0 /\ view'.tools = {} /\ view'.status = "notice"
           /\ ViewType'
<1> DEFINE m == session.files[i]
<1>1. m \in Seq(Messages)
  BY DEF Resume, Stored, Types, SessionType
<1>2. /\ \E model \in Models :
           agent' = [ResetAgent EXCEPT !.messages = m, !.model = model]
      /\ view' = Noticed([Cleared(view) EXCEPT !.rows = Rows(m)])
  BY DEF Resume
<1>3. agent'.messages = m
  BY <1>2 DEF ResetAgent, Types, AgentType
<1>4. PICK rows \in Seq(AllRows) : rows = Rows(m)
  <2>1. \A k \in 1 .. Len(m) : Row(m[k]) \in AllRows
    BY <1>1, TypedRow
  <2>2. Rows(m) \in [1 .. Len(m) -> AllRows]
    BY <1>1, <2>1 DEF Rows
  <2> QED BY <1>1, <2>2, SeqDef
<1>5. view' = [rows |-> rows, streaming |-> 0, tools |-> {}, status |-> "notice"]
  BY <1>2, <1>4 DEF Noticed, Cleared, Types, ViewType, Views
<1> QED BY <1>1, <1>3, <1>4, <1>5 DEF ViewType, Views

\* What the transcript, the view and the files are after a step of the loop.
LEMMA UiKeepsTypes ==
    ASSUME Types, Control, Shape, Loop \/ StartPrompt \/ Enqueue \/ Keys
    PROVE  Types'
<1>1. UiType'
  BY UiKeepsUiType
<1>2. UsedType'
  <2>1. UNCHANGED used => UsedType'
    BY KeptTypes
  <2> QED BY <2>1, UiPieces
          DEF Loop, Keys, Drain, ReapSuccess, ReapFailure, ReapDisconnected, NothingToReap, NoKey,
              StartPrompt, Enqueue,
              Type, FollowUp, Submit, ControlC, Quit, Compact, Reload, Clear, NewSession,
              RefusedCommand, OpenPicker, ResumeRefused, ClosePicker, SelectModel, Resume,
              IdleCommand, Command, Typing
<1>3. ExtensionsType'
  <2>1. (UNCHANGED extensions => ExtensionsType') /\ (extensions' = Reloaded => ExtensionsType')
    BY KeptTypes, UiPieces
  <2> QED BY <2>1
          DEF Loop, Keys, Drain, ReapSuccess, ReapFailure, ReapDisconnected, NothingToReap, NoKey,
              StartPrompt, Enqueue,
              Type, FollowUp, Submit, ControlC, Quit, Compact, Reload, Clear, NewSession,
              RefusedCommand, OpenPicker, ResumeRefused, ClosePicker, SelectModel, Resume
<1>4. EventsType'
  <2>1. UNCHANGED events => EventsType'
    BY KeptTypes
  <2>2. events # <<>> /\ events' = Tail(events) => EventsType'
    BY DEF Types, EventsType
  <2> QED BY <2>1, <2>2
          DEF Loop, Keys, Drain, ReapSuccess, ReapFailure, ReapDisconnected, NothingToReap, NoKey,
              StartPrompt, Enqueue,
              Type, FollowUp, Submit, ControlC, Quit, Compact, Reload, Clear, NewSession,
              RefusedCommand, OpenPicker, ResumeRefused, ClosePicker, SelectModel, Resume
<1>5. OpType'
  <2>1. UNCHANGED op => OpType'
    BY KeptTypes
  <2>2. \A kind \in {"run", "compaction"}, text \in Typed : op' = Operation(kind, text) => OpType'
    BY DEF Operation, OpType
  <2>3. ui.entered \in Typed /\ "" \in Typed
    BY DEF Types, UiType, Typed
  <2> QED BY <2>1, <2>2, <2>3
          DEF Loop, Keys, Drain, ReapSuccess, ReapFailure, ReapDisconnected, NothingToReap, NoKey,
              StartPrompt, Enqueue,
              Type, FollowUp, Submit, ControlC, Quit, Compact, Reload, Clear, NewSession,
              RefusedCommand, OpenPicker, ResumeRefused, ClosePicker, SelectModel, Resume
<1>6. SessionType'
  <2>1. UNCHANGED session => SessionType'
    BY KeptTypes
  <2>2. \A r \in PersistResults : r.session \in {session, Saved}
    BY DEF PersistResults
  <2>3. \A s \in {session, Saved} :
          s \in [id : 1 .. MaxSessions, next : Nat \ {0},
                 files : [1 .. MaxSessions -> Seq(Messages) \cup {NoFile}]]
    BY UiPieces DEF Types, SessionType
  <2>4. CASE ReapSuccess
    BY <2>2, <2>3, <2>4 DEF ReapSuccess, SessionType
  <2>5. CASE NewSession
    <3>1. session.next \in 1 .. MaxSessions /\ session.next + 1 \in Nat \ {0}
      BY <2>5, AppAssumption DEF NewSession, Types, SessionType
    <3>2. PICK r \in PersistResults :
            \/ session' = [r.session EXCEPT !.id = session.next, !.next = r.session.next + 1]
            \/ UNCHANGED session
      BY <2>5 DEF NewSession
    <3>3. r.session.next = session.next
      BY <2>2 DEF Saved, Types, SessionType
    <3> QED BY <2>1, <2>2, <2>3, <3>1, <3>2, <3>3 DEF SessionType
  <2>6. ASSUME NEW i \in 1 .. MaxSessions, Resume(i) PROVE SessionType'
    BY <2>1, <2>6 DEF Resume, Types, SessionType
  <2> QED BY <2>1, <2>4, <2>5, <2>6
          DEF Loop, Keys, Drain, ReapFailure, ReapDisconnected, NothingToReap, NoKey, StartPrompt,
              Enqueue,
              Type, FollowUp, Submit, ControlC, Quit, Compact, Reload, Clear,
              RefusedCommand, OpenPicker, ResumeRefused, ClosePicker, SelectModel
<1>7. AgentType'
  <2>1. /\ UNCHANGED agent => AgentType'
        /\ agent' = AbortedAgent => AgentType'
        /\ agent' = ResetAgent => AgentType'
    BY KeptTypes, UiPieces
  <2>2. AgentType
    BY DEF Types
  <2>3. CASE StartPrompt
    <3>1. CASE agent.model = NoModel
      BY <2>1, <2>3, <3>1 DEF StartPrompt
    <3>2. CASE agent.model # NoModel
      <4>1. ui.entered \in Prompts
        BY <2>3 DEF StartPrompt, Control
      <4>2. User(ui.entered) \in Messages /\ agent.messages \in Seq(Messages)
        BY <2>2, <4>1, TypedMessages DEF AgentType, Texts
      <4>3. PICK m : m = Append(agent.messages, User(ui.entered))
        OBVIOUS
      <4>4. m \in Seq(Messages)
        BY <4>2, <4>3
      <4>5. agent' = [agent EXCEPT !.phase = "running", !.messages = m]
        BY <2>2, <2>3, <3>2, <4>3 DEF StartPrompt, AgentType
      <4> QED BY <2>2, <4>4, <4>5, AgentSet
    <3> QED BY <3>1, <3>2
  <2>4. CASE Enqueue
    <3>0. PICK q : q = Append(agent.steering, ui.entered)
      OBVIOUS
    <3>1. q = Append(agent.steering, ui.entered) /\ q \in Seq(Prompts)
      <4>1. ui.entered \in Prompts /\ agent.steering \in Seq(Prompts)
        BY <2>2, <2>4 DEF Enqueue, Control, AgentType
      <4> QED BY <3>0, <4>1
    <3>2. agent' = [agent EXCEPT !.steering = q]
      BY <2>2, <2>4, <3>1 DEF Enqueue, AgentType
    <3> QED BY <2>2, <3>1, <3>2, AgentSet
  <2>5. ASSUME NEW text \in Prompts, FollowUp(text) PROVE AgentType'
    <3>0. PICK q : q = Append(agent.followUp, text)
      OBVIOUS
    <3>1. q = Append(agent.followUp, text) /\ q \in Seq(Prompts)
      <4>1. agent.followUp \in Seq(Prompts)
        BY <2>2 DEF AgentType
      <4> QED BY <3>0, <4>1
    <3>2. agent' = [agent EXCEPT !.followUp = q]
      BY <2>2, <2>5, <3>1 DEF FollowUp, AgentType
    <3> QED BY <2>2, <3>1, <3>2, AgentSet
  <2>6. ASSUME NEW model \in Models, SelectModel(model) PROVE AgentType'
    BY <2>1, <2>2, <2>6, AgentSet DEF SelectModel
  <2>7. CASE Compact
    BY <2>2, <2>7, AgentSet DEF Compact
  <2>8. ASSUME NEW i \in 1 .. MaxSessions, Resume(i) PROVE AgentType'
    <3>1. session.files[i] \in Seq(Messages)
      BY <2>8 DEF Resume, Stored, Types, SessionType
    <3>2. PICK r : r = ResetAgent
      OBVIOUS
    <3>3. r \in [phase : {"idle", "running", "cancelling"}, messages : Seq(Messages),
                 steering : Seq(Prompts), followUp : Seq(Prompts), model : Models \cup {NoModel}]
      <4>1. <<>> \in Seq(Messages) /\ <<>> \in Seq(Prompts)
        OBVIOUS
      <4> QED BY <2>2, <3>2, <4>1 DEF ResetAgent, AgentType
    <3>4. PICK model \in Models :
            agent' = [r EXCEPT !.messages = session.files[i], !.model = model]
      BY <2>8, <3>2 DEF Resume
    <3> QED BY <3>1, <3>3, <3>4 DEF AgentType
  <2>9. CASE ControlC \/ Quit
    BY <2>1, <2>9 DEF ControlC, Quit
  <2>10. CASE Clear \/ NewSession
    BY <2>1, <2>10 DEF Clear, NewSession
  <2> QED BY <2>1, <2>3, <2>4, <2>5, <2>6, <2>7, <2>8, <2>9, <2>10
          DEF Loop, Keys, Drain, ReapSuccess, ReapFailure, ReapDisconnected, NothingToReap, NoKey,
              Type, Submit, Reload, RefusedCommand, OpenPicker, ResumeRefused, ClosePicker
<1>8. ViewType'
  <2>0. ViewType /\ view \in Views
    BY DEF Types, ViewType
  <2>1. /\ UNCHANGED view => ViewType'
        /\ view' = Noticed(view) => ViewType'
        /\ view' = Noticed(Cleared(view)) => ViewType'
    BY KeptTypes, UiPieces
  <2>2. \A st \in {"idle", "active", "notice"} : view' = [view EXCEPT !.status = st] => ViewType'
    BY <2>0 DEF ViewType, Views
  <2>3. CASE Drain
    <3>1. CASE events = <<>>
      BY <2>1, <2>3, <3>1 DEF Drain
    <3>2. CASE events # <<>>
      BY <2>3, <3>2, DrainStep DEF Drain, ViewType
    <3> QED BY <3>1, <3>2
  <2>4. CASE ReapSuccess
    BY <2>2, <2>4 DEF ReapSuccess
  <2>5. CASE StartPrompt \/ Compact
    BY <2>1, <2>2, <2>5 DEF StartPrompt, Compact
  <2>6. ASSUME NEW i \in 1 .. MaxSessions, Resume(i) PROVE ViewType'
    BY <2>1, <2>6, ResumedView DEF Resume
  <2>7. CASE ControlC \/ Quit
    BY <2>1, <2>7 DEF ControlC, Quit
  <2>8. CASE Clear \/ NewSession
    BY <2>1, <2>8 DEF Clear, NewSession
  <2> QED BY <2>1, <2>3, <2>4, <2>5, <2>6, <2>7, <2>8
          DEF Loop, Keys, ReapFailure, ReapDisconnected, NothingToReap, NoKey, Enqueue, FollowUp,
              SelectModel,
              Type, Submit, Reload, RefusedCommand, OpenPicker, ResumeRefused, ClosePicker
<1> QED BY <1>1, <1>2, <1>3, <1>4, <1>5, <1>6, <1>7, <1>8 DEF Types

-----------------------------------------------------------------------------
(* The shape of the view and the rows of the messages, after a step of the *)
(* event loop.                                                             *)

\* A step that leaves the transcript, the rows and the operation alone.
LEMMA QuietUi ==
    ASSUME Types, Streams, Shape, Shown, UNCHANGED <<events, op>>, used'.calls = used.calls,
           agent'.messages = agent.messages, Idle => Idle', view'.rows = view.rows,
           view'.streaming = view.streaming, view'.tools = view.tools,
           view'.status = "active" =>
              view.status = "active" /\ (ui'.task = "none" => ui.task = "none")
    PROVE  Streams' /\ Shape' /\ Shown'
<1>1. Streams'
  BY DEF Streams, At
<1>2. InPlace(view)'
  BY DEF Shape, InPlace
<1>3. Unbroken(events, TextOn, CallOn)' /\ Continued(view, events, TextOn, CallOn)'
      /\ Closed(events, AtWork)'
  BY DEF Shape, Unbroken, Continued, Closed, TextGoesOn, CallGoesOn, TextOn, CallOn, AtWork
<1>4. StatusGoesBack'
  BY DEF Shape, StatusGoesBack
<1>5. Shown'
  BY DEF Shown, Covered, Announced
<1> QED BY <1>1, <1>2, <1>3, <1>4, <1>5 DEF Shape

\* The steps that leave the transcript and its rows alone.
Quiet ==
    \/ Drain /\ events = <<>>
    \/ NothingToReap \/ NoKey \/ ReapDisconnected \/ ReapSuccess \/ ReapFailure \/ Enqueue
    \/ StartPrompt /\ agent.model = NoModel
    \/ \E text \in Prompts : Type(text) \/ FollowUp(text)
    \/ Submit \/ ControlC \/ Quit \/ Reload \/ RefusedCommand \/ OpenPicker \/ ClosePicker
    \/ NewSession /\ UNCHANGED agent /\ view' = Noticed(view)
    \/ \E model \in Models : SelectModel(model)
    \/ \E i \in 1 .. MaxSessions : ResumeRefused(i)

\* Those steps keep the shape and the rows.
LEMMA QuietUiSteps ==
    ASSUME Types, Streams, Shape, Shown, Quiet
    PROVE  Streams' /\ Shape' /\ Shown'
<1>1. UNCHANGED <<events, op>>
  BY DEF Quiet, Drain, ReapDisconnected, NothingToReap, NoKey, ReapSuccess, ReapFailure,
         StartPrompt, Enqueue, Type,
         FollowUp, Submit, ControlC, Quit, Reload, RefusedCommand, OpenPicker, ResumeRefused,
         ClosePicker,
         NewSession, SelectModel, Resume
<1>2. used'.calls = used.calls
  <2>1. \A key : Pressed(key) => used'.calls = used.calls
    BY DEF Pressed, Types, UsedType
  <2> QED BY <2>1
          DEF Quiet, Drain, ReapDisconnected, NothingToReap, NoKey, ReapSuccess, ReapFailure,
              StartPrompt, Enqueue, Type,
              FollowUp, Submit, ControlC, Quit, Reload, RefusedCommand, OpenPicker, ResumeRefused,
              ClosePicker,
              NewSession, SelectModel, Resume, IdleCommand, Command, Typing
<1>3. agent'.messages = agent.messages /\ (Idle => Idle')
  <2>1. AgentType
    BY DEF Types
  <2>2. CASE UNCHANGED agent
    BY <2>2 DEF Idle
  <2>3. CASE Enqueue \/ \E text \in Prompts : FollowUp(text)
    BY <2>1, <2>3 DEF Enqueue, FollowUp, AgentType, Idle
  <2>4. CASE agent' = AbortedAgent
    <3>1. CASE Idle
      BY <2>2, <2>4, <3>1 DEF AbortedAgent
    <3>2. CASE ~Idle
      BY <2>1, <2>4, <3>2 DEF AbortedAgent, AgentType
    <3> QED BY <3>1, <3>2
  <2>5. CASE \E model \in Models : SelectModel(model)
    BY <2>1, <2>5 DEF SelectModel, AgentType, Idle
  <2> QED BY <2>2, <2>3, <2>4, <2>5
          DEF Quiet, Drain, ReapDisconnected, NothingToReap, NoKey, ReapSuccess, ReapFailure,
              StartPrompt, Type,
              Submit, ControlC, Quit, Reload, RefusedCommand, OpenPicker, ResumeRefused, ClosePicker,
              NewSession, Resume
<1>4. /\ view'.rows = view.rows /\ view'.streaming = view.streaming /\ view'.tools = view.tools
      /\ view'.status = "active" =>
           view.status = "active" /\ (ui'.task = "none" => ui.task = "none")
  <2>1. view \in Views
    BY DEF Types, ViewType
  <2>2. CASE view' = Noticed(view)
    BY <2>1, <2>2 DEF Noticed, Views
  <2>3. CASE ReapSuccess
    <3>1. PICK st \in {"idle", "notice"} : view' = [view EXCEPT !.status = st]
      BY <2>3 DEF ReapSuccess
    <3> QED BY <2>1, <3>1 DEF Views
  <2>4. CASE UNCHANGED view /\ ui'.task = ui.task
    BY <2>4
  <2>5. UNCHANGED view \/ view' = Noticed(view) \/ ReapSuccess
    BY DEF Quiet, Drain, ReapDisconnected, NothingToReap, NoKey, ReapFailure, StartPrompt, Enqueue,
           Type,
           FollowUp, Submit, ControlC, Quit, Reload, RefusedCommand, OpenPicker, ResumeRefused,
           ClosePicker,
           NewSession, SelectModel, Resume
  <2>6. UNCHANGED view => ui'.task = ui.task \/ ReapSuccess \/ view' = Noticed(view)
    <3>1. /\ ui' = NextLoop => ui'.task = ui.task
          /\ \A t : ui' = [NextLoop EXCEPT !.composer = t] => ui'.task = ui.task
          /\ \A t : ui' = [NextLoop EXCEPT !.picker = t] => ui'.task = ui.task
          /\ \A t : ui' = [ui EXCEPT !.at = t] => ui'.task = ui.task
          /\ \A t, c, e : ui' = [ui EXCEPT !.at = t, !.composer = c, !.entered = e] => ui'.task = ui.task
          /\ \A t : ui' = [NextLoop EXCEPT !.quitting = t] => ui'.task = ui.task
          /\ \A t, c : ui' = [NextLoop EXCEPT !.quitting = t, !.composer = c] => ui'.task = ui.task
      BY DEF NextLoop, Types, UiType
    <3>2. CASE Drain \/ NothingToReap \/ NoKey
      BY <3>1, <3>2 DEF Drain, ReapDisconnected, NothingToReap, NoKey
    <3>3. CASE Submit \/ ControlC \/ Quit \/ OpenPicker \/ ClosePicker \/ \E text \in Prompts : Type(text)
      BY <3>1, <3>3 DEF Submit, ControlC, Quit, OpenPicker, ResumeRefused, ClosePicker, Type
    <3> QED BY <3>2, <3>3
            DEF Quiet, ReapFailure, ReapDisconnected, StartPrompt, Enqueue, FollowUp, Reload,
                RefusedCommand, NewSession, SelectModel, ResumeRefused
  <2> QED BY <2>2, <2>3, <2>4, <2>5, <2>6
<1> QED BY <1>1, <1>2, <1>3, <1>4, QuietUi

-----------------------------------------------------------------------------
(* An operation is started. *)

\* The view while an operation was started and not polled yet.
LEMMA StartedShape ==
    ASSUME Types, Shape, UNCHANGED events, used'.calls = used.calls,
           op.at \notin Working \cup {"compacting", "dropped"},
           op'.at = "created", ui'.task = "waiting",
           view' = [view EXCEPT !.status = "active"]
    PROVE  Shape'
<1>1. view'.rows = view.rows /\ view'.streaming = view.streaming /\ view'.tools = view.tools
  BY DEF Types, ViewType, Views
<1>2. /\ ~TextOn /\ ~TextOn' /\ CallOn = {} /\ CallOn' = {} /\ ~AtWork /\ ~AtWork'
  BY DEF TextOn, CallOn, AtWork, Working
<1>3. InPlace(view)'
  BY <1>1 DEF Shape, InPlace
<1>4. Unbroken(events, TextOn, CallOn)' /\ Continued(view, events, TextOn, CallOn)'
      /\ Closed(events, AtWork)'
  BY <1>1, <1>2 DEF Shape, Unbroken, Continued, Closed, TextGoesOn, CallGoesOn
<1>5. StatusGoesBack'
  BY DEF StatusGoesBack
<1> QED BY <1>3, <1>4, <1>5 DEF Shape

\* A prompt that is submitted has no row before its run begins.
LEMMA StartPromptStep ==
    ASSUME Types, Control, Shape, Shown, StartPrompt, agent.model # NoModel
    PROVE  Streams' /\ Shape' /\ Shown'
<1>1. Idle /\ ui.entered \in Prompts /\ op.at \notin Working \cup {"compacting", "dropped"}
  BY DEF StartPrompt, Control, Resting, Working, At
<1>2. /\ op' = Operation("run", ui.entered) /\ UNCHANGED <<events, used>>
      /\ view' = [view EXCEPT !.status = "active"]
      /\ agent' = [agent EXCEPT !.phase = "running", !.messages = Append(@, User(ui.entered))]
      /\ ui' = [NextLoop EXCEPT !.entered = "", !.task = "waiting", !.prompt = ui.entered]
  BY DEF StartPrompt
<1>3. op'.at = "created" /\ op'.prompt = ui.entered /\ op'.kind = "run"
  BY <1>2 DEF Operation
<1>4. ui'.task = "waiting"
  BY <1>2 DEF NextLoop, Types, UiType
<1>5. PICK m \in Messages : m = User(ui.entered)
  BY <1>1, TypedMessages DEF Texts
<1>6. agent'.messages = Append(agent.messages, m) /\ agent.messages \in Seq(Messages)
  BY <1>2, <1>5 DEF Types, AgentType
<1>7. Shape'
  BY <1>1, <1>2, <1>3, <1>4, StartedShape
<1>8. Streams'
  <2>1. agent'.messages # <<>> /\ agent'.messages[Len(agent'.messages)] = m
    BY <1>6
  <2> QED BY <1>1, <1>3, <1>5, <2>1 DEF Streams
<1>9. Shown'
  <2>1. PICK n : n = Len(agent.messages) + 1
    OBVIOUS
  <2>2. m.role = "user" /\ op'.at \notin Working /\ AgentType
    BY <1>3, <1>5 DEF User, Working, Types
  <2>3. /\ Covered' \subseteq Covered
        /\ \A i \in Covered : agent'.messages[i] = agent.messages[i]
    BY <1>6, <2>1, <2>2, CoveredAppend
  <2>4. <<>> \in Seq(Events) /\ events' = events \o <<>>
    BY <1>2 DEF Types, EventsType
  <2>5. Slots(view.rows, events)' = Slots(view.rows, events)
    <3>1. view'.rows = view.rows
      BY <1>2 DEF Types, ViewType, Views
    <3> QED BY <1>2, <3>1
  <2>6. Placed(agent.messages, Covered, Slots(view.rows, events))
    BY DEF Shown
  <2> DEFINE m1 == agent.messages
             m2 == agent'.messages
             C == Covered
             C2 == Covered'
             s == Slots(view.rows, events)
  <2>7. Placed(m1, C, s) /\ C2 \in SUBSET C /\ \A i \in C2 : m2[i] = m1[i]
    BY <2>3, <2>6
  <2> HIDE DEF m1, m2, C, C2, s
  <2>8. Placed(m2, C2, s)
    BY <2>7, PlacedStill
  <2> QED BY <2>5, <2>8 DEF m2, C2, s, Shown
<1> QED BY <1>7, <1>8, <1>9

\* /compact starts an operation on the same transcript.
LEMMA CompactStep ==
    ASSUME Types, Control, Shape, Shown, Compact
    PROVE  Streams' /\ Shape' /\ Shown'
<1>1. Idle /\ op.at \notin Working \cup {"compacting", "dropped"} /\ used'.calls = used.calls
  BY DEF Compact, IdleCommand, Command, Typing, Pressed, Control, Resting, Working, At, Types, UsedType
<1>2. /\ op'.at = "created" /\ op'.kind = "compaction" /\ UNCHANGED events
      /\ view' = [view EXCEPT !.status = "active"]
      /\ agent'.messages = agent.messages
  BY DEF Compact, Operation, Types, AgentType
<1>3. ui'.task = "waiting"
  BY DEF Compact, NextLoop, Types, UiType
<1>4. Shape'
  BY <1>1, <1>2, <1>3, StartedShape
<1>5. Streams'
  BY <1>2 DEF Streams, At
<1>6. Shown'
  <2>1. view'.rows = view.rows
    BY <1>2 DEF Types, ViewType, Views
  <2>2. Covered' = Covered
    BY <1>1, <1>2 DEF Covered, Announced, Working
  <2> QED BY <1>2, <2>1, <2>2 DEF Shown
<1> QED BY <1>4, <1>5, <1>6

-----------------------------------------------------------------------------
(* The transcript is replaced. *)

\* Rows that no event changes any more may replace the view's.
LEMMA ReplacedShape ==
    ASSUME Types, Control, Shape, Idle, UNCHANGED <<events, op>>, used'.calls = used.calls, Idle',
           view'.rows \in Seq(AllRows), view'.streaming = 0, view'.tools = {},
           \A k \in 1 .. Len(view'.rows) : ~OpenText(view'.rows[k]) /\ ~OpenCall(view'.rows[k]),
           view'.status = "notice"
    PROVE  Streams' /\ Shape'
<1>1. op.at \notin Working
  BY DEF Control, Resting, Working, At
<1>2. Streams'
  BY <1>1 DEF Streams, Working
<1>3. Len(view'.rows) \in Nat
  OBVIOUS
<1>4. InPlace(view)'
  BY <1>3 DEF InPlace
<1>5. Unbroken(events, TextOn, CallOn)' /\ Continued(view, events, TextOn, CallOn)'
      /\ Closed(events, AtWork)'
  BY DEF Shape, Unbroken, Continued, Closed, TextGoesOn, CallGoesOn, TextOn, CallOn, AtWork
<1>6. StatusGoesBack'
  BY DEF StatusGoesBack
<1> QED BY <1>2, <1>4, <1>5, <1>6 DEF Shape

\* /clear and /new leave neither messages nor rows.
LEMMA ClearSteps ==
    ASSUME Types, Control, Shape, Shown,
           Clear \/ (NewSession /\ ~(UNCHANGED agent /\ view' = Noticed(view)))
    PROVE  Streams' /\ Shape' /\ Shown'
<1>1. /\ agent' = ResetAgent /\ view' = Noticed(Cleared(view)) /\ UNCHANGED <<events, op>>
      /\ Idle /\ used'.calls = used.calls
  BY DEF Clear, NewSession, IdleCommand, Command, Typing, Pressed, Types, UsedType
<1>2. agent'.messages = <<>> /\ Idle'
  BY <1>1 DEF ResetAgent, Types, AgentType, Idle
<1>3. /\ view'.rows = <<>> /\ view'.streaming = 0 /\ view'.tools = {} /\ view'.status = "notice"
  BY <1>1 DEF Noticed, Cleared, Types, ViewType, Views
<1>4. Streams' /\ Shape'
  <2>1. /\ view'.rows \in Seq(AllRows)
        /\ \A k \in 1 .. Len(view'.rows) : ~OpenText(view'.rows[k]) /\ ~OpenCall(view'.rows[k])
    BY <1>3
  <2> QED BY <1>1, <1>2, <1>3, <2>1, ReplacedShape
<1>5. Covered' = {}
  BY <1>2 DEF Covered
<1>6. Shown'
  <2>1. Shown' = Placed(agent'.messages, Covered', Slots(view.rows, events)')
    BY DEF Shown
  <2>2. PICK s : s = Slots(view.rows, events)'
    OBVIOUS
  <2>3. PICK m : m = agent'.messages
    OBVIOUS
  <2>4. Placed(m, {}, s)
    <3>1. [i \in {} |-> 0] \in [{} -> DOMAIN s]
      OBVIOUS
    <3> QED BY <3>1 DEF Placed
  <2> QED BY <1>5, <2>2, <2>3, <2>4 DEF Shown
<1> QED BY <1>4, <1>6

\* A session that is resumed has a row for each message.
LEMMA ResumeStep ==
    ASSUME Types, Control, Shape, Shown, NEW i \in 1 .. MaxSessions, Resume(i)
    PROVE  Streams' /\ Shape' /\ Shown'
<1>1. /\ UNCHANGED <<events, op>> /\ ui.picker = "session" /\ used'.calls = used.calls
      /\ \E model \in Models :
           agent' = [ResetAgent EXCEPT !.messages = session.files[i], !.model = model]
  <2>1. \A key : Pressed(key) => used'.calls = used.calls
    BY DEF Pressed, Types, UsedType
  <2> QED BY <2>1 DEF Resume
<1>2. Idle /\ Idle'
  BY <1>1 DEF Control, ResetAgent, Types, AgentType, Idle
<1>3. PICK m \in Seq(Messages) : /\ m = session.files[i] /\ agent'.messages = m
                                 /\ view'.rows = Rows(m)
  BY ResumedView
<1>4. /\ view'.rows \in Seq(AllRows) /\ view'.streaming = 0 /\ view'.tools = {}
      /\ view'.status = "notice"
  BY ResumedView
<1>5. Len(view'.rows) = Len(m) /\ \A k \in 1 .. Len(m) : view'.rows[k] = Row(m[k])
  BY <1>3, <1>4 DEF Rows
<1>6. Streams' /\ Shape'
  <2>1. \A k \in 1 .. Len(view'.rows) : ~OpenText(view'.rows[k]) /\ ~OpenCall(view'.rows[k])
    BY <1>3, <1>5, MadeRows
  <2> QED BY <1>1, <1>2, <1>4, <2>1, ReplacedShape
<1>7. Shown'
  <2> DEFINE s == Slots(view'.rows, events')
             C == Covered'
  <2>1. C \subseteq 1 .. Len(m) /\ Len(m) \in Nat
    BY <1>3 DEF Covered
  <2>2. Len(events') \in Nat
    BY <1>1 DEF Types, EventsType
  <2>3. \A k \in 1 .. Len(m) : k \in DOMAIN s /\ s[k] = Row(m[k])
    BY <1>5, <2>1, <2>2 DEF Slots
  <2> HIDE DEF s, C
  <2>4. [k \in C |-> k] \in [C -> DOMAIN s]
    BY <2>1, <2>3
  <2>5. Placed(m, C, s)
    BY <2>1, <2>3, <2>4 DEF Placed
  <2> QED BY <1>3, <2>5 DEF Shown, s, C
<1> QED BY <1>6, <1>7

-----------------------------------------------------------------------------
(* An event is applied. *)

\* An event that is applied leaves the rest, and every row, in order.
LEMMA DrainKeeps ==
    ASSUME Types, Control, Streams, Shape, Shown, Drain, events # <<>>
    PROVE  Streams' /\ Shape' /\ Shown'
<1>1. /\ view' = ApplyEvent(view, Head(events)) /\ events' = Tail(events)
      /\ UNCHANGED <<agent, op, ui, used>>
  BY DEF Drain
<1>2. PICK e \in Events : e = Head(events)
  BY DrainStep, <1>1
<1>3. /\ view' \in Views /\ InPlace(view') /\ RowsMove(view, view', RowOf(e))
      /\ view'.streaming # 0 => e.kind = "delta"
      /\ view'.tools # {} => /\ e.kind \in {"tool_start", "tool_update"}
                             /\ view'.rows[Len(view'.rows)].call = e.of
      /\ view'.status = "active" =>
           \/ e.kind \in Starts
           \/ view.status = "active" /\ e.kind \notin Closers
  BY <1>1, <1>2, DrainStep
<1> DEFINE t == TextOn
           c == CallOn
           a == AtWork
<1>4. events \in Seq(Events) /\ Unbroken(events, t, c) /\ Closed(events, a)
  BY DEF Types, EventsType, Shape
<1> HIDE DEF t, c, a
<1>5. /\ Tail(events) \in Seq(Events)
      /\ Unbroken(Tail(events), t, c) /\ Closed(Tail(events), a)
      /\ e.kind = "delta" => TextGoesOn(Tail(events), 1, t)
      /\ e.kind \in {"tool_start", "tool_update"} => CallGoesOn(Tail(events), 1, e.of, c)
      /\ e.kind \in Starts => a \/ \E j \in DOMAIN Tail(events) : Tail(events)[j].kind \in Closers
  BY <1>2, <1>4, TailGoesOn
<1>6. t = TextOn' /\ c = CallOn' /\ a = AtWork'
  BY <1>1 DEF t, c, a, TextOn, CallOn, AtWork
<1>7. Continued(view', events', TextOn', CallOn')
  BY <1>1, <1>3, <1>5, <1>6 DEF Continued
<1>8. StatusGoesBack'
  <2>1. SUFFICES ASSUME ui.task = "none", view'.status = "active", op.at # "dropped"
                 PROVE  \E j \in DOMAIN Tail(events) : Tail(events)[j].kind \in Closers
    BY <1>1 DEF StatusGoesBack
  <2>2. ~a
    BY <2>1 DEF a, AtWork, Control, Working
  <2>3. CASE e.kind \in Starts
    BY <1>5, <2>2, <2>3
  <2>4. CASE view.status = "active" /\ e.kind \notin Closers
    <3>1. PICK j \in DOMAIN events : events[j].kind \in Closers
      BY <2>1, <2>4 DEF Shape, StatusGoesBack
    <3>2. j # 1
      BY <1>2, <1>4, <2>4, <3>1
    <3>3. j - 1 \in DOMAIN Tail(events) /\ Tail(events)[j - 1] = events[j]
      BY <1>4, <3>1, <3>2
    <3> QED BY <3>1, <3>3
  <2> QED BY <1>3, <2>1, <2>3, <2>4
<1>9. Shape'
  BY <1>1, <1>3, <1>5, <1>6, <1>7, <1>8 DEF Shape
<1>10. Shown'
  <2>1. PICK m : m = agent.messages
    OBVIOUS
  <2>2. PICK C : C = Covered
    OBVIOUS
  <2>3. C \in SUBSET Nat /\ (\A i \in C : m[i] \in Messages) /\ Placed(m, C, Slots(view.rows, events))
    BY <2>1, <2>2, CoveredType DEF Shown, Types
  <2>4. view \in Views
    BY DEF Types, ViewType
  <2>5. PICK w \in Views : w = view'
    BY <1>3
  <2>6. RowsMove(view, w, RowOf(Head(events)))
    BY <1>2, <1>3, <2>5
  <2>7. Placed(m, C, Slots(w.rows, Tail(events)))
    BY <1>4, <2>3, <2>4, <2>6, DrainedSlots
  <2>8. m = agent'.messages /\ C = Covered'
    BY <1>1, <2>1, <2>2 DEF Covered, Announced
  <2> QED BY <1>1, <2>5, <2>7, <2>8 DEF Shown
<1>11. Streams'
  BY <1>1 DEF Streams, At, Idle
<1> QED BY <1>9, <1>10, <1>11

\* The event loop and the keys keep the invariant.
LEMMA UiKeeps ==
    ASSUME Inv, Loop \/ StartPrompt \/ Enqueue \/ Keys
    PROVE  Inv'
<1>1. Types /\ Control /\ Streams /\ Shape /\ Shown
  BY DEF Inv
<1>2. Types' /\ Control'
  BY <1>1, UiKeepsTypes, UiKeepsControl
<1>3. Streams' /\ Shape' /\ Shown'
  BY <1>1, QuietUiSteps, StartPromptStep, CompactStep, ClearSteps, ResumeStep, DrainKeeps
     DEF Loop, Keys, Quiet
<1> QED BY <1>2, <1>3 DEF Inv

-----------------------------------------------------------------------------
(* The invariant says that the view is true. *)

\* At rest no row is open: nobody is left to continue it.
LEMMA RestsAt ==
    ASSUME Types, Control, Shape, UpToDate
    PROVE  view.streaming = 0 /\ view.tools = {}
<1>1. ~TextOn /\ CallOn = {}
  BY DEF UpToDate, Control, Resting, Working, At, TextOn, CallOn
<1>2. events = <<>> /\ 1 \notin DOMAIN events
  BY DEF UpToDate
<1> QED BY <1>1, <1>2 DEF Shape, Continued, TextGoesOn, CallGoesOn

\* So an agent at rest is shown at rest.
LEMMA InvSettled ==
    ASSUME Types, Control, Shape PROVE SettledView
<1>1. SUFFICES ASSUME UpToDate
               PROVE  /\ view.streaming = 0 /\ view.tools = {}
                      /\ \A i \in DOMAIN view.rows :
                           /\ view.rows[i].kind = "assistant" => ~view.rows[i].streaming
                           /\ view.rows[i].kind = "tool" =>
                                view.rows[i].state \in {"Completed", "Failed"}
                      /\ ui.task = "none" => view.status # "active"
  BY DEF SettledView
<1>2. view.streaming = 0 /\ view.tools = {}
  BY <1>1, RestsAt
<1>3. view.rows \in Seq(AllRows) /\ Len(view.rows) \in Nat
  BY DEF Types, ViewType, Views
<1>4. ASSUME NEW i \in DOMAIN view.rows PROVE ~OpenText(view.rows[i]) /\ ~OpenCall(view.rows[i])
  <2>1. CASE i = Len(view.rows)
    <3>1. i > 0 /\ i # 0 /\ {i} # {}
      BY <1>3, <1>4, <2>1
    <3>2. /\ view.streaming = IF i > 0 /\ OpenText(view.rows[i]) THEN i ELSE 0
          /\ view.tools = IF i > 0 /\ OpenCall(view.rows[i]) THEN {i} ELSE {}
      BY <2>1 DEF Shape, InPlace
    <3> QED BY <1>2, <3>1, <3>2
  <2>2. CASE i # Len(view.rows)
    BY <1>3, <1>4, <2>2 DEF Shape, InPlace
  <2> QED BY <2>1, <2>2
<1>5. \A row \in AllRows : ~OpenText(row) /\ ~OpenCall(row) =>
        /\ row.kind = "assistant" => ~row.streaming
        /\ row.kind = "tool" => row.state \in {"Completed", "Failed"}
  BY DEF AllRows, TextRows, ToolRows, OpenText, OpenCall, ErrorRow, WelcomeRow
<1>6. ui.task = "none" => view.status # "active"
  <2>1. op.at # "dropped" /\ events = <<>>
    BY <1>1 DEF UpToDate, Control, Resting, At
  <2> QED BY <2>1 DEF Shape, StatusGoesBack
<1> QED BY <1>2, <1>3, <1>4, <1>5, <1>6

\* The type invariant of the model.
LEMMA InvTypeOK ==
    ASSUME Types, Shape PROVE TypeOK
<1>1. ToSet(agent.steering) \cup ToSet(agent.followUp) \subseteq Prompts
  BY DEF ToSet, Types, AgentType
<1>2. view.streaming \in 0 .. Len(view.rows)
  BY DEF Types, ViewType, Views, Shape, InPlace
<1>3. view.tools \subseteq {i \in DOMAIN view.rows : view.rows[i].kind = "tool"}
  BY DEF Types, ViewType, Views, Shape, InPlace, OpenCall, ToolRows
<1>4. {ui.composer, ui.entered, ui.prompt} \subseteq Prompts \cup {""}
  BY DEF Types, UiType, Typed
<1>5. /\ agent.phase \in {"idle", "running", "cancelling"}
      /\ agent.model \in Models \cup {NoModel}
      /\ op.kind \in {"none", "run", "compaction"}
      /\ op.outcome \in {"none", "ok", "failed", "cancelled"}
      /\ view.status \in {"idle", "active", "notice"}
  BY DEF Types, AgentType, OpType, ViewType, Views
<1>6. /\ ui.at \in {"drain", "reap", "poll", "start", "steer", "exited"}
      /\ ui.task \in {"none", "waiting"} /\ ui.quitting \in BOOLEAN
      /\ session.id \in 1 .. MaxSessions
      /\ extensions.loaded \in Versions /\ extensions.disk \in Versions \cup {Broken}
  BY DEF Types, UiType, SessionType, ExtensionsType
<1> QED BY <1>1, <1>2, <1>3, <1>4, <1>5, <1>6 DEF TypeOK

\* An operation whose result is there has released the agent.
LEMMA InvReaped ==
    ASSUME Control PROVE ReapedIsSettled
BY DEF Control, ReapedIsSettled, Ready, Resting

-----------------------------------------------------------------------------
(* What is held is shown. *)

\* A set of numbers that is not empty has a least.
LEMMA LeastNat ==
    ASSUME NEW T \in SUBSET Nat, T # {}
    PROVE  Min(T) \in T /\ \A k \in T : Min(T) <= k
<1>1. PICK m \in T : \A k \in T : <<k, m>> \notin OpToRel(<, Nat)
  BY WFMin, NatLessThanWellFounded, Zenon
<1>2. \A k \in T : ~(k < m)
  BY <1>1, Zenon DEF OpToRel
<1>3. \A k \in T : m <= k
  BY <1>2
<1> QED BY <1>3 DEF Min

\* Induction over the numbers, for a set.
LEMMA AllNats ==
    ASSUME NEW T \in SUBSET Nat, 0 \in T, \A n \in T : n + 1 \in T
    PROVE  T = Nat
<1> SUFFICES ASSUME Nat \ T # {} PROVE FALSE
  OBVIOUS
<1>1. PICK m \in Nat \ T : \A k \in Nat \ T : m <= k
  BY LeastNat
<1>2. m # 0 /\ m - 1 \in Nat /\ ~(m <= m - 1)
  OBVIOUS
<1>3. m - 1 \in T
  BY <1>1, <1>2
<1> QED BY <1>1, <1>3

\* The function that HeldIsShown folds the rows with.
Folds(shown, wanted, rows, last) ==
    shown = [k \in 0 .. last |->
               IF k = 0 THEN 0 ELSE ShownUpTo(wanted, shown[k - 1], rows[k])]

\* There is one: by induction on the number of rows.
LEMMA FoldExists ==
    ASSUME NEW wanted, NEW rows
    PROVE  \A last \in Nat : \E shown : Folds(shown, wanted, rows, last)
<1> DEFINE T == {last \in Nat : \E shown : Folds(shown, wanted, rows, last)}
<1>1. 0 \in T
  <2>1. Folds([k \in 0 .. 0 |-> 0], wanted, rows, 0)
    BY DEF Folds
  <2> QED BY <2>1
<1>2. ASSUME NEW last \in T PROVE last + 1 \in T
  <2>1. PICK shown : Folds(shown, wanted, rows, last)
    OBVIOUS
  <2>2. last \in Nat
    OBVIOUS
  <2> DEFINE more == [k \in 0 .. last + 1 |->
                        IF k <= last THEN shown[k] ELSE ShownUpTo(wanted, shown[last], rows[last + 1])]
             Step(f, k) == IF k = 0 THEN 0 ELSE ShownUpTo(wanted, f[k - 1], rows[k])
  <2>3. ASSUME NEW k \in 0 .. last PROVE more[k] = Step(more, k)
    <3>1. more[k] = shown[k] /\ (k # 0 => more[k - 1] = shown[k - 1])
      BY <2>2
    <3>2. shown[k] = Step(shown, k)
      BY <2>1 DEF Folds
    <3> HIDE DEF more
    <3> QED BY <3>1, <3>2
  <2>4. more[last + 1] = Step(more, last + 1)
    <3>1. /\ more[last + 1] = ShownUpTo(wanted, more[last], rows[last + 1])
          /\ last + 1 # 0 /\ (last + 1) - 1 = last
      BY <2>2
    <3> HIDE DEF more
    <3> QED BY <3>1
  <2>5. \A k \in 0 .. last + 1 : k \in 0 .. last \/ k = last + 1
    BY <2>2
  <2> HIDE DEF more, Step
  <2>6. \A k \in 0 .. last + 1 : more[k] = Step(more, k)
    BY <2>3, <2>4, <2>5
  <2>7. more = [k \in 0 .. last + 1 |-> more[k]]
    BY DEF more
  <2>8. Folds(more, wanted, rows, last + 1)
    BY <2>6, <2>7 DEF Folds, Step
  <2> QED BY <2>8
<1> HIDE DEF T
<1>3. T \in SUBSET Nat
  BY DEF T
<1>4. T = Nat
  BY <1>1, <1>2, <1>3, AllNats
<1> QED BY <1>4 DEF T

\* After a row that is the one of a wanted message, that message is shown.
LEMMA FoldReaches ==
    ASSUME NEW wanted \in SUBSET (Nat \ {0}), NEW rows, NEW last \in Nat, NEW shown,
           Folds(shown, wanted, rows, last),
           NEW f \in [wanted -> 1 .. last],
           \A i \in wanted : rows[f[i]] = Row(agent.messages[i]),
           \A i, j \in wanted : i < j => f[i] < f[j]
    PROVE  \A i \in wanted : i <= shown[last]
<1> DEFINE Reached(k) == /\ shown[k] \in wanted \cup {0}
                         /\ \A i \in wanted : f[i] <= k => i <= shown[k]
           T == {k \in Nat : k <= last => Reached(k)}
<1>1. 0 \in T
  BY DEF Folds
<1>2. ASSUME NEW k \in T PROVE k + 1 \in T
  <2>0. k \in Nat
    OBVIOUS
  <2>1. SUFFICES ASSUME k + 1 <= last PROVE Reached(k + 1)
    BY <2>0
  <2>2. Reached(k)
    BY <2>0, <2>1
  <2> DEFINE now == shown[k]
             next == shown[k + 1]
             later == {j \in wanted : j > now}
  <2>3. next = ShownUpTo(wanted, now, rows[k + 1])
    BY <2>0, <2>1 DEF Folds
  <2>4. now \in Nat /\ now \in wanted \cup {0} /\ \A i \in wanted : f[i] <= k => i <= now
    <3>1. now \in wanted \cup {0} /\ \A i \in wanted : f[i] <= k => i <= now
      BY <2>2
    <3>2. \A x \in wanted \cup {0} : x \in Nat
      OBVIOUS
    <3> HIDE DEF now
    <3> QED BY <3>1, <3>2
  <2>5. next = IF later # {} /\ rows[k + 1] = Row(agent.messages[Min(later)]) THEN Min(later) ELSE now
    BY <2>3 DEF ShownUpTo
  <2> HIDE DEF now, next
  <2>6. CASE later = {}
    BY <2>4, <2>5, <2>6 DEF now, next
  <2>7. CASE later # {}
    <3>1. Min(later) \in later /\ \A j \in later : Min(later) <= j
      BY <2>4, <2>7, LeastNat
    <3>2. PICK least \in later : least = Min(later) /\ \A j \in later : least <= j
      BY <3>1
    <3>3. next = IF rows[k + 1] = Row(agent.messages[least]) THEN least ELSE now
      BY <2>5, <2>7, <3>2
    <3>4. least \in wanted /\ least > now /\ least \in Nat
      BY <3>2
    <3>5. next \in wanted \cup {0} /\ now <= next
      BY <2>4, <3>3, <3>4
    <3>6. ASSUME NEW i \in wanted, f[i] <= k + 1 PROVE i <= next
      <4>1. CASE i <= now
        BY <2>4, <3>4, <3>5, <4>1
      <4>2. CASE i > now
        <5>1. f[i] = k + 1
          BY <2>0, <2>4, <3>6, <4>2
        <5>2. i \in later /\ least <= i
          BY <3>2, <4>2
        <5>3. ~(least < i)
          <6>1. SUFFICES ASSUME least < i PROVE FALSE
            OBVIOUS
          <6>2. f[least] < k + 1 /\ f[least] \in Nat
            BY <3>4, <5>1, <6>1
          <6>3. least <= now
            BY <2>0, <2>4, <3>4, <6>2
          <6> QED BY <2>4, <3>4, <6>3
        <5>4. least = i
          BY <3>4, <5>2, <5>3
        <5>5. rows[k + 1] = Row(agent.messages[least])
          BY <5>1, <5>4
        <5> QED BY <3>3, <5>4, <5>5
      <4> QED BY <2>4, <4>1, <4>2
    <3> QED BY <3>5, <3>6 DEF next
  <2> QED BY <2>6, <2>7
<1> HIDE DEF Reached, T
<1>3. T = Nat
  <2>1. T \in SUBSET Nat
    BY DEF T
  <2> QED BY <1>1, <1>2, <2>1, AllNats
<1>4. Reached(last)
  BY <1>3 DEF T
<1> QED BY <1>4 DEF Reached

\* At rest the rows that the messages have are those of the view.
LEMMA InvHeldIsShown ==
    ASSUME Types, Shown PROVE HeldIsShown
<1>1. SUFFICES ASSUME UpToDate PROVE HeldIsShown
  BY DEF HeldIsShown
<1> DEFINE wanted == {i \in DOMAIN agent.messages : Announced(i)}
           rows == view.rows
           last == Len(view.rows)
<1>2. wanted \in SUBSET (Nat \ {0}) /\ wanted \subseteq Covered /\ last \in Nat
  BY DEF Types, AgentType, ViewType, Views, Covered
<1>3. \A k \in DOMAIN Slots(rows, events) :
        k \in 1 .. last /\ Slots(rows, events)[k] = rows[k]
  BY <1>1, <1>2 DEF UpToDate, Slots
<1>4. PICK g \in [Covered -> DOMAIN Slots(rows, events)] :
        /\ \A i \in Covered : Slots(rows, events)[g[i]] = Row(agent.messages[i])
        /\ \A i, j \in Covered : i < j => g[i] < g[j]
  BY DEF Shown, Placed
<1> HIDE DEF wanted, rows, last
<1>5. PICK f : f = [i \in wanted |-> g[i]]
  OBVIOUS
<1>6. /\ f \in [wanted -> 1 .. last]
      /\ \A i \in wanted : rows[f[i]] = Row(agent.messages[i])
      /\ \A i, j \in wanted : i < j => f[i] < f[j]
  <2>1. \A i \in wanted : f[i] = g[i] /\ i \in Covered /\ g[i] \in DOMAIN Slots(rows, events)
    BY <1>2, <1>4, <1>5
  <2> QED BY <1>3, <1>4, <1>5, <2>1
<1>7. \A shown : Folds(shown, wanted, rows, last) => \A i \in wanted : i <= shown[last]
  BY <1>2, <1>6, FoldReaches
<1>8. PICK any : Folds(any, wanted, rows, last)
  BY <1>2, FoldExists
<1> QED BY <1>7, <1>8 DEF HeldIsShown, Folds, wanted, rows, last

-----------------------------------------------------------------------------
(* The theorems. *)

\* The invariant holds of an application that was just started,
LEMMA InitInv ==
    ASSUME Init PROVE Inv
<1>1. Types
  <2>1. AgentType
    <3>1. PICK model \in InitialModels :
            agent = [phase |-> "idle", messages |-> <<>>, steering |-> <<>>,
                     followUp |-> <<>>, model |-> model]
      BY DEF Init
    <3>2. model \in Models \cup {NoModel}
      BY AppAssumption DEF NoModel
    <3>3. <<>> \in Seq(Messages) /\ <<>> \in Seq(Prompts)
      OBVIOUS
    <3> QED BY <3>1, <3>2, <3>3 DEF AgentType
  <2>2. EventsType /\ UsedType /\ ExtensionsType /\ UiType
    <3>1. EventsType /\ UsedType
      <4>1. events = <<>> /\ used = [keys |-> 0, calls |-> 0]
        BY DEF Init
      <4> QED BY <4>1 DEF EventsType, UsedType
    <3>2. ExtensionsType
      <4>1. PICK v \in Versions : extensions = [disk |-> v, loaded |-> v]
        BY DEF Init
      <4> QED BY <4>1 DEF ExtensionsType
    <3>3. UiType
      BY DEF Init, UiType, Typed
    <3> QED BY <3>1, <3>2, <3>3
  <2>3. OpType
    BY DEF Init, OpType, Operation, Resting, Typed
  <2>4. ViewType
    <3>1. <<WelcomeRow>> \in Seq(AllRows)
      BY DEF AllRows
    <3> QED BY <3>1 DEF Init, ViewType, Views
  <2>5. SessionType
    <3>1. session = [id |-> 1, next |-> 2, files |-> [i \in 1 .. MaxSessions |-> NoFile]]
      BY DEF Init
    <3>2. 1 \in 1 .. MaxSessions
      BY AppAssumption
    <3> QED BY <3>1, <3>2 DEF SessionType
  <2> QED BY <2>1, <2>2, <2>3, <2>4, <2>5 DEF Types
<1>2. op.at = "none" /\ op.kind = "none" /\ Idle /\ events = <<>> /\ agent.messages = <<>>
  <2>1. op.at = "none" /\ op.kind = "none" /\ events = <<>>
    BY DEF Init, Operation
  <2>2. Idle /\ agent.messages = <<>>
    <3>1. PICK model \in InitialModels :
            agent = [phase |-> "idle", messages |-> <<>>, steering |-> <<>>,
                     followUp |-> <<>>, model |-> model]
      BY DEF Init
    <3> QED BY <3>1 DEF Idle
  <2> QED BY <2>1, <2>2
<1>3. ui.task = "none" /\ ui.at = "drain" /\ ui.picker = "none" /\ view.status = "idle"
  BY DEF Init
<1>4. Control /\ Streams
  BY <1>2, <1>3 DEF Control, Streams, At, Resting, Working
<1>5. InPlace(view)
  <2>1. /\ view.rows = <<WelcomeRow>> /\ Len(view.rows) = 1 /\ view.rows[1] = WelcomeRow
        /\ view.streaming = 0 /\ view.tools = {}
    BY DEF Init
  <2>2. ~OpenText(WelcomeRow) /\ ~OpenCall(WelcomeRow)
    BY DEF OpenText, OpenCall, WelcomeRow, TextRows, ToolRows
  <2> QED BY <2>1, <2>2 DEF InPlace
<1>6. Shape
  <2>1. view.streaming = 0 /\ view.tools = {}
    BY DEF Init
  <2> QED BY <1>2, <1>3, <1>5, <2>1 DEF Shape, Unbroken, Continued, Closed, StatusGoesBack
<1>7. Shown
  <2>1. Covered = {}
    BY <1>2 DEF Covered
  <2>2. PICK s : s = Slots(view.rows, events)
    OBVIOUS
  <2>3. [i \in {} |-> 0] \in [{} -> DOMAIN s]
    OBVIOUS
  <2> QED BY <2>1, <2>2, <2>3 DEF Shown, Placed
<1> QED BY <1>1, <1>4, <1>6, <1>7 DEF Inv

\* and every step keeps it.
LEMMA NextInv ==
    ASSUME Inv, [Next]_vars PROVE Inv'
<1>1. CASE UNCHANGED vars
  <2>1. Types'
    BY <1>1, KeptTypes DEF vars, Inv, Types
  <2>2. Control' /\ Streams'
    BY <1>1 DEF vars, Inv, Control, Streams, At, Idle
  <2>3. Shape'
    BY <1>1 DEF vars, Inv, Shape, InPlace, Unbroken, Continued, Closed, TextGoesOn, CallGoesOn,
                TextOn, CallOn, AtWork, StatusGoesBack
  <2>4. Shown'
    BY <1>1 DEF vars, Inv, Shown, Covered, Announced
  <2> QED BY <2>1, <2>2, <2>3, <2>4 DEF Inv
<1> QED BY <1>1, DriveKeeps, PanicKeeps, UiKeeps DEF Next

\* It is an invariant.
LEMMA Invariance == Spec => []Inv
<1>1. Init => Inv
  BY InitInv
<1>2. Inv /\ [Next]_vars => Inv'
  BY NextInv
<1> QED BY <1>1, <1>2, PTL DEF Spec

\* Whenever the agent is idle and its events are drained, every message that
\* counts is on the screen, in order, no row streams or runs on and, once the
\* operation is reaped, the status is at rest (AppState::apply_event against the
\* transcript of AgentRun); and a reaped operation has released the agent.
THEOREM ViewTrue == Spec => []ViewIsTrue
<1>1. Inv => ViewIsTrue
  BY InvTypeOK, InvSettled, InvHeldIsShown, InvReaped DEF Inv, ViewIsTrue
<1> QED BY <1>1, Invariance, PTL

\* What a step that changes the files on disk has written.
LEMMA StepSavesSettled ==
    ASSUME Inv, [Next]_vars, session'.files # session.files
    PROVE  /\ Idle
           /\ session'.files = [session.files EXCEPT ![session.id] = agent.messages]
           /\ ui.at = "reap" => op.outcome = "ok"
<1>1. \A r \in PersistResults :
        /\ r.session.files # session.files => Idle /\ r.session = Saved /\ r.saved
        /\ r.session \in {session, Saved}
  BY DEF PersistResults
<1>2. /\ Saved.files = [session.files EXCEPT ![session.id] = agent.messages]
      /\ session \in [id : 1 .. MaxSessions, next : Nat \ {0},
                     files : [1 .. MaxSessions -> Seq(Messages) \cup {NoFile}]]
  BY DEF Saved, Inv, Types, SessionType
<1>3. CASE ReapSuccess
  BY <1>1, <1>2, <1>3 DEF ReapSuccess
<1>4. CASE NewSession
  <2>1. PICK r \in PersistResults :
          \/ session' = [r.session EXCEPT !.id = session.next, !.next = r.session.next + 1]
          \/ UNCHANGED session
    BY <1>4 DEF NewSession
  <2>2. session'.files = r.session.files
    BY <1>1, <1>2, <2>1 DEF Saved
  <2>3. ui.at = "poll"
    BY <1>4 DEF NewSession, IdleCommand, Command, Typing, Pressed
  <2> QED BY <1>1, <1>2, <2>2, <2>3
<1>5. ASSUME NEW i \in 1 .. MaxSessions, Resume(i) PROVE FALSE
  BY <1>2, <1>5 DEF Resume
<1>6. ReapSuccess \/ NewSession \/ \E i \in 1 .. MaxSessions : Resume(i)
  <2>1. session' # session
    OBVIOUS
  <2>3. ~Drive /\ ~OperationPanics
    BY <2>1, DriveIsOffUi DEF OffUi
  <2> QED BY <2>1, <2>3
          DEF Next, vars, Loop, Keys, Drain, ReapFailure, ReapDisconnected, NothingToReap, NoKey,
              StartPrompt, Enqueue,
              Type, FollowUp, Submit, ControlC, Quit, Compact, Reload, Clear,
              RefusedCommand, OpenPicker, ResumeRefused, ClosePicker, SelectModel
<1> QED BY <1>3, <1>4, <1>5, <1>6

\* What /new has done with the conversation it leaves.
LEMMA StepKeepsOld ==
    ASSUME Inv, [Next]_vars, session'.next # session.next
    PROVE  agent.messages = <<>> \/ session'.files[session.id] = agent.messages
<1>1. session \in [id : 1 .. MaxSessions, next : Nat \ {0},
                  files : [1 .. MaxSessions -> Seq(Messages) \cup {NoFile}]]
  BY DEF Inv, Types, SessionType
<1>2. NewSession
  <2>1. session' # session
    OBVIOUS
  <2>3. ~Drive /\ ~OperationPanics
    BY <2>1, DriveIsOffUi DEF OffUi
  <2>4. ~ReapSuccess
    BY <1>1 DEF ReapSuccess, PersistResults, Saved
  <2>5. \A i \in 1 .. MaxSessions : ~Resume(i)
    BY <1>1 DEF Resume
  <2> QED BY <2>1, <2>3, <2>4, <2>5
          DEF Next, vars, Loop, Keys, Drain, ReapFailure, ReapDisconnected, NothingToReap, NoKey,
              StartPrompt, Enqueue,
              Type, FollowUp, Submit, ControlC, Quit, Compact, Reload, Clear,
              RefusedCommand, OpenPicker, ResumeRefused, ClosePicker, SelectModel
<1>3. PICK r \in PersistResults :
        /\ r.saved
        /\ session' = [r.session EXCEPT !.id = session.next, !.next = r.session.next + 1]
  BY <1>2 DEF NewSession
<1>4. Idle
  BY <1>2 DEF NewSession, IdleCommand
<1>5. r.session \in {session, Saved} /\ (agent.messages # <<>> => r.session = Saved)
  BY <1>3, <1>4 DEF PersistResults
<1>6. Saved.files[session.id] = agent.messages /\ session'.files = r.session.files
  BY <1>1, <1>3, <1>5 DEF Saved
<1> QED BY <1>5, <1>6

\* persist_session writes the whole conversation of an idle agent under its own
\* identifier, after an operation that succeeded or for /new, and /new leaves no
\* conversation that is not on disk.
THEOREM SavesSafe == Spec => SavesAreSafe
<1> DEFINE Settled == session'.files # session.files =>
                        /\ Idle
                        /\ session'.files = [session.files EXCEPT ![session.id] = agent.messages]
                        /\ ui.at = "reap" => op.outcome = "ok"
           Kept == session'.next # session.next =>
                     agent.messages = <<>> \/ session'.files[session.id] = agent.messages
<1>1. Inv /\ [Next]_vars => [Settled]_vars
  BY StepSavesSettled
<1>2. Inv /\ [Next]_vars => [Kept]_vars
  BY StepKeepsOld
<1>3. SavesAreSettled <=> [][Settled]_vars
  BY PTL DEF SavesAreSettled
<1>4. NewKeepsOld <=> [][Kept]_vars
  BY PTL DEF NewKeepsOld
<1> QED BY <1>1, <1>2, <1>3, <1>4, Invariance, PTL DEF Spec, SavesAreSafe

\* What a step that reaps a failed run leaves in the composer.
LEMMA StepGivesBack ==
    ASSUME Inv, [Next]_vars, ~UNCHANGED vars,
           ui.at = "reap", Ready, op.kind = "run", op.outcome # "ok"
    PROVE  ui'.composer # "" /\ (ui.composer # "" => ui'.composer = ui.composer)
<1>1. ui.prompt # "" /\ UiType
  BY DEF Inv, Types, Control, Ready
<1>2. CASE ReapFailure
  BY <1>1, <1>2 DEF ReapFailure, UiType
<1>3. ReapFailure
  <2>1. op.at = "sent"
    BY DEF Ready
  <2>2. ~Drive /\ ~OperationPanics
    BY <2>1, DriveIsOffUi
  <2> QED BY <2>1, <2>2
          DEF Next, vars, Loop, Keys, Drain, ReapSuccess, ReapDisconnected, NothingToReap, NoKey,
              StartPrompt, Enqueue,
              Type, FollowUp, Submit, ControlC, Quit, Compact, Reload, Clear, NewSession, Resume,
              RefusedCommand, OpenPicker, ResumeRefused, ClosePicker, SelectModel, IdleCommand, Command,
              Typing, Pressed, Disconnected
<1> QED BY <1>2, <1>3

\* reap_task: the prompt of a run that failed or was cancelled is in the
\* composer afterwards, unless a draft is, which then stays.
THEOREM PromptBack == Spec => PromptComesBack
<1> DEFINE Back == ui.at = "reap" /\ Ready /\ op.kind = "run" /\ op.outcome # "ok" =>
                     ui'.composer # "" /\ (ui.composer # "" => ui'.composer = ui.composer)
<1>1. Inv /\ [Next]_vars => [Back]_vars
  BY StepGivesBack
<1>2. PromptComesBack <=> [][Back]_vars
  BY PTL DEF PromptComesBack
<1> QED BY <1>1, <1>2, Invariance, PTL DEF Spec

=============================================================================
