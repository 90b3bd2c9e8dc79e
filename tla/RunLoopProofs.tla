---------------------------- MODULE RunLoopProofs ----------------------------
(* What a run of the agent keeps, whatever the provider answers, the tools  *)
(* and hooks return, observers refuse and the host does meanwhile, for any  *)
(* agent, transcript, number of turns, calls and messages.                  *)
EXTENDS RunLoop, SequenceTheorems, FiniteSetTheorems, TLAPS

Call == Nat \X Nat
Message == [role : {"user", "assistant", "tool_result", "summary"},
            id : Nat \ {0}, stop : StopReasons \cup {"None"},
            calls : Seq(Call), input : Nat]
\* What an event is about.
Subject == Nat \cup Call
           \cup {"none", "threshold", "overflow", "compaction", "breaker"}
Kinds == {"agent_start", "turn_start", "message_start", "message_update",
          "message_end", "tool_execution_start", "tool_execution_end",
          "automatic_compaction_start", "automatic_compaction_end",
          "provider_request_skipped", "turn_end", "agent_end"}
Item == [kind : Kinds, of : Subject]

\* The types of all variables, the locals of the loop included.
AgentType ==
    /\ messages \in Seq(Message) /\ nextId \in Nat \ {0}
    /\ pendingTools \subseteq Call /\ isStreaming \in BOOLEAN
QueueType ==
    /\ steering \in Seq(1 .. MaxInput)
    /\ followUp \in Seq(MaxInput + 1 .. 2 * MaxInput)
    /\ offered \in 0 .. MaxInput
RunType ==
    /\ scenario \in Scenarios
    /\ runPhase \in {"Created", "Running"} \cup Terminal
    /\ turn \in Nat /\ token \in BOOLEAN
LogType == events \in Seq(Item) /\ out \in Seq(Item) /\ reported \subseteq Nat
DriveType ==
    /\ pc \in Labels /\ settling \in BOOLEAN
    /\ error \in {"none", "observer", "provider", "stream", "hook",
                  "cancelled", "compaction"}
LoopLocals ==
    [assistant : Nat, calls : Seq(Call),
     reason : StopReasons \cup {"Overflow", "None"},
     requestCount : Nat, completed : BOOLEAN, more : BOOLEAN,
     queued : Seq(Nat), compacting : {"none", "threshold", "overflow"}]
LoopType ==
    /\ loop \in LoopLocals
    /\ pc \in {"streaming", "response"} => loop.requestCount <= Len(messages)
BatchLocals ==
    [mode : {"none", "sequential", "parallel", "truncated"},
     announced : Nat, ended : SUBSET Nat, answered : Nat, observed : Nat,
     terminate : BOOLEAN, tripped : BOOLEAN]
BatchType ==
    /\ batch \in BatchLocals
    /\ batch.observed <= batch.answered /\ batch.ended \subseteq 1 .. batch.announced
    /\ pc = "tools" => batch.announced <= Len(loop.calls)
PolicyType ==
    /\ policy \in [compactions : 0 .. MaxCompactions, retries : 0 .. MaxOverflowRetries,
                   retried : BOOLEAN, cancelled : BOOLEAN, blocked : Nat]
    /\ snapshot \in Seq(Message)
TypeInv == /\ AgentType /\ QueueType /\ RunType /\ LogType
           /\ DriveType /\ LoopType /\ BatchType /\ PolicyType

\* A drive that is about to settle its run has published, or is publishing, the
\* agent_end that closes the log.
EndLabels == Terminal \cup {"model_failed", "settled"}
EndsIn(s) == s # <<>> /\ s[Len(s)].kind = "agent_end"
Closes ==
    /\ Done <=> pc = "settled"
    /\ pc = "settled" => out = <<>>
    /\ pc \in EndLabels => IF out = <<>> THEN EndsIn(events) ELSE EndsIn(out)
    /\ settling => pc \in Terminal \cup {"settled"}

\* What an uncommitted compaction started from is the transcript until the run
\* settles, and all but the last message of it then.
Keeps ==
    snapshot # <<>> =>
        /\ pc \in {"compacting", "errored", "settled"} \cup Terminal
        /\ pc \in {"compacting", "errored"} => messages = snapshot
        /\ pc \notin {"compacting", "errored"} =>
             /\ settling
             /\ messages = snapshot \/ messages = Append(snapshot, LastMessage)

\* Where a log tells of the retry of an overflow, and which of these retries no
\* turn followed.
StartsIn(log) == {i \in 1 .. Len(log) : /\ log[i].kind = "automatic_compaction_start"
                                        /\ log[i].of = "overflow"}
Separated(log) ==
    \A i, j \in StartsIn(log) : i < j => \E k \in i .. j : log[k].kind = "turn_start"
Open(log) ==
    {i \in StartsIn(log) : \A k \in i .. Len(log) : log[k].kind # "turn_start"}

\* An overflow that no turn followed yet was retried once already, unless a
\* response without overflow has ended the retry.
AfterResponse == {"tools", "prepare", "drain", "drain_follow_up", "next",
                  "errored"} \cup EndLabels
ToRetry == pc = "compact" /\ loop.compacting = "overflow"
Bounds ==
    /\ Cardinality(StartsIn(Log)) + (IF ToRetry THEN 1 ELSE 0) <= policy.retries
    /\ Separated(Log)
    /\ ToRetry => policy.retried /\ Open(Log) = {}
    /\ \/ Open(Log) = {} \/ policy.retried \/ pc \in AfterResponse
       \/ pc = "response" /\ loop.reason # "Overflow"

\* Every call of an earlier response has its result; in a batch, each call of
\* the last one that was answered.
RestLabels == {"created", "initial_drain", "inject", "boundary", "request",
               "compact", "compacting", "prepare", "drain", "drain_follow_up",
               "next", "Succeeded"}
Request_ == SubSeq(messages, 1, loop.requestCount)
Answered == {loop.calls[i] : i \in 1 .. batch.answered}
Asks ==
    /\ pc \in RestLabels => Compactable(messages)
    /\ pc \in {"streaming", "response"} => Compactable(Request_)
    /\ pc = "streaming" =>
         \/ loop.assistant = 0 /\ messages = Request_
         \/ /\ loop.assistant # 0
            /\ messages = Append(Request_, Assistant(loop.assistant, "None", <<>>))
    /\ pc = "response" =>
         \E stop \in StopReasons :
            messages = Append(Request_, Assistant(loop.assistant, stop, loop.calls))
    /\ pc = "tools" =>
         /\ loop.requestCount <= Len(messages)
         /\ batch.answered <= Len(loop.calls)
         /\ CallsOf(messages) = CallsOf(Request_) \cup RangeOf(loop.calls)
         /\ ResultsOf(messages) = CallsOf(Request_) \cup Answered
    /\ runPhase = "Succeeded" => Compactable(messages)

RunInv == TypeInv /\ Closes /\ Keeps /\ Bounds /\ Asks

-----------------------------------------------------------------------------
LEMMA ScenarioFacts ==
    ASSUME scenario \in Scenarios
    PROVE  /\ {Durable, Prompts, MaxCompactions, MaxOverflowRetries, MaxTurn,
               MaxCalls, MaxInput} \subseteq Nat
           /\ Responses \subseteq StopReasons \cup {"Overflow"}
           /\ {SkipInitialSteering, AutoCompaction, OverflowRecovery,
               HasCompactor} \subseteq BOOLEAN
BY ScenarioAssumption
   DEF Durable, Prompts, MaxCompactions, MaxOverflowRetries, MaxTurn, MaxCalls,
       MaxInput, Responses, SkipInitialSteering, AutoCompaction, OverflowRecovery,
       HasCompactor

LEMMA MakeMessage ==
    /\ \A id \in Nat \ {0}, input \in Nat : User(id, input) \in Message
    /\ \A id \in Nat \ {0}, stop \in StopReasons \cup {"None"}, calls \in Seq(Call) :
         Assistant(id, stop, calls) \in Message
    /\ \A id \in Nat \ {0}, call \in Call : ToolResult(id, call) \in Message
    /\ \A id \in Nat \ {0} : Summary(id) \in Message
BY DEF User, Assistant, ToolResult, Summary, Message

LEMMA MakeEvent ==
    /\ \A of \in Subject, kind \in Kinds : Event(kind, of) \in Item
    /\ \A id \in Nat : Published(id) \in Seq(Item)
    /\ AgentEnd \in Seq(Item)
    /\ turn \in Nat => TurnEnd \in Seq(Item) /\ EndOfRun \in Seq(Item)
<1>1. \A of \in Subject, kind \in Kinds : Event(kind, of) \in Item
  BY DEF Event, Item
<1>2. Nat \subseteq Subject
  BY DEF Subject
<1>3. \A id \in Nat : Published(id) \in Seq(Item)
  <2>1. \A id \in Nat : /\ Event("message_start", id) \in Item
                        /\ Event("message_end", id) \in Item
    BY <1>2 DEF Event, Item, Kinds
  <2> QED
    BY <2>1 DEF Published
<1>4. AgentEnd \in Seq(Item)
  <2>1. Event("agent_end", 0) \in Item
    BY <1>2 DEF Event, Item, Kinds
  <2> QED
    BY <2>1 DEF AgentEnd
<1>5. turn \in Nat => TurnEnd \in Seq(Item)
  <2>1. turn \in Nat => Event("turn_end", turn) \in Item
    BY <1>2 DEF Event, Item, Kinds
  <2> QED
    BY <2>1 DEF TurnEnd
<1> QED
  BY <1>1, <1>3, <1>4, <1>5, ConcatProperties DEF EndOfRun

\* The tail of a sequence after its first n elements.
LEMMA AfterType ==
    ASSUME NEW S, NEW s \in Seq(S), NEW n \in Nat
    PROVE  After(s, n) \in Seq(S)
<1>1. \A i \in n + 1 .. Len(s) : s[i] \in S
  OBVIOUS
<1> QED
  BY <1>1, SubSeqProperties DEF After

\* The prefix of n elements.
LEMMA PrefixType ==
    ASSUME NEW S, NEW s \in Seq(S), NEW n \in Nat, n <= Len(s)
    PROVE  /\ SubSeq(s, 1, n) \in Seq(S) /\ Len(SubSeq(s, 1, n)) = n
           /\ \A i \in 1 .. n : SubSeq(s, 1, n)[i] = s[i]
<1>1. \A i \in 1 .. n : s[i] \in S
  OBVIOUS
<1> QED
  BY <1>1, SubSeqProperties

LEMMA NonEmpty ==
    ASSUME NEW S, NEW s \in Seq(S)
    PROVE  s # <<>> <=> Len(s) > 0
<1>1. s # <<>> => Len(s) > 0
  BY EmptySeq
<1>2. s = <<>> => Len(s) = 0
  BY EmptySeq
<1> QED
  BY <1>1, <1>2

\* Where the last element of a sequence is once the first is taken.
LEMMA TailLast ==
    ASSUME NEW S, NEW s \in Seq(S), s # <<>>
    PROVE  IF Tail(s) = <<>> THEN s[Len(s)] = Head(s)
                             ELSE Tail(s)[Len(Tail(s))] = s[Len(s)]
<1>1. /\ Len(s) \in Nat \ {0} /\ Tail(s) \in Seq(S) /\ Len(Tail(s)) = Len(s) - 1
      /\ \A i \in 1 .. Len(Tail(s)) : Tail(s)[i] = s[i + 1]
  BY EmptySeq, HeadTailProperties
<1>2. Head(s) = s[1]
  OBVIOUS
<1>3. CASE Tail(s) = <<>>
  <2>1. Len(s) - 1 = 0 /\ Len(s) \in Nat
    BY <1>1, <1>3, EmptySeq
  <2>2. Len(s) = 1
    BY <2>1
  <2> QED
    BY <1>2, <1>3, <2>2
<1>4. CASE Tail(s) # <<>>
  <2>1. Len(Tail(s)) > 0 /\ Len(Tail(s)) \in Nat
    BY <1>1, <1>4, NonEmpty
  <2>2. Len(Tail(s)) \in 1 .. Len(Tail(s))
    BY <2>1
  <2>3. Tail(s)[Len(Tail(s))] = s[Len(Tail(s)) + 1]
    BY <1>1, <2>2
  <2> QED
    BY <1>1, <1>4, <2>3
<1> QED
  BY <1>3, <1>4

\* What was there before an append.
LEMMA AppendPrefix ==
    ASSUME NEW S, NEW s \in Seq(S), NEW x \in S
    PROVE  /\ SubSeq(Append(s, x), 1, Len(s)) = s
           /\ \A n \in 0 .. Len(s) : SubSeq(Append(s, x), 1, n) = SubSeq(s, 1, n)
<1>1. /\ Append(s, x) \in Seq(S) /\ Len(Append(s, x)) = Len(s) + 1 /\ Len(s) \in Nat
      /\ \A i \in 1 .. Len(s) : Append(s, x)[i] = s[i]
  BY AppendProperties, LenProperties
<1>2. ASSUME NEW n \in 0 .. Len(s) PROVE SubSeq(Append(s, x), 1, n) = SubSeq(s, 1, n)
  <2>1. /\ SubSeq(Append(s, x), 1, n) \in Seq(S) /\ Len(SubSeq(Append(s, x), 1, n)) = n
        /\ \A i \in 1 .. n : SubSeq(Append(s, x), 1, n)[i] = Append(s, x)[i]
    BY <1>1, PrefixType
  <2>2. /\ SubSeq(s, 1, n) \in Seq(S) /\ Len(SubSeq(s, 1, n)) = n
        /\ \A i \in 1 .. n : SubSeq(s, 1, n)[i] = s[i]
    BY <1>1, PrefixType
  <2>3. \A i \in 1 .. n : SubSeq(Append(s, x), 1, n)[i] = SubSeq(s, 1, n)[i]
    BY <1>1, <2>1, <2>2
  <2> QED
    BY <2>1, <2>2, <2>3, SeqEqual
<1>3. SubSeq(s, 1, Len(s)) = s
  BY SubSeqFull
<1> QED
  BY <1>1, <1>2, <1>3

LEMMA RangeType ==
    ASSUME NEW S, NEW s \in Seq(S)
    PROVE  RangeOf(s) \subseteq S /\ RangeOf(s) = {s[i] : i \in 1 .. Len(s)}
BY LenProperties DEF RangeOf

LEMMA ReplacedType ==
    ASSUME NEW S, NEW s \in Seq(S), NEW x \in S
    PROVE  /\ Replaced(s, x) \in Seq(S) /\ Len(Replaced(s, x)) = Len(s)
           /\ \A i \in 1 .. Len(s) : Replaced(s, x)[i] = IF i = Len(s) THEN x ELSE s[i]
<1>1. CASE s = <<>>
  <2>1. s \in [1 .. 0 -> S]
    BY <1>1
  <2>2. Replaced(s, x) \in [1 .. 0 -> S]
    BY <2>1 DEF Replaced
  <2>3. Replaced(s, x) \in Seq(S)
    BY <2>2, SeqDef
  <2> QED
    BY <1>1, <2>2, <2>3, LenProperties, EmptySeq
<1>2. CASE s # <<>>
  <2>1. Len(s) \in 1 .. Len(s)
    BY <1>2, EmptySeq
  <2> QED
    BY <2>1, ExceptSeq DEF Replaced
<1> QED
  BY <1>1, <1>2

\* Replacing what was appended.
LEMMA ReplacedLast ==
    ASSUME NEW S, NEW s \in Seq(S), NEW x \in S, NEW y \in S
    PROVE  Replaced(Append(s, x), y) = Append(s, y)
<1>1. /\ Append(s, x) \in Seq(S) /\ Len(Append(s, x)) = Len(s) + 1 /\ Len(s) \in Nat
      /\ \A i \in 1 .. Len(s) : Append(s, x)[i] = s[i]
  BY AppendProperties, LenProperties
<1>2. /\ Append(s, y) \in Seq(S) /\ Len(Append(s, y)) = Len(s) + 1
      /\ \A i \in 1 .. Len(s) : Append(s, y)[i] = s[i]
      /\ Append(s, y)[Len(s) + 1] = y
  BY AppendProperties, LenProperties
<1> DEFINE old == Append(s, x)
           new == Append(s, y)
<1> HIDE DEF old, new
<1>3. old \in Seq(S) /\ Len(old) = Len(s) + 1
  BY <1>1 DEF old
<1>4. /\ Replaced(old, y) \in Seq(S) /\ Len(Replaced(old, y)) = Len(s) + 1
      /\ \A i \in 1 .. Len(s) + 1 :
           Replaced(old, y)[i] = IF i = Len(s) + 1 THEN y ELSE old[i]
  <2>1. /\ Replaced(old, y) \in Seq(S) /\ Len(Replaced(old, y)) = Len(old)
        /\ \A i \in 1 .. Len(old) :
             Replaced(old, y)[i] = IF i = Len(old) THEN y ELSE old[i]
    <3>1. Len(old) \in 1 .. Len(old)
      BY <1>1, <1>3
    <3> QED
      BY <1>3, <3>1, ExceptSeq DEF Replaced
  <2> QED
    BY <1>3, <2>1
<1>5. \A i \in 1 .. Len(s) + 1 : Replaced(old, y)[i] = new[i]
  BY <1>1, <1>2, <1>4 DEF old, new
<1>6. Replaced(old, y) = new
  BY <1>2, <1>4, <1>5, SeqEqual DEF new
<1> QED
  BY <1>6 DEF old, new

\* What a queue gives up and what it keeps are parts of it.
LEMMA DrainType ==
    ASSUME NEW S, NEW queue \in Seq(S), NEW mode
    PROVE  Taken(queue, mode) \in Seq(S) /\ Left(queue, mode) \in Seq(S)
BY HeadTailProperties DEF Taken, Left

-----------------------------------------------------------------------------
LEMMA TypeInit == Init => TypeInv
<1> SUFFICES ASSUME Init PROVE TypeInv
  OBVIOUS
<1>1. scenario \in Scenarios
  BY DEF Init
<1> Durable \in Nat /\ Prompts \in Nat /\ MaxInput \in Nat
    /\ MaxCompactions \in Nat /\ MaxOverflowRetries \in Nat
  BY <1>1, ScenarioFacts
<1>2. AgentType
  <2>1. messages \in [1 .. Durable + Prompts -> Message]
    <3>1. \A i \in 1 .. Durable + Prompts :
            /\ User(i, 0) \in Message /\ Assistant(i, "Stop", <<>>) \in Message
      BY EmptySeq DEF User, Assistant, Message, StopReasons
    <3> QED
      BY <3>1 DEF Init
  <2>2. messages \in Seq(Message)
    BY <2>1, SeqDef
  <2>3. isStreaming \in BOOLEAN
    BY DEF Init
  <2> QED
    BY <2>2, <2>3 DEF Init, AgentType
<1>3. QueueType /\ LogType
  BY DEF Init, QueueType, LogType
<1>4. RunType
  <2>1. token \in BOOLEAN
    BY DEF Init
  <2> QED
    BY <1>1, <2>1 DEF Init, RunType
<1>5. DriveType
  BY DEF Init, DriveType, Labels
<1>6. LoopType /\ BatchType /\ PolicyType
  BY DEF Init, LoopType, LoopLocals, BatchType, BatchLocals, PolicyType, NoBatch
<1> QED
  BY <1>2, <1>3, <1>5, <1>6, <1>4 DEF TypeInv

\* The properties' own type invariant.
LEMMA TypeImplied == TypeInv => TypeOK
<1> SUFFICES ASSUME TypeInv PROVE TypeOK
  OBVIOUS
<1>1. /\ batch.mode \in {"none", "sequential", "parallel", "truncated"}
      /\ policy.compactions <= MaxCompactions /\ policy.retries <= MaxOverflowRetries
  <2>1. MaxCompactions \in Nat /\ MaxOverflowRetries \in Nat
    BY ScenarioFacts DEF TypeInv, RunType
  <2> QED
    BY <2>1 DEF TypeInv, BatchType, BatchLocals, PolicyType
<1> QED
  BY <1>1 DEF TypeInv, AgentType, QueueType, RunType, LogType, DriveType, BatchType, BatchLocals,
              TypeOK, Message, Call

-----------------------------------------------------------------------------
\* The parameters of a run do not change.
LEMMA SameParameters ==
    ASSUME scenario' = scenario
    PROVE  /\ Durable' = Durable /\ Prompts' = Prompts /\ MaxInput' = MaxInput
           /\ MaxCompactions' = MaxCompactions /\ Faults' = Faults
           /\ MaxOverflowRetries' = MaxOverflowRetries /\ HostCalls' = HostCalls
BY DEF Durable, Prompts, MaxInput, MaxCompactions, Faults, MaxOverflowRetries, HostCalls

\* The events a step may publish.
LEMMA Outs ==
    ASSUME TypeInv
    PROVE  /\ {Published(nextId), AgentEnd, TurnEnd, EndOfRun, <<CompactionEnd>>,
               <<CompactionStart, SkippedEvent("compaction")>>,
               <<SkippedEvent("breaker")>> \o EndOfRun,
               <<Event("automatic_compaction_end", "overflow")>> \o EndOfRun,
               <<Event("message_start", nextId), Event("message_update", nextId)>>}
             \subseteq Seq(Item)
<1> nextId \in Nat /\ turn \in Nat /\ loop.compacting \in {"none", "threshold", "overflow"}
  BY DEF TypeInv, AgentType, RunType, LoopType, LoopLocals
<1>1. {Published(nextId), AgentEnd, TurnEnd, EndOfRun} \subseteq Seq(Item)
  BY MakeEvent
<1>2. /\ {CompactionEnd, CompactionStart, SkippedEvent("compaction"),
          SkippedEvent("breaker"), Event("automatic_compaction_end", "overflow"),
          Event("message_start", nextId), Event("message_update", nextId)} \subseteq Item
  BY DEF CompactionEnd, CompactionStart, SkippedEvent, Event, Item, Kinds, Subject
<1>3. /\ <<SkippedEvent("breaker")>> \in Seq(Item)
      /\ <<Event("automatic_compaction_end", "overflow")>> \in Seq(Item)
      /\ <<CompactionEnd>> \in Seq(Item)
      /\ <<CompactionStart, SkippedEvent("compaction")>> \in Seq(Item)
      /\ <<Event("message_start", nextId), Event("message_update", nextId)>> \in Seq(Item)
  BY <1>2
<1> QED
  BY <1>1, <1>3, ConcatProperties

LEMMA TypeSame ==
    ASSUME TypeInv, scenario' = scenario
    PROVE  /\ UNCHANGED agentVars => AgentType'
           /\ UNCHANGED queueVars => QueueType'
           /\ UNCHANGED <<runPhase, turn, token>> => RunType'
           /\ UNCHANGED <<logVars, out>> => LogType'
           /\ UNCHANGED <<pc, driveVars>> => DriveType'
           /\ UNCHANGED loop /\ (pc' \notin {"streaming", "response"} \/ UNCHANGED <<pc, messages>>)
                 => LoopType'
           /\ UNCHANGED batch /\ (pc' # "tools" \/ UNCHANGED <<pc, loop>>) => BatchType'
           /\ UNCHANGED policyVars => PolicyType'
BY SameParameters
   DEF TypeInv, AgentType, QueueType, RunType, LogType, DriveType, LoopType, LoopLocals,
       BatchType, PolicyType, agentVars, queueVars, logVars, driveVars, policyVars

LEMMA TypeStep == TypeInv /\ Next => TypeInv'
<1> SUFFICES ASSUME TypeInv, Next PROVE TypeInv'
  OBVIOUS
<1> USE DEF agentVars, queueVars, logVars, runVars, driveVars, localVars, policyVars,
            driverVars, Ready, Fail
<1> AgentType /\ QueueType /\ RunType /\ LogType /\ DriveType /\ LoopType
    /\ BatchType /\ PolicyType
  BY DEF TypeInv
<1> /\ {Durable, Prompts, MaxCompactions, MaxOverflowRetries, MaxTurn,
         MaxCalls, MaxInput} \subseteq Nat
    /\ Responses \subseteq StopReasons \cup {"Overflow"}
  BY ScenarioFacts DEF RunType
<1>1. CASE Emit
  <2>1. scenario' = scenario
    BY <1>1 DEF Emit
  <2>2. LogType'
    <3>1. /\ Append(events, Head(out)) \in Seq(Item) /\ Tail(out) \in Seq(Item)
      BY <1>1, HeadTailProperties, AppendProperties DEF Emit, LogType
    <3>2. NewMessages \subseteq Nat
      <4>1. RangeOf(After(messages, Durable)) \subseteq Message
        BY AfterType, RangeType DEF AgentType
      <4> QED
        BY <4>1 DEF NewMessages, Message
    <3>3. /\ events' = Append(events, Head(out)) /\ out' \in {Tail(out), <<>>}
          /\ reported' \in {NewMessages, reported}
      BY <1>1 DEF Emit
    <3> QED
      BY <3>1, <3>2, <3>3, EmptySeq DEF LogType
  <2>3. DriveType'
    BY <1>1 DEF Emit, DriveType, Labels, Terminal
  <2> QED
    BY <1>1, <2>1, <2>2, <2>3, TypeSame DEF Emit, TypeInv
<1>2. CASE Finish
  <2>1. scenario' = scenario
    BY <1>2 DEF Finish
  <2>2. AgentType'
    BY <1>2, <2>1, SameParameters DEF Finish, AgentType
  <2>3. RunType'
    BY <1>2, <2>1, SameParameters DEF Finish, RunType
  <2>4. DriveType'
    BY <1>2 DEF Finish, DriveType, Labels, Terminal
  <2> QED
    BY <1>2, <2>1, <2>2, <2>3, <2>4, TypeSame DEF Finish, TypeInv
<1>3. CASE Start
  <2>1. scenario' = scenario
    BY <1>3 DEF Start
  <2>2. RunType'
    BY <1>3, <2>1, SameParameters DEF Start, RunType
  <2>3. LogType'
    <3> DEFINE prompts == [i \in 1 .. 2 * Prompts |->
                 Event(IF i % 2 = 1 THEN "message_start" ELSE "message_end",
                       Durable + (i + 1) \div 2)]
    <3>1. \A i \in 1 .. 2 * Prompts : Durable + (i + 1) \div 2 \in Nat
      OBVIOUS
    <3>2. <<Event("agent_start", 0), Event("turn_start", 1)>> \in Seq(Item)
      BY DEF Event, Item, Kinds, Subject
    <3>3. prompts \in [1 .. 2 * Prompts -> Item]
      BY <3>1 DEF Event, Item, Kinds, Subject
    <3>4. /\ out' = <<Event("agent_start", 0), Event("turn_start", 1)>> \o prompts
          /\ events' = events /\ reported' = reported
      BY <1>3 DEF Start
    <3>5. 2 * Prompts \in Nat
      OBVIOUS
    <3> HIDE DEF prompts
    <3>6. prompts \in Seq(Item)
      BY <3>3, <3>5, SeqDef
    <3>7. out' \in Seq(Item)
      BY <3>2, <3>4, <3>6, ConcatProperties
    <3> QED
      BY <3>4, <3>7 DEF LogType
  <2>4. DriveType'
    BY <1>3 DEF Start, DriveType, Labels, Terminal
  <2> QED
    BY <1>3, <2>1, <2>2, <2>3, <2>4, TypeSame DEF Start, TypeInv
<1>4. CASE InitialDrain
  <2>1. scenario' = scenario
    BY <1>4 DEF InitialDrain
  <2>2. LoopType'
    <3>1. Taken(steering, SteeringMode) \in Seq(Nat)
      BY DrainType, SeqMonotonic DEF QueueType
    <3> QED
      BY <1>4, <3>1 DEF InitialDrain, LoopType, LoopLocals
  <2>3. QueueType'
    BY <1>4, <2>1, SameParameters, DrainType DEF InitialDrain, QueueType
  <2>4. DriveType'
    BY <1>4 DEF InitialDrain, DriveType, Labels, Terminal
  <2> QED
    BY <1>4, <2>1, <2>2, <2>3, <2>4, TypeSame DEF InitialDrain, TypeInv
<1>5. CASE Inject
  <2>1. scenario' = scenario
    BY <1>5 DEF Inject
  <2>2. AgentType'
    <3>1. User(nextId, Head(loop.queued)) \in Message
      BY <1>5, MakeMessage, HeadTailProperties DEF Inject, AgentType, LoopType, LoopLocals
    <3> QED
      BY <1>5, <3>1, AppendProperties DEF Inject, AgentType
  <2>3. LoopType'
    BY <1>5, HeadTailProperties DEF Inject, LoopType, LoopLocals
  <2>4. LogType'
    BY <1>5, Outs DEF Inject, LogType
  <2> QED
    BY <1>5, <2>1, <2>2, <2>3, <2>4, TypeSame DEF Inject, TypeInv
<1>6. CASE Injected
  <2>1. scenario' = scenario
    BY <1>6 DEF Injected
  <2>2. DriveType'
    BY <1>6 DEF Injected, DriveType, Labels, Terminal
  <2> QED
    BY <1>6, <2>1, <2>2, TypeSame DEF Injected, TypeInv
<1>7. CASE BelowThreshold
  <2>1. scenario' = scenario
    BY <1>7 DEF BelowThreshold
  <2>2. DriveType'
    BY <1>7 DEF BelowThreshold, DriveType, Labels, Terminal
  <2> QED
    BY <1>7, <2>1, <2>2, TypeSame DEF BelowThreshold, TypeInv
<1>8. CASE AboveThreshold
  <2>1. scenario' = scenario
    BY <1>8 DEF AboveThreshold
  <2>2. LoopType'
    BY <1>8, <2>1, SameParameters DEF AboveThreshold, LoopType, LoopLocals
  <2>3. DriveType'
    BY <1>8 DEF AboveThreshold, DriveType, Labels, Terminal
  <2> QED
    BY <1>8, <2>1, <2>2, <2>3, TypeSame DEF AboveThreshold, TypeInv
<1>9. CASE CompactionLimit
  <2>1. scenario' = scenario
    BY <1>9 DEF CompactionLimit, RefuseCompaction
  <2>2. PolicyType'
    BY <1>9, <2>1, SameParameters
       DEF CompactionLimit, RefuseCompaction, PolicyType, AgentType, RetryAllowed
  <2>3. LogType'
    BY <1>9, Outs DEF CompactionLimit, RefuseCompaction, LogType
  <2>4. DriveType'
    BY <1>9 DEF CompactionLimit, RefuseCompaction, DriveType, Labels, Terminal
  <2> QED
    BY <1>9, <2>1, <2>2, <2>3, <2>4, TypeSame DEF CompactionLimit, RefuseCompaction, TypeInv
<1>10. CASE StartCompaction
  <2>1. scenario' = scenario
    BY <1>10 DEF StartCompaction
  <2>2. PolicyType'
    <3>1. policy.compactions + 1 \in 0 .. MaxCompactions
      BY <1>10 DEF StartCompaction, PolicyType, RetryAllowed
    <3>2. /\ policy' = [policy EXCEPT !.compactions = policy.compactions + 1]
          /\ snapshot' \in Seq(Message)
      BY <1>10 DEF StartCompaction, PolicyType, AgentType
    <3> QED
      BY <2>1, <3>1, <3>2, SameParameters DEF PolicyType
  <2>3. LogType'
    BY <1>10, Outs DEF StartCompaction, LogType
  <2>4. DriveType'
    BY <1>10 DEF StartCompaction, DriveType, Labels, Terminal
  <2> QED
    BY <1>10, <2>1, <2>2, <2>3, <2>4, TypeSame DEF StartCompaction, TypeInv
<1>11. CASE CompactionFails
  <2>1. scenario' = scenario
    BY <1>11 DEF CompactionFails, RefuseCompaction
  <2>2. LogType'
    BY <1>11, Outs DEF CompactionFails, RefuseCompaction, LogType
  <2>3. DriveType'
    BY <1>11 DEF CompactionFails, RefuseCompaction, DriveType, Labels, Terminal
  <2> QED
    BY <1>11, <2>1, <2>2, <2>3, TypeSame DEF CompactionFails, RefuseCompaction, TypeInv
<1>12. CASE CompactionCancelled
  <2>1. scenario' = scenario
    BY <1>12 DEF CompactionCancelled, RefuseCompaction
  <2>2. PolicyType'
    BY <1>12, <2>1, SameParameters DEF CompactionCancelled, RefuseCompaction, PolicyType
  <2>3. LogType'
    BY <1>12, Outs DEF CompactionCancelled, RefuseCompaction, LogType
  <2>4. DriveType'
    BY <1>12 DEF CompactionCancelled, RefuseCompaction, DriveType, Labels, Terminal
  <2> QED
    BY <1>12, <2>1, <2>2, <2>3, <2>4, TypeSame DEF CompactionCancelled, RefuseCompaction, TypeInv
<1>13. CASE CommitReplacement
  <2>1. scenario' = scenario
    BY <1>13 DEF CommitReplacement
  <2>2. AgentType'
    <3>1. PICK k \in 0 .. Len(messages) :
            messages' = <<Summary(nextId)>> \o After(messages, k)
      BY <1>13 DEF CommitReplacement, Replacements
    <3>2. After(messages, k) \in Seq(Message) /\ Summary(nextId) \in Message
      BY AfterType, MakeMessage DEF AgentType
    <3>3. messages' \in Seq(Message)
      BY <3>1, <3>2, ConcatProperties
    <3> QED
      BY <1>13, <3>3 DEF CommitReplacement, AgentType
  <2>3. PolicyType'
    BY <1>13, <2>1, SameParameters DEF CommitReplacement, PolicyType
  <2>4. LogType'
    BY <1>13, Outs DEF CommitReplacement, LogType
  <2>5. LoopType'
    BY <1>13, <2>1, SameParameters DEF CommitReplacement, LoopType, LoopLocals
  <2>6. DriveType'
    BY <1>13 DEF CommitReplacement, DriveType, Labels, Terminal
  <2> QED
    BY <1>13, <2>1, <2>2, <2>3, <2>4, <2>5, <2>6, TypeSame DEF CommitReplacement, TypeInv
<1>14. CASE Request
  <2>1. scenario' = scenario
    BY <1>14 DEF Request
  <2>2. AgentType'
    BY <1>14, <2>1, SameParameters DEF Request, AgentType
  <2>3. LoopType'
    <3>1. Len(messages) \in Nat /\ <<>> \in Seq(Call)
      BY LenProperties, EmptySeq DEF AgentType
    <3>2. /\ loop' = [loop EXCEPT !.requestCount = Len(messages), !.assistant = 0,
                                 !.calls = <<>>, !.reason = "None"]
          /\ messages' = messages
      BY <1>14 DEF Request
    <3>3. loop' \in LoopLocals
      BY <3>1, <3>2 DEF LoopType, LoopLocals
    <3>4. loop'.requestCount = Len(messages)
      BY <3>2 DEF LoopType, LoopLocals
    <3> QED
      BY <3>1, <3>2, <3>3, <3>4 DEF LoopType, LoopLocals
  <2>4. DriveType'
    BY <1>14 DEF Request, DriveType, Labels, Terminal
  <2> QED
    BY <1>14, <2>1, <2>2, <2>3, <2>4, TypeSame DEF Request, TypeInv
<1>15. CASE TextDelta
  <2>1. scenario' = scenario
    BY <1>15 DEF TextDelta
  <2>2. AgentType'
    <3>1. Assistant(nextId, "None", <<>>) \in Message
      BY MakeMessage, EmptySeq DEF AgentType
    <3> QED
      BY <1>15, <3>1, AppendProperties DEF TextDelta, AgentType
  <2>3. LoopType'
    <3>1. Assistant(nextId, "None", <<>>) \in Message
      BY MakeMessage, EmptySeq DEF AgentType
    <3>2. Len(messages') = Len(messages) + 1 /\ Len(messages) \in Nat
      BY <1>15, <3>1, AppendProperties, LenProperties DEF TextDelta, AgentType
    <3>3. loop' \in LoopLocals /\ loop'.requestCount = loop.requestCount
      BY <1>15 DEF TextDelta, LoopType, LoopLocals, AgentType
    <3>4. loop.requestCount \in Nat
      BY DEF LoopType, LoopLocals
    <3> QED
      BY <1>15, <3>2, <3>3, <3>4 DEF TextDelta, LoopType, LoopLocals
  <2>4. LogType'
    BY <1>15, Outs DEF TextDelta, LogType
  <2> QED
    BY <1>15, <2>1, <2>2, <2>3, <2>4, TypeSame DEF TextDelta, TypeInv
<1>16. CASE StreamFails
  <2>1. scenario' = scenario
    BY <1>16 DEF StreamFails
  <2>2. DriveType'
    BY <1>16 DEF StreamFails, DriveType, Labels, Terminal
  <2> QED
    BY <1>16, <2>1, <2>2, TypeSame DEF StreamFails, TypeInv
<1>17. ASSUME NEW reason \in Responses, NEW n \in 0 .. MaxCalls, StreamEnds(reason, n)
       PROVE  TypeInv'
  <2>1. scenario' = scenario
    BY <1>17 DEF StreamEnds
  <2>2. AgentType'
    <3> DEFINE id == IF loop.assistant = 0 THEN nextId ELSE loop.assistant
               calls == [k \in 1 .. n |-> <<id, k>>]
    <3>1. id \in Nat \ {0} /\ Stop(reason) \in StopReasons
      BY <1>17 DEF StreamEnds, AgentType, LoopType, LoopLocals, Stop, StopReasons
    <3>2. calls \in Seq(Call)
      <4>1. calls \in [1 .. n -> Call]
        BY <3>1 DEF Call
      <4> QED
        BY <4>1, SeqDef
    <3>3. Assistant(id, Stop(reason), calls) \in Message
      BY <3>1, <3>2, MakeMessage
    <3>4. /\ messages' \in {Append(messages, Assistant(id, Stop(reason), calls)),
                           Replaced(messages, Assistant(id, Stop(reason), calls))}
          /\ nextId' \in {nextId, nextId + 1} /\ pendingTools' = pendingTools
          /\ isStreaming' = FALSE
      BY <1>17 DEF StreamEnds
    <3> HIDE DEF id, calls
    <3>5. {Append(messages, Assistant(id, Stop(reason), calls)),
           Replaced(messages, Assistant(id, Stop(reason), calls))} \subseteq Seq(Message)
      BY <3>3, ReplacedType, AppendProperties DEF AgentType
    <3>6. messages' \in Seq(Message) /\ isStreaming' \in BOOLEAN
      BY <3>4, <3>5
    <3> QED
      BY <3>4, <3>6 DEF AgentType
  <2>3. LoopType'
    <3> DEFINE id == IF loop.assistant = 0 THEN nextId ELSE loop.assistant
               calls == [k \in 1 .. n |-> <<id, k>>]
    <3>1. id \in Nat \ {0} /\ Stop(reason) \in StopReasons
      BY <1>17 DEF StreamEnds, AgentType, LoopType, LoopLocals, Stop, StopReasons
    <3>2. calls \in Seq(Call)
      <4>1. calls \in [1 .. n -> Call]
        BY <3>1 DEF Call
      <4> QED
        BY <4>1, SeqDef
    <3>3. Assistant(id, Stop(reason), calls) \in Message
      BY <3>1, <3>2, MakeMessage
    <3>4. /\ messages' \in {Append(messages, Assistant(id, Stop(reason), calls)),
                           Replaced(messages, Assistant(id, Stop(reason), calls))}
          /\ loop' = [loop EXCEPT !.assistant = id, !.calls = calls, !.reason = reason]
          /\ pc = "streaming"
      BY <1>17 DEF StreamEnds
    <3> HIDE DEF id, calls
    <3>5. Len(messages') \in {Len(messages), Len(messages) + 1} /\ Len(messages) \in Nat
      BY <3>3, <3>4, ReplacedType, AppendProperties, LenProperties DEF AgentType
    <3>6. loop' \in LoopLocals /\ loop'.requestCount = loop.requestCount
      BY <3>1, <3>2, <3>4 DEF LoopType, LoopLocals
    <3>7. loop.requestCount \in Nat /\ loop.requestCount <= Len(messages)
      BY <3>4 DEF LoopType, LoopLocals
    <3> QED
      BY <3>5, <3>6, <3>7 DEF LoopType, LoopLocals
  <2>4. PolicyType'
    BY <1>17, <2>1, SameParameters DEF StreamEnds, PolicyType
  <2>5. LogType'
    <3>1. loop.assistant \in Nat /\ nextId \in Nat
      BY DEF AgentType, LoopType, LoopLocals
    <3>2. <<Event("message_end", loop.assistant)>> \in Seq(Item)
      BY <3>1 DEF Event, Item, Kinds, Subject
    <3> QED
      BY <1>17, <3>1, <3>2, MakeEvent DEF StreamEnds, LogType
  <2>6. DriveType'
    BY <1>17 DEF StreamEnds, DriveType, Labels, Terminal
  <2> QED
    BY <1>17, <2>1, <2>2, <2>3, <2>4, <2>5, <2>6, TypeSame DEF StreamEnds, TypeInv
<1>18. CASE RetryOverflow
  <2>1. scenario' = scenario
    BY <1>18 DEF RetryOverflow
  <2>2. AgentType'
    BY <1>18, PrefixType DEF RetryOverflow, AgentType, LoopType, LoopLocals
  <2>3. LoopType'
    BY <1>18, <2>1, SameParameters DEF RetryOverflow, LoopType, LoopLocals
  <2>4. PolicyType'
    <3>1. policy.retries + 1 \in 0 .. MaxOverflowRetries
      BY <1>18 DEF RetryOverflow, PolicyType, RetryAllowed
    <3>2. /\ policy' = [policy EXCEPT !.retries = policy.retries + 1, !.retried = TRUE]
          /\ snapshot' \in Seq(Message)
      BY <1>18 DEF RetryOverflow, PolicyType, AgentType
    <3> QED
      BY <2>1, <3>1, <3>2, SameParameters DEF PolicyType
  <2>5. DriveType'
    BY <1>18 DEF RetryOverflow, DriveType, Labels, Terminal
  <2> QED
    BY <1>18, <2>1, <2>2, <2>3, <2>4, <2>5, TypeSame DEF RetryOverflow, TypeInv
<1>19. CASE ResponseFailed
  <2>1. scenario' = scenario
    BY <1>19 DEF ResponseFailed
  <2>2. LogType'
    BY <1>19, Outs DEF ResponseFailed, LogType
  <2>3. DriveType'
    BY <1>19 DEF ResponseFailed, DriveType, Labels, Terminal
  <2> QED
    BY <1>19, <2>1, <2>2, <2>3, TypeSame DEF ResponseFailed, TypeInv
<1>20. CASE ModelFailed
  <2>1. scenario' = scenario
    BY <1>20 DEF ModelFailed
  <2>2. DriveType'
    BY <1>20 DEF ModelFailed, DriveType, Labels, Terminal
  <2> QED
    BY <1>20, <2>1, <2>2, TypeSame DEF ModelFailed, TypeInv
<1>21. CASE ResponseCancelled
  <2>1. scenario' = scenario
    BY <1>21 DEF ResponseCancelled
  <2>2. LogType'
    BY <1>21, Outs DEF ResponseCancelled, LogType
  <2>3. DriveType'
    BY <1>21 DEF ResponseCancelled, DriveType, Labels, Terminal
  <2> QED
    BY <1>21, <2>1, <2>2, <2>3, TypeSame DEF ResponseCancelled, TypeInv
<1>22. CASE UseTools
  <2>1. scenario' = scenario
    BY <1>22 DEF UseTools
  <2>2. LoopType'
    BY <1>22, <2>1, SameParameters DEF UseTools, LoopType, LoopLocals
  <2>3. BatchType'
    <3>1. PICK mode \in {"truncated", "sequential", "parallel"}, terminate \in BOOLEAN :
            batch' = [NoBatch EXCEPT !.mode = mode, !.terminate = terminate]
      BY <1>22 DEF UseTools
    <3>2. batch' \in BatchLocals
      BY <3>1 DEF BatchLocals, NoBatch
    <3>3. /\ batch'.observed = 0 /\ batch'.answered = 0
          /\ batch'.ended = {} /\ batch'.announced = 0
      BY <3>1 DEF NoBatch
    <3>4. loop'.calls = loop.calls /\ loop.calls \in Seq(Call)
      BY <1>22 DEF UseTools, LoopType, LoopLocals
    <3> QED
      BY <3>2, <3>3, <3>4, LenProperties DEF BatchType, BatchLocals
  <2>4. DriveType'
    BY <1>22 DEF UseTools, DriveType, Labels, Terminal
  <2> QED
    BY <1>22, <2>1, <2>2, <2>3, <2>4, TypeSame DEF UseTools, TypeInv
<1>23. CASE UnexpectedCalls
  <2>1. scenario' = scenario
    BY <1>23 DEF UnexpectedCalls
  <2>2. DriveType'
    BY <1>23 DEF UnexpectedCalls, DriveType, Labels, Terminal
  <2> QED
    BY <1>23, <2>1, <2>2, TypeSame DEF UnexpectedCalls, TypeInv
<1>24. CASE NoTools
  <2>1. scenario' = scenario
    BY <1>24 DEF NoTools
  <2>2. LoopType'
    BY <1>24, <2>1, SameParameters DEF NoTools, LoopType, LoopLocals
  <2>3. LogType'
    BY <1>24, Outs DEF NoTools, LogType
  <2>4. DriveType'
    BY <1>24 DEF NoTools, DriveType, Labels, Terminal
  <2> QED
    BY <1>24, <2>1, <2>2, <2>3, <2>4, TypeSame DEF NoTools, TypeInv
<1>25. CASE Announce
  <2>1. scenario' = scenario
    BY <1>25 DEF Announce
  <2>2. AgentType'
    BY <1>25 DEF Announce, AgentType, LoopType, LoopLocals, BatchType, BatchLocals, Width
  <2>3. BatchType'
    BY <1>25 DEF Announce, BatchType, BatchLocals, Width
  <2>4. LogType'
    <3>1. loop.calls[batch.announced + 1] \in Subject
      BY <1>25 DEF Announce, LoopType, LoopLocals, BatchType, BatchLocals, Width, Subject
    <3> QED
      BY <1>25, <3>1 DEF Announce, LogType, Event, Item, Kinds
  <2> QED
    BY <1>25, <2>1, <2>2, <2>3, <2>4, TypeSame DEF Announce, TypeInv
<1>26. ASSUME NEW i \in 1 .. batch.announced, EndTool(i) PROVE TypeInv'
  <2>1. scenario' = scenario
    BY <1>26 DEF EndTool
  <2>2. AgentType'
    BY <1>26, <2>1, SameParameters DEF EndTool, AgentType
  <2>3. BatchType'
    BY <1>26 DEF EndTool, BatchType, BatchLocals, Width
  <2>4. LogType'
    <3>1. loop.calls[i] \in Subject
      BY <1>26 DEF EndTool, LoopType, LoopLocals, BatchType, BatchLocals, Width, Subject
    <3> QED
      BY <1>26, <3>1 DEF EndTool, LogType, Event, Item, Kinds
  <2> QED
    BY <1>26, <2>1, <2>2, <2>3, <2>4, TypeSame DEF EndTool, TypeInv
<1>27. CASE Answer
  <2>1. scenario' = scenario
    BY <1>27 DEF Answer
  <2>2. AgentType'
    <3>1. ToolResult(nextId, loop.calls[batch.answered + 1]) \in Message
      BY <1>27, MakeMessage
         DEF Answer, AgentType, LoopType, LoopLocals, BatchType, BatchLocals, Width
    <3> QED
      BY <1>27, <3>1, AppendProperties DEF Answer, AgentType
  <2>3. BatchType'
    <3>1. PICK terminate \in BOOLEAN :
            batch' = [batch EXCEPT !.answered = batch.answered + 1, !.terminate = terminate]
      BY <1>27 DEF Answer, BatchType, BatchLocals
    <3>2. batch \in BatchLocals /\ {batch.observed, batch.answered} \subseteq Nat
      BY DEF BatchType, BatchLocals
    <3>3. {batch.observed + 1, batch.answered + 1} \subseteq Nat
      BY <3>2
    <3>4. batch' \in BatchLocals
      BY <3>1, <3>2, <3>3 DEF BatchLocals
    <3>5. /\ batch'.answered = batch.answered + 1 /\ batch'.announced = batch.announced
          /\ batch'.ended = batch.ended /\ batch'.observed = batch.observed
      BY <3>1 DEF BatchType, BatchLocals
    <3> QED
      BY <1>27, <3>4, <3>5, <3>2 DEF Answer, BatchType, BatchLocals
  <2>4. LogType'
    BY <1>27, Outs DEF Answer, LogType
  <2> QED
    BY <1>27, <2>1, <2>2, <2>3, <2>4, TypeSame DEF Answer, TypeInv
<1>28. CASE Observe
  <2>1. scenario' = scenario
    BY <1>28 DEF Observe
  <2>2. BatchType'
    <3>1. PICK trips \in BOOLEAN :
            batch' = [batch EXCEPT !.observed = batch.observed + 1, !.tripped = trips]
      BY <1>28 DEF Observe, BatchType, BatchLocals
    <3>2. batch \in BatchLocals /\ {batch.observed, batch.answered} \subseteq Nat
      BY DEF BatchType, BatchLocals
    <3>3. {batch.observed + 1, batch.answered + 1} \subseteq Nat
      BY <3>2
    <3>4. batch' \in BatchLocals
      BY <3>1, <3>2, <3>3 DEF BatchLocals
    <3>5. /\ batch'.observed = batch.observed + 1 /\ batch'.announced = batch.announced
          /\ batch'.answered = batch.answered /\ batch'.ended = batch.ended
      BY <3>1 DEF BatchType, BatchLocals
    <3> QED
      BY <1>28, <3>4, <3>5, <3>2 DEF Observe, BatchType, BatchLocals
  <2> QED
    BY <1>28, <2>1, <2>2, TypeSame DEF Observe, TypeInv
<1>29. CASE SkipCall
  <2>1. scenario' = scenario
    BY <1>29 DEF SkipCall
  <2>2. AgentType'
    <3>1. ToolResult(nextId, loop.calls[batch.answered + 1]) \in Message
      BY <1>29, MakeMessage
         DEF SkipCall, AgentType, LoopType, LoopLocals, BatchType, BatchLocals, Width
    <3> QED
      BY <1>29, <3>1, AppendProperties DEF SkipCall, AgentType
  <2>3. BatchType'
    <3>1. batch' = [batch EXCEPT !.answered = batch.answered + 1,
                                  !.observed = batch.answered + 1]
      BY <1>29 DEF SkipCall, BatchType, BatchLocals
    <3>2. batch \in BatchLocals /\ {batch.observed, batch.answered} \subseteq Nat
      BY DEF BatchType, BatchLocals
    <3>3. {batch.observed + 1, batch.answered + 1} \subseteq Nat
      BY <3>2
    <3>4. batch' \in BatchLocals
      BY <3>1, <3>2, <3>3 DEF BatchLocals
    <3>5. /\ batch'.answered = batch.answered + 1 /\ batch'.observed = batch.answered + 1
          /\ batch'.announced = batch.announced /\ batch'.ended = batch.ended
      BY <3>1 DEF BatchType, BatchLocals
    <3> QED
      BY <1>29, <3>4, <3>5, <3>2 DEF SkipCall, BatchType, BatchLocals
  <2>4. LogType'
    BY <1>29, Outs DEF SkipCall, LogType
  <2> QED
    BY <1>29, <2>1, <2>2, <2>3, <2>4, TypeSame DEF SkipCall, TypeInv
<1>30. CASE ToolsDone
  <2>1. scenario' = scenario
    BY <1>30 DEF ToolsDone
  <2>2. LoopType'
    BY <1>30, <2>1, SameParameters DEF ToolsDone, LoopType, LoopLocals
  <2>3. LogType'
    BY <1>30, Outs DEF ToolsDone, LogType
  <2>4. DriveType'
    BY <1>30 DEF ToolsDone, DriveType, Labels, Terminal
  <2> QED
    BY <1>30, <2>1, <2>2, <2>3, <2>4, TypeSame DEF ToolsDone, TypeInv
<1>31. CASE BreakerTripped
  <2>1. scenario' = scenario
    BY <1>31 DEF BreakerTripped
  <2>2. LogType'
    BY <1>31, Outs DEF BreakerTripped, LogType
  <2>3. DriveType'
    BY <1>31 DEF BreakerTripped, DriveType, Labels, Terminal
  <2> QED
    BY <1>31, <2>1, <2>2, <2>3, TypeSame DEF BreakerTripped, TypeInv
<1>32. CASE HookFails
  <2>1. scenario' = scenario
    BY <1>32 DEF HookFails
  <2>2. DriveType'
    BY <1>32 DEF HookFails, DriveType, Labels, Terminal
  <2> QED
    BY <1>32, <2>1, <2>2, TypeSame DEF HookFails, TypeInv
<1>33. CASE ShouldStop
  <2>1. scenario' = scenario
    BY <1>33 DEF ShouldStop, Succeed
  <2>2. LogType'
    BY <1>33, Outs DEF ShouldStop, Succeed, LogType
  <2>3. DriveType'
    BY <1>33 DEF ShouldStop, Succeed, DriveType, Labels, Terminal
  <2> QED
    BY <1>33, <2>1, <2>2, <2>3, TypeSame DEF ShouldStop, Succeed, TypeInv
<1>34. CASE GoOn
  <2>1. scenario' = scenario
    BY <1>34 DEF GoOn
  <2>2. DriveType'
    BY <1>34 DEF GoOn, DriveType, Labels, Terminal
  <2> QED
    BY <1>34, <2>1, <2>2, TypeSame DEF GoOn, TypeInv
<1>35. CASE DrainSteering
  <2>1. scenario' = scenario
    BY <1>35 DEF DrainSteering
  <2>2. LoopType'
    <3>1. Taken(steering, SteeringMode) \in Seq(Nat)
      BY DrainType, SeqMonotonic DEF QueueType
    <3> QED
      BY <1>35, <3>1 DEF DrainSteering, LoopType, LoopLocals
  <2>3. QueueType'
    BY <1>35, <2>1, SameParameters, DrainType DEF DrainSteering, QueueType
  <2>4. DriveType'
    BY <1>35 DEF DrainSteering, DriveType, Labels, Terminal
  <2> QED
    BY <1>35, <2>1, <2>2, <2>3, <2>4, TypeSame DEF DrainSteering, TypeInv
<1>36. CASE DrainFollowUp
  <2>1. scenario' = scenario
    BY <1>36 DEF DrainFollowUp
  <2>2. LoopType'
    <3>1. Taken(followUp, FollowUpMode) \in Seq(Nat)
      BY DrainType, SeqMonotonic DEF QueueType
    <3> QED
      BY <1>36, <3>1 DEF DrainFollowUp, LoopType, LoopLocals
  <2>3. QueueType'
    BY <1>36, <2>1, SameParameters, DrainType DEF DrainFollowUp, QueueType
  <2>4. DriveType'
    BY <1>36 DEF DrainFollowUp, DriveType, Labels, Terminal
  <2> QED
    BY <1>36, <2>1, <2>2, <2>3, <2>4, TypeSame DEF DrainFollowUp, TypeInv
<1>37. CASE AdvanceTurn
  <2>1. scenario' = scenario
    BY <1>37 DEF AdvanceTurn
  <2>2. RunType'
    BY <1>37, <2>1, SameParameters DEF AdvanceTurn, RunType
  <2>3. LogType'
    <3>1. <<Event("turn_start", turn + 1)>> \in Seq(Item)
      BY DEF RunType, Event, Item, Kinds, Subject
    <3> QED
      BY <1>37, <3>1 DEF AdvanceTurn, LogType
  <2>4. DriveType'
    BY <1>37 DEF AdvanceTurn, DriveType, Labels, Terminal
  <2> QED
    BY <1>37, <2>1, <2>2, <2>3, <2>4, TypeSame DEF AdvanceTurn, TypeInv
<1>38. CASE LastTurn
  <2>1. scenario' = scenario
    BY <1>38 DEF LastTurn, Succeed
  <2>2. LogType'
    BY <1>38, Outs DEF LastTurn, Succeed, LogType
  <2>3. DriveType'
    BY <1>38 DEF LastTurn, Succeed, DriveType, Labels, Terminal
  <2> QED
    BY <1>38, <2>1, <2>2, <2>3, TypeSame DEF LastTurn, Succeed, TypeInv
<1>39. CASE SettleFailure
  <2>1. scenario' = scenario
    BY <1>39 DEF SettleFailure, Settle
  <2>2. AgentType'
    <3> DEFINE synthetic == <<Assistant(nextId, "Error", <<>>)>>
    <3>1. synthetic \in Seq(Message) /\ <<>> \in Seq(Message)
          /\ Len(synthetic) = 1 /\ Len(<<>>) = 0
      <4>1. Assistant(nextId, "Error", <<>>) \in Message
        BY EmptySeq DEF AgentType, StopReasons, Assistant, Message
      <4> QED
        BY <4>1
    <3>2. PICK s \in {synthetic, <<>>} :
               messages' = messages \o s /\ nextId' = nextId + Len(s)
      BY <1>39 DEF SettleFailure, Settle
    <3>3. pendingTools' = {} /\ isStreaming' \in {FALSE, isStreaming}
      BY <1>39 DEF SettleFailure, Settle
    <3> HIDE DEF synthetic
    <3>4. s \in Seq(Message)
      BY <3>1, <3>2
    <3>5. nextId' \in Nat \ {0}
      BY <3>2, <3>4, LenProperties DEF AgentType
    <3>6. messages' \in Seq(Message)
      BY <3>2, <3>4, ConcatProperties DEF AgentType
    <3>7. isStreaming' \in BOOLEAN
      BY <3>3 DEF AgentType
    <3> QED
      BY <3>6, <3>7, <3>3, <3>5 DEF AgentType
  <2>3. LogType'
    <3>1. out' \in {Published(nextId) \o EndOfRun, <<>> \o EndOfRun}
      BY <1>39 DEF SettleFailure, Settle
    <3> QED
      BY <1>39, <3>1, Outs, ConcatProperties, EmptySeq DEF SettleFailure, Settle, LogType
  <2>4. DriveType'
    BY <1>39 DEF SettleFailure, Settle, DriveType, Labels, Terminal
  <2> QED
    BY <1>39, <2>1, <2>2, <2>3, <2>4, TypeSame DEF SettleFailure, Settle, TypeInv
<1>40. CASE SettleCancellation
  <2>1. scenario' = scenario
    BY <1>40 DEF SettleCancellation, Settle
  <2>2. AgentType'
    <3> DEFINE synthetic == <<Assistant(nextId, "Aborted", <<>>)>>
    <3>1. synthetic \in Seq(Message) /\ <<>> \in Seq(Message)
          /\ Len(synthetic) = 1 /\ Len(<<>>) = 0
      <4>1. Assistant(nextId, "Aborted", <<>>) \in Message
        BY EmptySeq DEF AgentType, StopReasons, Assistant, Message
      <4> QED
        BY <4>1
    <3>2. PICK s \in {synthetic, <<>>} :
               messages' = messages \o s /\ nextId' = nextId + Len(s)
      BY <1>40 DEF SettleCancellation, Settle
    <3>3. pendingTools' = {} /\ isStreaming' \in {FALSE, isStreaming}
      BY <1>40 DEF SettleCancellation, Settle
    <3> HIDE DEF synthetic
    <3>4. s \in Seq(Message)
      BY <3>1, <3>2
    <3>5. nextId' \in Nat \ {0}
      BY <3>2, <3>4, LenProperties DEF AgentType
    <3>6. messages' \in Seq(Message)
      BY <3>2, <3>4, ConcatProperties DEF AgentType
    <3>7. isStreaming' \in BOOLEAN
      BY <3>3 DEF AgentType
    <3> QED
      BY <3>6, <3>7, <3>3, <3>5 DEF AgentType
  <2>3. LogType'
    <3>1. out' \in {Published(nextId) \o EndOfRun, <<>> \o EndOfRun}
      BY <1>40 DEF SettleCancellation, Settle
    <3> QED
      BY <1>40, <3>1, Outs, ConcatProperties, EmptySeq DEF SettleCancellation, Settle, LogType
  <2>4. DriveType'
    BY <1>40 DEF SettleCancellation, Settle, DriveType, Labels, Terminal
  <2> QED
    BY <1>40, <2>1, <2>2, <2>3, <2>4, TypeSame DEF SettleCancellation, Settle, TypeInv
<1>41. CASE SettleCompactionFailure
  <2>1. scenario' = scenario
    BY <1>41 DEF SettleCompactionFailure, Settle
  <2>2. AgentType'
    <3>1. messages' = messages \o <<>> /\ nextId' = nextId + Len(<<>>)
      BY <1>41 DEF SettleCompactionFailure, Settle
    <3>2. messages' = messages /\ nextId' = nextId
      BY <3>1, ConcatEmptySeq, EmptySeq DEF AgentType
    <3> QED
      BY <1>41, <3>2 DEF SettleCompactionFailure, Settle, AgentType
  <2>3. LogType'
    BY <1>41, Outs, ConcatProperties, EmptySeq DEF SettleCompactionFailure, Settle, LogType
  <2>4. DriveType'
    BY <1>41 DEF SettleCompactionFailure, Settle, DriveType, Labels, Terminal
  <2> QED
    BY <1>41, <2>1, <2>2, <2>3, <2>4, TypeSame DEF SettleCompactionFailure, Settle, TypeInv
<1>42. CASE SettleCompactionCancellation
  <2>1. scenario' = scenario
    BY <1>42 DEF SettleCompactionCancellation, Settle
  <2>2. AgentType'
    <3>1. messages' = messages \o <<>> /\ nextId' = nextId + Len(<<>>)
      BY <1>42 DEF SettleCompactionCancellation, Settle
    <3>2. messages' = messages /\ nextId' = nextId
      BY <3>1, ConcatEmptySeq, EmptySeq DEF AgentType
    <3> QED
      BY <1>42, <3>2 DEF SettleCompactionCancellation, Settle, AgentType
  <2>3. LogType'
    BY <1>42, Outs, ConcatProperties, EmptySeq DEF SettleCompactionCancellation, Settle, LogType
  <2>4. DriveType'
    BY <1>42 DEF SettleCompactionCancellation, Settle, DriveType, Labels, Terminal
  <2> QED
    BY <1>42, <2>1, <2>2, <2>3, <2>4, TypeSame DEF SettleCompactionCancellation, Settle, TypeInv
<1>43. CASE Abort
  <2>1. scenario' = scenario
    BY <1>43 DEF Abort
  <2>2. RunType'
    BY <1>43, <2>1, SameParameters DEF Abort, RunType
  <2> QED
    BY <1>43, <2>1, <2>2, TypeSame DEF Abort, TypeInv
<1>44. CASE ClearQueues
  <2>1. scenario' = scenario
    BY <1>44 DEF ClearQueues
  <2>2. QueueType'
    BY <1>44, <2>1, SameParameters DEF ClearQueues, QueueType
  <2> QED
    BY <1>44, <2>1, <2>2, TypeSame DEF ClearQueues, TypeInv
<1>45. CASE Steer
  <2>1. scenario' = scenario
    BY <1>45 DEF Steer
  <2>2. QueueType'
    BY <1>45, <2>1, SameParameters DEF Steer, QueueType
  <2> QED
    BY <1>45, <2>1, <2>2, TypeSame DEF Steer, TypeInv
<1>46. CASE FollowUp
  <2>1. scenario' = scenario
    BY <1>46 DEF FollowUp
  <2>2. QueueType'
    BY <1>46, <2>1, SameParameters DEF FollowUp, QueueType
  <2> QED
    BY <1>46, <2>1, <2>2, TypeSame DEF FollowUp, TypeInv
<1> QED
  BY <1>1, <1>2, <1>3, <1>4, <1>5, <1>6, <1>7, <1>8, <1>9, <1>10, <1>11,
     <1>12, <1>13, <1>14, <1>15, <1>16, <1>17, <1>18, <1>19, <1>20, <1>21,
     <1>22, <1>23, <1>24, <1>25, <1>26, <1>27, <1>28, <1>29, <1>30, <1>31,
     <1>32, <1>33, <1>34, <1>35, <1>36, <1>37, <1>38, <1>39, <1>40, <1>41,
     <1>42, <1>43, <1>44, <1>45, <1>46
     DEF Next, Drive, TurnLoop, Host

-----------------------------------------------------------------------------
\* What the steps of the turn loop have in common.
LEMMA LoopFrame ==
    ASSUME TurnLoop
    PROVE  /\ out = <<>> /\ events' = events /\ settling' = settling
           /\ runPhase' \in {runPhase, "Running"}
           /\ pc \notin Terminal \cup {"settled", "errored"}
<1> USE DEF runVars, logVars, driveVars, Ready, Terminal
<1>1. CASE \/ Start \/ InitialDrain \/ Inject \/ Injected
           \/ BelowThreshold \/ AboveThreshold
  BY <1>1 DEF Start, InitialDrain, Inject, Injected, BelowThreshold, AboveThreshold
<1>2. CASE \/ CompactionLimit \/ StartCompaction \/ CompactionFails
           \/ CompactionCancelled \/ CommitReplacement
  BY <1>2 DEF CompactionLimit, StartCompaction, CompactionFails, CompactionCancelled,
              CommitReplacement, RefuseCompaction
<1>3. CASE \/ Request \/ TextDelta \/ StreamFails
           \/ \E reason \in Responses, n \in 0 .. MaxCalls : StreamEnds(reason, n)
  <2>1. CASE Request \/ TextDelta \/ StreamFails
    BY <2>1 DEF Request, TextDelta, StreamFails
  <2>2. CASE \E reason \in Responses, n \in 0 .. MaxCalls : StreamEnds(reason, n)
    BY <2>2 DEF StreamEnds
  <2> QED
    BY <1>3, <2>1, <2>2
<1>4. CASE \/ RetryOverflow \/ ResponseFailed \/ ModelFailed \/ ResponseCancelled
           \/ UseTools \/ UnexpectedCalls \/ NoTools
  <2>1. CASE RetryOverflow \/ ResponseFailed \/ ModelFailed
    BY <2>1 DEF RetryOverflow, ResponseFailed, ModelFailed
  <2>2. CASE ResponseCancelled \/ UnexpectedCalls \/ NoTools
    BY <2>2 DEF ResponseCancelled, UnexpectedCalls, NoTools
  <2>3. CASE UseTools
    BY <2>3 DEF UseTools
  <2> QED
    BY <1>4, <2>1, <2>2, <2>3
<1>5. CASE \/ Announce \/ \E i \in 1 .. batch.announced : EndTool(i)
           \/ Answer \/ Observe \/ SkipCall \/ ToolsDone \/ BreakerTripped
  <2>1. CASE Announce \/ \E i \in 1 .. batch.announced : EndTool(i)
    BY <2>1 DEF Announce, EndTool
  <2>2. CASE Answer
    BY <2>2 DEF Answer
  <2>3. CASE Observe
    BY <2>3 DEF Observe
  <2>4. CASE SkipCall \/ ToolsDone \/ BreakerTripped
    BY <2>4 DEF SkipCall, ToolsDone, BreakerTripped, BatchDone
  <2> QED
    BY <1>5, <2>1, <2>2, <2>3, <2>4
<1>6. CASE \/ HookFails \/ ShouldStop \/ GoOn \/ DrainSteering \/ DrainFollowUp
           \/ AdvanceTurn \/ LastTurn
  BY <1>6 DEF HookFails, ShouldStop, GoOn, DrainSteering, DrainFollowUp, AdvanceTurn,
              LastTurn, Succeed
<1> QED
  BY <1>1, <1>2, <1>3, <1>4, <1>5, <1>6 DEF TurnLoop

-----------------------------------------------------------------------------
\* Whatever comes before it, the end of the run ends what is published.
LEMMA EndIsLast ==
    ASSUME turn \in Nat
    PROVE  /\ EndsIn(AgentEnd)
           /\ \A s \in Seq(Item) : EndsIn(s \o EndOfRun)
           /\ EndsIn(EndOfRun)
<1>1. AgentEnd \in Seq(Item) /\ TurnEnd \in Seq(Item) /\ EndOfRun \in Seq(Item)
  BY MakeEvent
<1>2. Len(AgentEnd) = 1 /\ Len(TurnEnd) = 1 /\ AgentEnd[1].kind = "agent_end"
  BY DEF AgentEnd, TurnEnd, Event
<1>3. Len(EndOfRun) = 2 /\ EndOfRun[2] = AgentEnd[1]
  BY <1>1, <1>2, ConcatProperties DEF EndOfRun
<1>4. ASSUME NEW s \in Seq(Item) PROVE EndsIn(s \o EndOfRun)
  <2> DEFINE end == EndOfRun
  <2>1. end \in Seq(Item) /\ Len(end) = 2 /\ end[2] = AgentEnd[1]
    BY <1>1, <1>3
  <2> HIDE DEF end
  <2>2. /\ s \o end \in Seq(Item)
        /\ Len(s \o end) = Len(s) + Len(end) /\ Len(s) \in Nat
        /\ \A i \in 1 .. Len(s) + Len(end) :
             (s \o end)[i] = IF i <= Len(s) THEN s[i] ELSE end[i - Len(s)]
    <3> s \in Seq(Item) /\ end \in Seq(Item)
      BY <2>1
    <3> QED
      BY ConcatProperties, LenProperties
  <2>3. (s \o end)[Len(s) + 2] = end[2]
    BY <2>1, <2>2
  <2>4. EndsIn(s \o end)
    BY <1>2, <2>1, <2>2, <2>3, EmptySeq DEF EndsIn
  <2> QED
    BY <2>4 DEF end
<1>5. ASSUME NEW s \in Seq(Item), Len(s) \in {1, 2}, s[Len(s)].kind = "agent_end"
      PROVE  EndsIn(s)
  <2>1. Len(s) > 0
    BY <1>5
  <2>2. s # <<>>
    BY <2>1, NonEmpty
  <2> QED
    BY <1>5, <2>2 DEF EndsIn
<1>6. EndsIn(AgentEnd) /\ EndsIn(EndOfRun)
  BY <1>1, <1>2, <1>3, <1>5
<1> QED
  BY <1>4, <1>6

LEMMA CloseInit == Init => Closes
BY DEF Init, Closes, Done, Terminal, EndLabels

LEMMA CloseStep == TypeInv /\ Closes /\ Next => Closes'
<1> SUFFICES ASSUME TypeInv, Closes, Next PROVE Closes'
  OBVIOUS
<1> USE DEF runVars, logVars, driveVars, Ready, Fail, Terminal
<1>a. turn \in Nat /\ events \in Seq(Item) /\ out \in Seq(Item)
  BY DEF TypeInv, RunType, LogType
<1>1. CASE Emit
  <2>1. out # <<>> /\ pc # "settled" /\ runPhase' = runPhase /\ settling' = settling
        /\ events' = Append(events, Head(out))
    BY <1>1 DEF Emit, Closes
  <2>2. CASE out' = Tail(out) /\ UNCHANGED <<pc, error>>
    <3>1. EndsIn(out) => IF out' = <<>> THEN EndsIn(events') ELSE EndsIn(out')
      <4>1. IF Tail(out) = <<>> THEN out[Len(out)] = Head(out)
                                 ELSE Tail(out)[Len(Tail(out))] = out[Len(out)]
        BY <1>a, <2>1, TailLast
      <4>2. Head(out) \in Item
        BY <1>a, <2>1, HeadTailProperties
      <4>3. /\ Len(events') = Len(events) + 1 /\ events'[Len(events) + 1] = Head(out)
            /\ events' \in Seq(Item) /\ Len(events) \in Nat
        BY <1>a, <2>1, <4>2, AppendProperties, LenProperties
      <4>4. events' # <<>>
        BY <4>3, NonEmpty
      <4> QED
        BY <2>2, <4>1, <4>3, <4>4 DEF EndsIn
    <3> QED
      BY <2>1, <2>2, <3>1 DEF Closes, Done
  <2>3. CASE ~settling /\ out' = <<>> /\ pc' = "errored"
    BY <2>1, <2>3 DEF Closes, Done, EndLabels
  <2> QED
    BY <1>1, <2>2, <2>3 DEF Emit
<1>2. CASE Finish
  BY <1>2 DEF Finish, Closes, Done, EndLabels
<1>3. ASSUME TurnLoop, pc' \notin EndLabels PROVE Closes'
  BY <1>3, LoopFrame DEF Closes, Done, EndLabels
<1>4. CASE \/ ResponseFailed \/ ResponseCancelled \/ BreakerTripped
           \/ ShouldStop \/ LastTurn
  <2>1. EndsIn(out')
    <3>1. /\ <<SkippedEvent("breaker")>> \in Seq(Item)
          /\ <<Event("automatic_compaction_end", "overflow")>> \in Seq(Item)
      <4>1. /\ SkippedEvent("breaker") \in Item
            /\ Event("automatic_compaction_end", "overflow") \in Item
        BY DEF SkippedEvent, Event, Item, Kinds, Subject
      <4> QED
        BY <4>1
    <3>2. /\ EndsIn(AgentEnd) /\ EndsIn(EndOfRun)
          /\ EndsIn(<<SkippedEvent("breaker")>> \o EndOfRun)
          /\ EndsIn(<<Event("automatic_compaction_end", "overflow")>> \o EndOfRun)
      BY <1>a, <3>1, EndIsLast
    <3> QED
      BY <1>4, <3>2 DEF ResponseFailed, ResponseCancelled, BreakerTripped, ShouldStop,
                        LastTurn, Succeed
  <2>2. TurnLoop
    BY <1>4 DEF TurnLoop
  <2>3. pc' \in Terminal \cup {"model_failed"}
    BY <1>4 DEF ResponseFailed, ResponseCancelled, BreakerTripped, ShouldStop, LastTurn,
                Succeed
  <2>4. out' # <<>>
    BY <2>1 DEF EndsIn
  <2> QED
    BY <2>1, <2>2, <2>3, <2>4, LoopFrame DEF Closes, Done, EndLabels
<1>5. CASE ModelFailed
  BY <1>5 DEF ModelFailed, Closes, Done, EndLabels
<1>6. TurnLoop => \/ pc' \notin EndLabels
                  \/ ResponseFailed \/ ResponseCancelled \/ BreakerTripped
                  \/ ShouldStop \/ LastTurn \/ ModelFailed
  <2> SUFFICES ASSUME TurnLoop PROVE pc' \notin EndLabels
                  \/ ResponseFailed \/ ResponseCancelled \/ BreakerTripped
                  \/ ShouldStop \/ LastTurn \/ ModelFailed
    OBVIOUS
  <2> USE DEF EndLabels
  <2>1. CASE \/ Start \/ InitialDrain \/ Inject \/ Injected
             \/ BelowThreshold \/ AboveThreshold
    BY <2>1 DEF Start, InitialDrain, Inject, Injected, BelowThreshold, AboveThreshold
  <2>2. CASE \/ CompactionLimit \/ StartCompaction \/ CompactionFails
             \/ CompactionCancelled \/ CommitReplacement
    BY <2>2 DEF CompactionLimit, StartCompaction, CompactionFails, CompactionCancelled,
                CommitReplacement, RefuseCompaction
  <2>3. CASE \/ Request \/ TextDelta \/ StreamFails
             \/ \E reason \in Responses, n \in 0 .. MaxCalls : StreamEnds(reason, n)
    <3>1. CASE Request \/ TextDelta \/ StreamFails
      BY <3>1 DEF Request, TextDelta, StreamFails
    <3>2. CASE \E reason \in Responses, n \in 0 .. MaxCalls : StreamEnds(reason, n)
      BY <3>2 DEF StreamEnds
    <3> QED
      BY <2>3, <3>1, <3>2
  <2>4. CASE RetryOverflow \/ UseTools \/ UnexpectedCalls \/ NoTools
    <3>1. CASE RetryOverflow \/ UnexpectedCalls \/ NoTools
      BY <3>1 DEF RetryOverflow, UnexpectedCalls, NoTools
    <3>2. CASE UseTools
      BY <3>2 DEF UseTools
    <3> QED
      BY <2>4, <3>1, <3>2
  <2>5. CASE \/ Announce \/ \E i \in 1 .. batch.announced : EndTool(i)
             \/ Answer \/ Observe \/ SkipCall \/ ToolsDone
    <3>1. CASE Announce \/ \E i \in 1 .. batch.announced : EndTool(i)
      BY <3>1 DEF Announce, EndTool
    <3>2. CASE Answer
      BY <3>2 DEF Answer
    <3>3. CASE Observe
      BY <3>3 DEF Observe
    <3>4. CASE SkipCall \/ ToolsDone
      BY <3>4 DEF SkipCall, ToolsDone, BatchDone
    <3> QED
      BY <2>5, <3>1, <3>2, <3>3, <3>4
  <2>6. CASE HookFails \/ GoOn \/ DrainSteering \/ DrainFollowUp \/ AdvanceTurn
    BY <2>6 DEF HookFails, GoOn, DrainSteering, DrainFollowUp, AdvanceTurn
  <2> QED
    BY <2>1, <2>2, <2>3, <2>4, <2>5, <2>6 DEF TurnLoop
<1>7. CASE \/ SettleFailure \/ SettleCancellation
           \/ SettleCompactionFailure \/ SettleCompactionCancellation
  <2>1. PICK outcome \in {"Failed", "Cancelled"},
             m \in {Assistant(nextId, "Error", <<>>), Assistant(nextId, "Aborted", <<>>)} :
               Settle(outcome, <<>>) \/ Settle(outcome, <<m>>)
    BY <1>7 DEF SettleFailure, SettleCancellation, SettleCompactionFailure,
                SettleCompactionCancellation
  <2>2. pc = "errored" /\ out = <<>>
    BY <1>7 DEF SettleFailure, SettleCancellation, SettleCompactionFailure,
                SettleCompactionCancellation
  <2>3. EndsIn(out')
    <3>1. Published(nextId) \in Seq(Item) /\ <<>> \in Seq(Item)
      BY MakeEvent, EmptySeq DEF TypeInv, AgentType
    <3> QED
      BY <1>a, <2>1, <3>1, EndIsLast DEF Settle
  <2>4. out' # <<>>
    BY <2>3 DEF EndsIn
  <2> QED
    BY <2>1, <2>2, <2>3, <2>4 DEF Settle, Closes, Done, EndLabels
<1>8. CASE Host
  BY <1>8 DEF Host, Abort, ClearQueues, Steer, FollowUp, driverVars, Closes, Done
<1> QED
  BY <1>1, <1>2, <1>3, <1>4, <1>5, <1>6, <1>7, <1>8 DEF Next, Drive

-----------------------------------------------------------------------------
LEMMA KeepInit == Init => Keeps
BY DEF Init, Keeps

\* The steps that touch the snapshot, or run while there is one.
LEMMA SnapshotSteps ==
    ASSUME TurnLoop
    PROVE  \/ pc # "compacting" /\ snapshot' = snapshot
           \/ CompactionLimit \/ StartCompaction \/ CompactionFails
           \/ CompactionCancelled \/ CommitReplacement
<1> USE DEF policyVars, Ready
<1>1. CASE \/ Start \/ InitialDrain \/ Inject \/ Injected
           \/ BelowThreshold \/ AboveThreshold
  BY <1>1 DEF Start, InitialDrain, Inject, Injected, BelowThreshold, AboveThreshold
<1>2. CASE Request \/ TextDelta \/ StreamFails
  BY <1>2 DEF Request, TextDelta, StreamFails
<1>3. CASE \E reason \in Responses, n \in 0 .. MaxCalls : StreamEnds(reason, n)
  BY <1>3 DEF StreamEnds
<1>4. CASE \/ RetryOverflow \/ ResponseFailed \/ ModelFailed \/ ResponseCancelled
           \/ UnexpectedCalls \/ NoTools
  BY <1>4 DEF RetryOverflow, ResponseFailed, ModelFailed, ResponseCancelled,
              UnexpectedCalls, NoTools
<1>5. CASE UseTools
  BY <1>5 DEF UseTools
<1>6. CASE Announce \/ \E i \in 1 .. batch.announced : EndTool(i)
  BY <1>6 DEF Announce, EndTool
<1>7. CASE Answer
  BY <1>7 DEF Answer
<1>8. CASE Observe
  BY <1>8 DEF Observe
<1>9. CASE SkipCall \/ ToolsDone \/ BreakerTripped
  BY <1>9 DEF SkipCall, ToolsDone, BreakerTripped, BatchDone
<1>10. CASE \/ HookFails \/ ShouldStop \/ GoOn \/ DrainSteering \/ DrainFollowUp
            \/ AdvanceTurn \/ LastTurn
  BY <1>10 DEF HookFails, ShouldStop, GoOn, DrainSteering, DrainFollowUp, AdvanceTurn,
               LastTurn, Succeed
<1> QED
  BY <1>1, <1>2, <1>3, <1>4, <1>5, <1>6, <1>7, <1>8, <1>9, <1>10 DEF TurnLoop

LEMMA KeepStep == TypeInv /\ Keeps /\ Next => Keeps'
<1> SUFFICES ASSUME TypeInv, Keeps, Next PROVE Keeps'
  OBVIOUS
<1> USE DEF agentVars, driveVars, policyVars, Ready, Fail, Terminal
<1>1. CASE Emit
  BY <1>1 DEF Emit, Keeps, LastMessage
<1>2. CASE Finish
  BY <1>2 DEF Finish, Keeps, LastMessage
<1>3. CASE TurnLoop
  <2>1. CASE pc # "compacting" /\ snapshot' = snapshot
    BY <1>3, <2>1, LoopFrame DEF Keeps
  <2>2. CASE CompactionLimit \/ StartCompaction
    BY <2>2 DEF CompactionLimit, StartCompaction, RefuseCompaction, Keeps
  <2>3. CASE CompactionFails \/ CompactionCancelled
    BY <2>3 DEF CompactionFails, CompactionCancelled, RefuseCompaction, Keeps
  <2>4. CASE CommitReplacement
    BY <2>4 DEF CommitReplacement, Keeps
  <2> QED
    BY <1>3, <2>1, <2>2, <2>3, <2>4, SnapshotSteps
<1>4. CASE \/ SettleFailure \/ SettleCancellation
           \/ SettleCompactionFailure \/ SettleCompactionCancellation
  <2>1. PICK outcome \in {"Failed", "Cancelled"},
             m \in {Assistant(nextId, "Error", <<>>), Assistant(nextId, "Aborted", <<>>)} :
               Settle(outcome, <<>>) \/ Settle(outcome, <<m>>)
    BY <1>4 DEF SettleFailure, SettleCancellation, SettleCompactionFailure,
                SettleCompactionCancellation
  <2>2. pc = "errored"
    BY <1>4 DEF SettleFailure, SettleCancellation, SettleCompactionFailure,
                SettleCompactionCancellation
  <2>3. /\ snapshot' = snapshot /\ settling' /\ pc' = outcome
        /\ messages' \in {messages \o <<>>, messages \o <<m>>}
    BY <2>1 DEF Settle
  <2>4. messages \in Seq(Message) /\ m \in Message
    BY MakeMessage, EmptySeq DEF TypeInv, AgentType, StopReasons
  <2>5. messages' \in {messages, Append(messages, m)}
    BY <2>3, <2>4, ConcatEmptySeq, AppendIsConcat
  <2>6. messages' = Append(messages, m) => LastMessage' = m
    BY <2>4, AppendProperties DEF LastMessage
  <2> QED
    BY <2>2, <2>3, <2>5, <2>6 DEF Keeps
<1>5. CASE Host
  BY <1>5 DEF Host, Abort, ClearQueues, Steer, FollowUp, driverVars, Keeps, LastMessage
<1> QED
  BY <1>1, <1>2, <1>3, <1>4, <1>5 DEF Next, Drive

LEMMA KeepImplied == TypeInv /\ Keeps => RefusedKeepsPrefix
<1> SUFFICES ASSUME TypeInv, Keeps, snapshot # <<>>
             PROVE  /\ Len(messages) \in Len(snapshot) .. Len(snapshot) + 1
                    /\ SubSeq(messages, 1, Len(snapshot)) = snapshot
                    /\ Len(messages) > Len(snapshot) => settling
  BY DEF RefusedKeepsPrefix
<1>1. snapshot \in Seq(Message) /\ messages \in Seq(Message) /\ Len(snapshot) \in Nat
  BY LenProperties DEF TypeInv, AgentType, PolicyType
<1>2. CASE messages = snapshot
  BY <1>1, <1>2, SubSeqFull
<1>3. CASE messages # snapshot
  <2>1. settling /\ messages = Append(snapshot, LastMessage)
    BY <1>3 DEF Keeps, TypeInv, DriveType, Labels, Terminal
  <2>2. messages # <<>>
    BY <2>1, AppendProperties, EmptySeq
  <2>3. LastMessage \in Message
    BY <1>1, <2>2, NonEmpty, LenProperties DEF LastMessage
  <2>4. Len(messages) = Len(snapshot) + 1
    BY <1>1, <2>1, <2>3, AppendProperties
  <2>5. SubSeq(messages, 1, Len(snapshot)) = snapshot
    BY <1>1, <2>1, <2>3, AppendPrefix
  <2> QED
    BY <1>1, <2>1, <2>4, <2>5
<1> QED
  BY <1>2, <1>3

-----------------------------------------------------------------------------
\* A log has finitely many retries.
LEMMA StartsAreFinite ==
    ASSUME NEW log \in Seq(Item)
    PROVE  IsFiniteSet(StartsIn(log)) /\ Cardinality(StartsIn(log)) \in Nat
<1>1. 1 \in Int /\ Len(log) \in Int
  BY LenProperties
<1>2. IsFiniteSet(1 .. Len(log))
  BY <1>1, FS_Interval
<1>3. StartsIn(log) \subseteq 1 .. Len(log)
  BY DEF StartsIn
<1> QED
  BY <1>2, <1>3, FS_Subset, FS_CardinalityType

\* More events without a retry leave the retries as they are; a turn among them
\* closes those there were.
LEMMA QuietGrowth ==
    ASSUME NEW log \in Seq(Item), NEW more \in Seq(Item),
           StartsIn(more) = {}
    PROVE  /\ StartsIn(log \o more) = StartsIn(log)
           /\ Separated(log) => Separated(log \o more)
           /\ Open(log \o more) \subseteq Open(log)
           /\ (\E i \in 1 .. Len(more) : more[i].kind = "turn_start")
                => Open(log \o more) = {}
<1> DEFINE grown == log \o more
<1>1. /\ grown \in Seq(Item) /\ Len(grown) = Len(log) + Len(more)
      /\ Len(log) \in Nat /\ Len(more) \in Nat
      /\ \A i \in 1 .. Len(log) + Len(more) :
           grown[i] = IF i <= Len(log) THEN log[i] ELSE more[i - Len(log)]
  BY ConcatProperties, LenProperties
<1> HIDE DEF grown
<1>2. \A i \in 1 .. Len(log) : grown[i] = log[i]
  BY <1>1
<1>3. ASSUME NEW i \in 1 .. Len(more) PROVE grown[Len(log) + i] = more[i]
  <2>1. /\ Len(log) + i \in 1 .. Len(log) + Len(more)
        /\ ~(Len(log) + i <= Len(log)) /\ (Len(log) + i) - Len(log) = i
    BY <1>1
  <2> QED
    BY <1>1, <2>1
<1>4. ASSUME NEW i \in Len(log) + 1 .. Len(grown) PROVE i \notin StartsIn(grown)
  <2>1. i - Len(log) \in 1 .. Len(more) /\ grown[i] = more[i - Len(log)]
    BY <1>1
  <2> QED
    BY <2>1 DEF StartsIn
<1>5. StartsIn(grown) = StartsIn(log)
  <2>1. StartsIn(grown) \subseteq 1 .. Len(log)
    BY <1>1, <1>4 DEF StartsIn
  <2>2. 1 .. Len(log) \subseteq 1 .. Len(grown)
    BY <1>1
  <2> QED
    BY <1>2, <2>1, <2>2 DEF StartsIn
<1>6. Separated(log) => Separated(grown)
  <2> SUFFICES ASSUME Separated(log), NEW i \in StartsIn(log), NEW j \in StartsIn(log), i < j
               PROVE  \E k \in i .. j : grown[k].kind = "turn_start"
    BY <1>5 DEF Separated
  <2>1. PICK k \in i .. j : log[k].kind = "turn_start"
    BY DEF Separated
  <2>2. k \in 1 .. Len(log)
    BY <1>1 DEF StartsIn
  <2> QED
    BY <1>2, <2>1, <2>2
<1>7. Open(grown) \subseteq Open(log)
  <2> SUFFICES ASSUME NEW i \in Open(grown), NEW k \in i .. Len(log)
               PROVE  i \in StartsIn(log) /\ log[k].kind # "turn_start"
    BY <1>5 DEF Open
  <2>1. i \in StartsIn(log) /\ i \in 1 .. Len(log)
    BY <1>5 DEF Open, StartsIn
  <2>2. k \in i .. Len(grown) /\ k \in 1 .. Len(log)
    BY <1>1, <2>1
  <2> QED
    BY <1>2, <2>1, <2>2 DEF Open
<1>8. ASSUME NEW i \in 1 .. Len(more), more[i].kind = "turn_start" PROVE Open(grown) = {}
  <2> SUFFICES ASSUME NEW s \in Open(grown) PROVE FALSE
    OBVIOUS
  <2>1. s \in 1 .. Len(log)
    BY <1>5 DEF Open, StartsIn
  <2>2. Len(log) + i \in s .. Len(grown)
    BY <1>1, <2>1
  <2> QED
    BY <1>3, <1>8, <2>2 DEF Open
<1> QED
  BY <1>5, <1>6, <1>7, <1>8 DEF grown

\* A new retry is apart from the earlier ones once all of these are closed.
LEMMA NewStart ==
    ASSUME NEW log \in Seq(Item), NEW more \in Seq(Item), StartsIn(more) \subseteq {1},
           Separated(log), Open(log) = {}
    PROVE  /\ Cardinality(StartsIn(log \o more)) <= Cardinality(StartsIn(log)) + 1
           /\ Separated(log \o more)
<1> DEFINE grown == log \o more
           new == Len(log) + 1
<1>1. /\ grown \in Seq(Item) /\ Len(grown) = Len(log) + Len(more)
      /\ Len(log) \in Nat /\ Len(more) \in Nat
      /\ \A i \in 1 .. Len(log) + Len(more) :
           grown[i] = IF i <= Len(log) THEN log[i] ELSE more[i - Len(log)]
  BY ConcatProperties, LenProperties
<1> HIDE DEF grown
<1>2. \A i \in 1 .. Len(log) : grown[i] = log[i]
  BY <1>1
<1>3. \A i \in Len(log) + 1 .. Len(grown) : /\ i - Len(log) \in 1 .. Len(more)
                                            /\ grown[i] = more[i - Len(log)]
  BY <1>1
<1>4. StartsIn(grown) \subseteq StartsIn(log) \cup {new}
  <2> SUFFICES ASSUME NEW i \in StartsIn(grown) PROVE i \in StartsIn(log) \cup {new}
    OBVIOUS
  <2>1. CASE i <= Len(log)
    BY <1>1, <1>2, <2>1 DEF StartsIn
  <2>2. CASE i > Len(log)
    <3>1. i \in Len(log) + 1 .. Len(grown)
      BY <1>1, <2>2 DEF StartsIn
    <3>2. i - Len(log) \in StartsIn(more)
      BY <1>3, <3>1 DEF StartsIn
    <3> QED
      BY <1>1, <3>1, <3>2
  <2> QED
    BY <1>1, <2>1, <2>2 DEF StartsIn
<1>5. Cardinality(StartsIn(grown)) <= Cardinality(StartsIn(log)) + 1
  <2>1. IsFiniteSet(StartsIn(log)) /\ Cardinality(StartsIn(log)) \in Nat
    BY StartsAreFinite
  <2>2. /\ IsFiniteSet(StartsIn(log) \cup {new})
        /\ Cardinality(StartsIn(log) \cup {new})
             \in {Cardinality(StartsIn(log)), Cardinality(StartsIn(log)) + 1}
    BY <2>1, FS_AddElement
  <2>3. Cardinality(StartsIn(grown)) <= Cardinality(StartsIn(log) \cup {new})
    BY <1>4, <2>2, FS_Subset
  <2>4. Cardinality(StartsIn(grown)) \in Nat
    BY <1>1, StartsAreFinite
  <2> QED
    BY <2>1, <2>2, <2>3, <2>4
<1>6. Separated(grown)
  <2> SUFFICES ASSUME NEW i \in StartsIn(grown), NEW j \in StartsIn(grown), i < j
               PROVE  \E k \in i .. j : grown[k].kind = "turn_start"
    BY DEF Separated
  <2>1. i \in StartsIn(log) /\ i \in 1 .. Len(log)
    <3>1. StartsIn(log) \subseteq 1 .. Len(log)
      BY DEF StartsIn
    <3>2. j <= new /\ i \in StartsIn(log) \cup {new}
      BY <1>1, <1>4, <3>1
    <3>3. i # new
      BY <1>1, <1>4, <3>1, <3>2
    <3> QED
      BY <3>1, <3>2, <3>3
  <2>2. CASE j \in StartsIn(log)
    <3>1. PICK k \in i .. j : log[k].kind = "turn_start"
      BY <2>1, <2>2 DEF Separated
    <3>2. k \in 1 .. Len(log)
      BY <1>1, <2>1, <2>2 DEF StartsIn
    <3> QED
      BY <1>2, <3>1, <3>2
  <2>3. CASE j = new
    <3>1. PICK k \in i .. Len(log) : log[k].kind = "turn_start"
      BY <2>1 DEF Open
    <3>2. k \in 1 .. Len(log) /\ k \in i .. j
      BY <1>1, <2>1, <2>3
    <3> QED
      BY <1>2, <3>1, <3>2
  <2> QED
    BY <1>4, <2>2, <2>3
<1> QED
  BY <1>5, <1>6 DEF grown

\* A log cut short has no more retries than it had.
LEMMA CutLog ==
    ASSUME NEW log \in Seq(Item), NEW n \in 0 .. Len(log)
    PROVE  /\ Cardinality(StartsIn(SubSeq(log, 1, n))) <= Cardinality(StartsIn(log))
           /\ Separated(log) => Separated(SubSeq(log, 1, n))
<1> DEFINE cut == SubSeq(log, 1, n)
<1>1. /\ cut \in Seq(Item) /\ Len(cut) = n /\ \A i \in 1 .. n : cut[i] = log[i]
      /\ Len(log) \in Nat
  BY PrefixType, LenProperties
<1> HIDE DEF cut
<1>2. StartsIn(cut) \subseteq StartsIn(log)
  BY <1>1 DEF StartsIn
<1>3. Cardinality(StartsIn(cut)) <= Cardinality(StartsIn(log))
  BY <1>2, StartsAreFinite, FS_Subset
<1>4. Separated(log) => Separated(cut)
  <2> SUFFICES ASSUME Separated(log), NEW i \in StartsIn(cut), NEW j \in StartsIn(cut), i < j
               PROVE  \E k \in i .. j : cut[k].kind = "turn_start"
    BY DEF Separated
  <2>1. PICK k \in i .. j : log[k].kind = "turn_start"
    BY <1>2 DEF Separated
  <2>2. k \in 1 .. n
    BY <1>1 DEF StartsIn
  <2> QED
    BY <1>1, <2>1, <2>2
<1> QED
  BY <1>3, <1>4 DEF cut

\* Publishing an event moves it from what is to be published to what is; what
\* follows a failed observer is not published.
LEMMA EmitLog ==
    ASSUME NEW S, NEW done \in Seq(S), NEW rest \in Seq(S), rest # <<>>
    PROVE  /\ Append(done, Head(rest)) \o Tail(rest) = done \o rest
           /\ Append(done, Head(rest)) \o <<>> = SubSeq(done \o rest, 1, Len(done) + 1)
           /\ Len(done) + 1 \in 0 .. Len(done \o rest)
<1>1. /\ Head(rest) \in S /\ Head(rest) = rest[1] /\ Len(rest) \in Nat \ {0} /\ Len(done) \in Nat
      /\ Tail(rest) \in Seq(S) /\ Len(Tail(rest)) = Len(rest) - 1
      /\ \A i \in 1 .. Len(Tail(rest)) : Tail(rest)[i] = rest[i + 1]
  BY HeadTailProperties, EmptySeq, LenProperties
<1> DEFINE head == Head(rest)
           tail == Tail(rest)
           both == done \o rest
           one == Append(done, head)
<1>2. /\ both \in Seq(S) /\ Len(both) = Len(done) + Len(rest)
      /\ \A i \in 1 .. Len(done) + Len(rest) :
           both[i] = IF i <= Len(done) THEN done[i] ELSE rest[i - Len(done)]
  BY ConcatProperties
<1>3. /\ one \in Seq(S) /\ Len(one) = Len(done) + 1 /\ one[Len(done) + 1] = head
      /\ \A i \in 1 .. Len(done) : one[i] = done[i]
  BY <1>1, AppendProperties
<1> HIDE DEF head, tail, both, one
<1>4. /\ one \o tail \in Seq(S) /\ Len(one \o tail) = Len(one) + Len(tail)
      /\ \A i \in 1 .. Len(one) + Len(tail) :
           (one \o tail)[i] = IF i <= Len(one) THEN one[i] ELSE tail[i - Len(one)]
  BY <1>1, <1>3, ConcatProperties DEF tail
<1>5. one \o tail = both
  <2>1. Len(one \o tail) = Len(both) /\ Len(both) \in Nat
    BY <1>1, <1>2, <1>3, <1>4 DEF tail
  <2>2. ASSUME NEW i \in 1 .. Len(both) PROVE (one \o tail)[i] = both[i]
    <3>1. CASE i <= Len(done)
      BY <1>1, <1>2, <1>3, <1>4, <2>1, <2>2, <3>1
    <3>2. CASE i = Len(done) + 1
      BY <1>1, <1>2, <1>3, <1>4, <2>1, <2>2, <3>2 DEF head
    <3>3. CASE i > Len(done) + 1
      <4>1. (one \o tail)[i] = tail[i - Len(one)] /\ i - Len(one) \in 1 .. Len(tail)
        BY <1>1, <1>3, <1>4, <2>1, <2>2, <3>3
      <4>2. tail[i - Len(one)] = rest[i - Len(done)]
        BY <1>1, <1>3, <4>1 DEF tail
      <4> QED
        BY <1>1, <1>2, <3>3, <4>1, <4>2
    <3> QED
      BY <1>1, <2>1, <3>1, <3>2, <3>3
  <2> QED
    BY <1>2, <1>4, <2>1, <2>2, SeqEqual
<1>6. one \o <<>> = SubSeq(both, 1, Len(done) + 1)
  <2>1. one \o <<>> = one
    BY <1>3, ConcatEmptySeq
  <2>2. Len(done) + 1 \in Nat /\ Len(done) + 1 <= Len(both)
    BY <1>1, <1>2
  <2>3. /\ SubSeq(both, 1, Len(done) + 1) \in Seq(S)
        /\ Len(SubSeq(both, 1, Len(done) + 1)) = Len(done) + 1
        /\ \A i \in 1 .. Len(done) + 1 : SubSeq(both, 1, Len(done) + 1)[i] = both[i]
    BY <1>2, <2>2, PrefixType
  <2>4. \A i \in 1 .. Len(one) : one[i] = SubSeq(both, 1, Len(done) + 1)[i]
    BY <1>1, <1>2, <1>3, <2>3 DEF head
  <2> QED
    BY <1>3, <2>1, <2>3, <2>4, SeqEqual
<1>7. Len(done) + 1 \in 0 .. Len(both)
  BY <1>1, <1>2
<1> QED
  BY <1>5, <1>6, <1>7 DEF head, tail, both, one

-----------------------------------------------------------------------------
NoStart(s) == \A i \in 1 .. Len(s) : s[i].kind # "automatic_compaction_start"

LEMMA NoStartIn ==
    /\ NoStart(<<>>) /\ NoStart(AgentEnd) /\ NoStart(TurnEnd) /\ NoStart(EndOfRun)
    /\ \A id \in Nat : /\ NoStart(Published(id)) /\ NoStart(<<Event("message_end", id)>>)
                       /\ NoStart(<<Event("message_start", id), Event("message_update", id)>>)
    /\ NoStart(<<CompactionEnd>>)
    /\ NoStart(<<SkippedEvent("breaker")>> \o EndOfRun)
    /\ NoStart(<<Event("automatic_compaction_end", "overflow")>> \o EndOfRun)
    /\ \A id \in Nat : NoStart(Published(id) \o EndOfRun) /\ NoStart(<<>> \o EndOfRun)
BY DEF NoStart, AgentEnd, TurnEnd, EndOfRun, Published, Event, CompactionEnd, SkippedEvent

\* A step of the turn loop that neither retries, nor announces a retry, nor
\* lets the next request come after one.
Aside ==
    /\ NoStart(out') /\ ~ToRetry'
    /\ policy'.retries = policy.retries /\ policy'.retried = policy.retried
    /\ pc' \in AfterResponse \/ pc \notin AfterResponse \cup {"response"}

LEMMA LoopRetries ==
    ASSUME TypeInv, TurnLoop
    PROVE  \/ Aside \/ AdvanceTurn \/ RetryOverflow \/ StartCompaction
           \/ \E reason \in Responses, n \in 0 .. MaxCalls : StreamEnds(reason, n)
<1> USE NoStartIn DEF policyVars, Ready, Fail, Aside, ToRetry, AfterResponse, EndLabels, Terminal
<1> nextId \in Nat /\ turn \in Nat
  BY DEF TypeInv, AgentType, RunType
<1>a. /\ [loop EXCEPT !.compacting = "threshold"].compacting = "threshold"
      /\ [policy EXCEPT !.cancelled = TRUE].retries = policy.retries
      /\ [policy EXCEPT !.cancelled = TRUE].retried = policy.retried
  BY DEF TypeInv, LoopType, LoopLocals, PolicyType
<1>1. CASE Start
  <2> DEFINE prompts == [i \in 1 .. 2 * Prompts |->
                 Event(IF i % 2 = 1 THEN "message_start" ELSE "message_end",
                       Durable + (i + 1) \div 2)]
             Plain == [kind : {"agent_start", "turn_start", "message_start", "message_end"},
                       of : Nat]
  <2>1. /\ out' = <<Event("agent_start", 0), Event("turn_start", 1)>> \o prompts
        /\ pc' # "compact" /\ policy' = policy /\ pc = "created"
    BY <1>1 DEF Start
  <2>2. 2 * Prompts \in Nat /\ Durable \in Nat
    BY ScenarioFacts DEF TypeInv, RunType
  <2>3. \A i \in 1 .. 2 * Prompts : Durable + (i + 1) \div 2 \in Nat
    BY <2>2
  <2>4. prompts \in [1 .. 2 * Prompts -> Plain]
    BY <2>3 DEF Event
  <2>5. Event("agent_start", 0) \in Plain /\ Event("turn_start", 1) \in Plain
    BY DEF Event
  <2>6. \A e \in Plain : e.kind # "automatic_compaction_start"
    OBVIOUS
  <2> HIDE DEF prompts, Plain
  <2>7. prompts \in Seq(Plain) /\ <<Event("agent_start", 0), Event("turn_start", 1)>> \in Seq(Plain)
    BY <2>2, <2>4, <2>5, SeqDef
  <2>8. out' \in Seq(Plain)
    BY <2>1, <2>7, ConcatProperties
  <2>9. NoStart(out')
    BY <2>6, <2>8, ElementOfSeq DEF NoStart
  <2> QED
    BY <2>1, <2>9
<1>2. CASE InitialDrain \/ Inject \/ Injected \/ BelowThreshold
  BY <1>2 DEF InitialDrain, Inject, Injected, BelowThreshold
<1>3. CASE AboveThreshold
  BY <1>a, <1>3 DEF AboveThreshold
<1>4. CASE CompactionLimit \/ CompactionFails
  BY <1>4 DEF CompactionLimit, CompactionFails, RefuseCompaction
<1>5. CASE CompactionCancelled
  BY <1>a, <1>5 DEF CompactionCancelled, RefuseCompaction
<1>6. CASE CommitReplacement
  BY <1>6 DEF CommitReplacement
<1>7. CASE Request \/ TextDelta \/ StreamFails
  BY <1>7 DEF Request, TextDelta, StreamFails
<1>8. CASE ResponseFailed \/ ModelFailed \/ ResponseCancelled \/ UnexpectedCalls \/ NoTools
  BY <1>8 DEF ResponseFailed, ModelFailed, ResponseCancelled, UnexpectedCalls, NoTools
<1>9. CASE UseTools
  BY <1>9 DEF UseTools
<1>10. CASE Announce \/ \E i \in 1 .. batch.announced : EndTool(i)
  BY <1>10 DEF Announce, EndTool, NoStart, Event
<1>11. CASE Answer
  BY <1>11 DEF Answer
<1>12. CASE Observe
  BY <1>12 DEF Observe
<1>13. CASE SkipCall \/ ToolsDone \/ BreakerTripped
  BY <1>13 DEF SkipCall, ToolsDone, BreakerTripped, BatchDone
<1>14. CASE HookFails \/ ShouldStop \/ GoOn \/ DrainSteering \/ DrainFollowUp \/ LastTurn
  BY <1>14 DEF HookFails, ShouldStop, GoOn, DrainSteering, DrainFollowUp, LastTurn, Succeed
<1> QED
  BY <1>1, <1>2, <1>3, <1>6, <1>7, <1>8, <1>9, <1>10, <1>11, <1>12, <1>13, <1>14,
     <1>4, <1>5 DEF TurnLoop

LEMMA BoundInit == Init => Bounds
<1> SUFFICES ASSUME Init PROVE Bounds
  OBVIOUS
<1>1. Log = <<>> /\ policy.retries = 0 /\ pc = "created"
  BY ConcatEmptySeq, EmptySeq DEF Init, Log
<1>2. StartsIn(Log) = {} /\ Open(Log) = {}
  BY <1>1, EmptySeq DEF StartsIn, Open
<1>3. Cardinality(StartsIn(Log)) = 0
  BY <1>2, FS_EmptySet
<1> QED
  BY <1>1, <1>2, <1>3 DEF Bounds, ToRetry, Separated

LEMMA BoundStep == TypeInv /\ TypeInv' /\ Closes /\ Bounds /\ Next => Bounds'
<1> SUFFICES ASSUME TypeInv, TypeInv', Closes, Bounds, Next PROVE Bounds'
  OBVIOUS
<1> USE DEF Ready, Fail, Terminal, AfterResponse, EndLabels
<1>a. /\ events \in Seq(Item) /\ out \in Seq(Item) /\ events' \in Seq(Item) /\ out' \in Seq(Item)
      /\ policy.retries \in Nat /\ policy.retried \in BOOLEAN
  BY ScenarioFacts DEF TypeInv, LogType, PolicyType, RunType
<1>b. Log \in Seq(Item) /\ Log' \in Seq(Item)
  BY <1>a, ConcatProperties DEF Log
<1>c. Cardinality(StartsIn(Log)) \in Nat
  BY <1>b, StartsAreFinite
<1>1. CASE Emit
  <2>1. /\ out # <<>> /\ events' = Append(events, Head(out))
        /\ policy' = policy /\ loop' = loop
        /\ \/ out' = Tail(out) /\ pc' = pc
           \/ out' = <<>> /\ pc' = "errored"
    BY <1>1 DEF Emit, policyVars, localVars
  <2>2. CASE out' = Tail(out) /\ pc' = pc
    <3>1. Log' = Log
      BY <1>a, <2>1, <2>2, EmitLog DEF Log
    <3> QED
      BY <2>1, <2>2, <3>1 DEF Bounds, ToRetry
  <2>3. CASE out' = <<>> /\ pc' = "errored"
    <3>1. Log' = SubSeq(Log, 1, Len(events) + 1) /\ Len(events) + 1 \in 0 .. Len(Log)
      BY <1>a, <2>1, <2>3, EmitLog DEF Log
    <3>2. /\ Cardinality(StartsIn(Log')) <= Cardinality(StartsIn(Log))
          /\ Separated(Log')
      BY <1>b, <3>1, CutLog DEF Bounds
    <3>3. Cardinality(StartsIn(Log')) \in Nat
      BY <1>b, StartsAreFinite
    <3> QED
      BY <1>a, <1>c, <2>1, <2>3, <3>2, <3>3 DEF Bounds, ToRetry
  <2> QED
    BY <2>1, <2>2, <2>3
\* Where no event of the log is withdrawn.
<1>2. ASSUME out = <<>>, events' = events PROVE Log' = Log \o out'
  BY <1>a, <1>2, ConcatEmptySeq DEF Log
<1>3. ASSUME out = <<>>, events' = events, StartsIn(out') = {}
      PROVE  /\ Cardinality(StartsIn(Log')) = Cardinality(StartsIn(Log)) /\ Separated(Log')
             /\ Open(Log) = {} => Open(Log') = {}
             /\ (\E i \in 1 .. Len(out') : out'[i].kind = "turn_start") => Open(Log') = {}
  <2>1. Log' = Log \o out'
    BY <1>2, <1>3
  <2> QED
    BY <1>a, <1>b, <1>3, <2>1, QuietGrowth DEF Bounds
<1>d. NoStart(out') => StartsIn(out') = {}
  BY DEF NoStart, StartsIn
<1>4. CASE TurnLoop
  <2>1. out = <<>> /\ events' = events
    BY <1>4, LoopFrame
  <2>2. CASE Aside
    BY <1>a, <1>c, <1>d, <1>3, <2>1, <2>2 DEF Aside, Bounds
  <2>3. CASE AdvanceTurn
    <3>1. /\ out' = <<Event("turn_start", turn + 1)>> /\ pc' = "inject" /\ policy' = policy
      BY <2>3 DEF AdvanceTurn, policyVars
    <3>2. NoStart(out') /\ Len(out') = 1 /\ out'[1].kind = "turn_start"
      BY <3>1 DEF NoStart, Event
    <3>3. Open(Log') = {}
      BY <1>d, <1>3, <2>1, <3>2
    <3> QED
      BY <1>a, <1>c, <1>d, <1>3, <2>1, <3>1, <3>2, <3>3 DEF Bounds, ToRetry
  <2>4. CASE RetryOverflow
    <3>1. /\ out' = out /\ pc' = "compact" /\ pc = "response" /\ loop.reason = "Overflow"
          /\ policy' = [policy EXCEPT !.retries = @ + 1, !.retried = TRUE]
          /\ ~policy.retried
      BY <2>4 DEF RetryOverflow, Recovers, Overflowed, RetryAllowed
    <3>2. policy'.retries = policy.retries + 1 /\ policy'.retried
      BY <3>1 DEF TypeInv, PolicyType
    <3>3. NoStart(out')
      BY <2>1, <3>1, NoStartIn
    <3>4. Open(Log) = {}
      BY <3>1 DEF Bounds
    <3> QED
      BY <1>a, <1>c, <1>d, <1>3, <2>1, <3>1, <3>2, <3>3, <3>4 DEF Bounds, ToRetry
  <2>5. CASE StartCompaction
    <3>1. /\ out' = <<CompactionStart, SkippedEvent("compaction")>> /\ pc' = "compacting"
          /\ pc = "compact" /\ policy' = [policy EXCEPT !.compactions = @ + 1]
      BY <2>5 DEF StartCompaction
    <3>2. policy'.retries = policy.retries /\ policy'.retried = policy.retried
      BY <3>1 DEF TypeInv, PolicyType
    <3>3. Log' = Log \o out'
      BY <1>2, <2>1
    <3>4. CASE loop.compacting = "overflow"
      <4>1. ToRetry
        BY <3>1, <3>4 DEF ToRetry
      <4>2. StartsIn(out') \subseteq {1}
        BY <3>1 DEF StartsIn, SkippedEvent, Event
      <4>3. Cardinality(StartsIn(Log')) <= Cardinality(StartsIn(Log)) + 1 /\ Separated(Log')
        BY <1>a, <1>b, <3>3, <4>1, <4>2, NewStart DEF Bounds
      <4>4. Cardinality(StartsIn(Log')) \in Nat
        BY <1>b, StartsAreFinite
      <4> QED
        BY <1>a, <1>c, <3>1, <3>2, <4>1, <4>3, <4>4 DEF Bounds, ToRetry
    <3>5. CASE loop.compacting # "overflow"
      <4>1. StartsIn(out') = {}
        BY <3>1, <3>5 DEF StartsIn, CompactionStart, SkippedEvent, Event
      <4>2. policy'.retried \/ Open(Log') = {}
        BY <1>3, <2>1, <3>1, <3>2, <4>1 DEF Bounds
      <4> QED
        BY <1>a, <1>c, <1>3, <2>1, <3>1, <3>2, <4>1, <4>2 DEF Bounds, ToRetry
    <3> QED
      BY <3>4, <3>5
  <2>6. ASSUME NEW reason \in Responses, NEW n \in 0 .. MaxCalls, StreamEnds(reason, n)
        PROVE  Bounds'
    <3>1. /\ pc = "streaming" /\ pc' = "response"
          /\ policy' = [policy EXCEPT !.retried = @ /\ reason = "Overflow"]
      BY <2>6 DEF StreamEnds
    <3>2. loop'.reason = reason
      BY <2>6 DEF StreamEnds, TypeInv, LoopType, LoopLocals
    <3>3. policy'.retries = policy.retries
      BY <3>1 DEF TypeInv, PolicyType
    <3>4. reason = "Overflow" => policy'.retried = policy.retried
      BY <3>1 DEF TypeInv, PolicyType
    <3>5. NoStart(out')
      <4>1. nextId \in Nat /\ loop.assistant \in Nat
        BY DEF TypeInv, AgentType, LoopType, LoopLocals
      <4> QED
        BY <2>6, <4>1, NoStartIn DEF StreamEnds
    <3> QED
      BY <1>a, <1>c, <1>d, <1>3, <2>1, <3>1, <3>2, <3>3, <3>4, <3>5 DEF Bounds, ToRetry
  <2> QED
    BY <1>4, <2>2, <2>3, <2>4, <2>5, <2>6, LoopRetries
<1>5. CASE \/ Finish \/ SettleFailure \/ SettleCancellation
           \/ SettleCompactionFailure \/ SettleCompactionCancellation
  <2>1. /\ out = <<>> /\ events' = events /\ policy' = policy
        /\ pc' \in Terminal \cup {"settled"} /\ NoStart(out')
    <3>1. CASE Finish
      BY <3>1, NoStartIn DEF Finish, logVars, policyVars
    <3>2. nextId \in Nat
      BY DEF TypeInv, AgentType
    <3>3. CASE \/ SettleFailure \/ SettleCancellation
               \/ SettleCompactionFailure \/ SettleCompactionCancellation
      BY <3>2, <3>3, NoStartIn DEF SettleFailure, SettleCancellation, SettleCompactionFailure,
         SettleCompactionCancellation, Settle, logVars, policyVars
    <3> QED
      BY <1>5, <3>1, <3>3
  <2> QED
    BY <1>a, <1>c, <1>d, <1>3, <2>1 DEF Bounds, ToRetry
<1>6. CASE Host
  <2>1. UNCHANGED <<events, out, pc, loop, policy>>
    BY <1>6 DEF Host, Abort, ClearQueues, Steer, FollowUp, driverVars, logVars, localVars,
                policyVars
  <2>2. Log' = Log
    BY <2>1 DEF Log
  <2> QED
    BY <2>1, <2>2 DEF Bounds, ToRetry
<1> QED
  BY <1>1, <1>4, <1>5, <1>6 DEF Next, Drive

LEMMA BoundImplied == TypeInv /\ Bounds => RetriesAreBounded
<1> SUFFICES ASSUME TypeInv, Bounds PROVE RetriesAreBounded
  OBVIOUS
<1>1. Log \in Seq(Item)
  BY ConcatProperties DEF TypeInv, LogType, Log
<1>2. OverflowStarts = StartsIn(Log)
  BY <1>1, LenProperties DEF OverflowStarts, LoggedAt, StartsIn
<1>3. /\ policy.retries \in Nat /\ policy.retries <= MaxOverflowRetries
      /\ MaxOverflowRetries \in Nat /\ Cardinality(StartsIn(Log)) \in Nat
  BY <1>1, ScenarioFacts, StartsAreFinite DEF TypeInv, PolicyType, RunType
<1> QED
  BY <1>2, <1>3 DEF Bounds, Separated, RetriesAreBounded

-----------------------------------------------------------------------------
\* A message adds its own calls or its own result to those of the transcript.
LEMMA AppendRange ==
    ASSUME NEW S, NEW s \in Seq(S), NEW x \in S
    PROVE  RangeOf(Append(s, x)) = RangeOf(s) \cup {x}
<1>1. /\ Append(s, x) \in Seq(S) /\ Len(Append(s, x)) = Len(s) + 1 /\ Len(s) \in Nat
      /\ \A i \in 1 .. Len(s) : Append(s, x)[i] = s[i]
      /\ Append(s, x)[Len(s) + 1] = x
  BY AppendProperties, LenProperties
<1> DEFINE t == Append(s, x)
<1>2. /\ RangeOf(s) = {s[i] : i \in 1 .. Len(s)}
      /\ RangeOf(t) = {t[i] : i \in 1 .. Len(t)}
  BY <1>1, RangeType
<1>3. 1 .. Len(t) = (1 .. Len(s)) \cup {Len(s) + 1}
  BY <1>1
<1> HIDE DEF t
<1> QED
  BY <1>1, <1>2, <1>3 DEF t

LEMMA SmallRanges == RangeOf(<<>>) = {} /\ \A x : RangeOf(<<x>>) = {x}
BY DEF RangeOf

LEMMA AppendCalls ==
    ASSUME NEW s \in Seq(Message), NEW m \in Message
    PROVE  /\ CallsOf(Append(s, m)) = CallsOf(s) \cup
                IF m.role = "assistant" THEN RangeOf(m.calls) ELSE {}
           /\ ResultsOf(Append(s, m)) = ResultsOf(s) \cup
                IF m.role = "tool_result" THEN RangeOf(m.calls) ELSE {}
<1>1. RangeOf(Append(s, m)) = RangeOf(s) \cup {m}
  BY AppendRange
<1> QED
  BY <1>1 DEF CallsOf, ResultsOf

\* The kinds of message a run appends.
LEMMA AppendKinds ==
    ASSUME NEW s \in Seq(Message), NEW id \in Nat \ {0}
    PROVE  /\ \A input \in Nat :
                /\ CallsOf(Append(s, User(id, input))) = CallsOf(s)
                /\ ResultsOf(Append(s, User(id, input))) = ResultsOf(s)
           /\ \A stop \in StopReasons \cup {"None"}, calls \in Seq(Call) :
                /\ CallsOf(Append(s, Assistant(id, stop, calls))) = CallsOf(s) \cup RangeOf(calls)
                /\ ResultsOf(Append(s, Assistant(id, stop, calls))) = ResultsOf(s)
           /\ \A call \in Call :
                /\ CallsOf(Append(s, ToolResult(id, call))) = CallsOf(s)
                /\ ResultsOf(Append(s, ToolResult(id, call))) = ResultsOf(s) \cup {call}
<1>1. ASSUME NEW input \in Nat
      PROVE  /\ CallsOf(Append(s, User(id, input))) = CallsOf(s)
             /\ ResultsOf(Append(s, User(id, input))) = ResultsOf(s)
  <2>1. User(id, input) \in Message /\ User(id, input).role = "user"
    BY MakeMessage DEF User
  <2> QED
    BY <2>1, AppendCalls
<1>2. ASSUME NEW stop \in StopReasons \cup {"None"}, NEW calls \in Seq(Call)
      PROVE  /\ CallsOf(Append(s, Assistant(id, stop, calls))) = CallsOf(s) \cup RangeOf(calls)
             /\ ResultsOf(Append(s, Assistant(id, stop, calls))) = ResultsOf(s)
  <2>1. /\ Assistant(id, stop, calls) \in Message
        /\ Assistant(id, stop, calls).role = "assistant"
        /\ Assistant(id, stop, calls).calls = calls
    BY MakeMessage DEF Assistant
  <2> QED
    BY <2>1, AppendCalls
<1>3. ASSUME NEW call \in Call
      PROVE  /\ CallsOf(Append(s, ToolResult(id, call))) = CallsOf(s)
             /\ ResultsOf(Append(s, ToolResult(id, call))) = ResultsOf(s) \cup {call}
  <2>1. /\ ToolResult(id, call) \in Message
        /\ ToolResult(id, call).role = "tool_result"
        /\ ToolResult(id, call).calls = <<call>>
    BY MakeMessage DEF ToolResult
  <2> QED
    BY <2>1, AppendCalls, SmallRanges
<1> QED
  BY <1>1, <1>2, <1>3

LEMMA AskInit == Init => Asks
<1> SUFFICES ASSUME Init PROVE Asks
  OBVIOUS
<1>1. \A m \in RangeOf(messages) : m.calls = <<>>
  BY DEF Init, RangeOf, User, Assistant
<1>2. CallsOf(messages) = {} /\ ResultsOf(messages) = {}
  BY <1>1, SmallRanges DEF CallsOf, ResultsOf
<1> QED
  BY <1>2 DEF Init, Asks, Compactable

LEMMA AskStep == TypeInv /\ TypeInv' /\ Closes /\ Asks /\ Next => Asks'
<1> SUFFICES ASSUME TypeInv, TypeInv', Closes, Asks, Next PROVE Asks'
  OBVIOUS
<1> USE DEF Ready, Fail, Terminal, RestLabels
<1>a. /\ messages \in Seq(Message) /\ messages' \in Seq(Message) /\ nextId \in Nat \ {0}
      /\ loop.requestCount \in Nat /\ loop.assistant \in Nat /\ loop.calls \in Seq(Call)
      /\ Len(messages) \in Nat /\ Len(loop.calls) \in Nat
      /\ batch.answered \in Nat /\ batch.announced \in Nat /\ batch.observed <= batch.answered
  BY LenProperties DEF TypeInv, AgentType, LoopType, LoopLocals, BatchType, BatchLocals
\* Steps that leave the transcript alone, outside requests and batches.
<1>1. ASSUME messages' = messages, pc' \notin {"streaming", "response", "tools"},
             pc \in RestLabels \/ pc' \notin RestLabels, runPhase' # "Succeeded"
      PROVE  Asks'
  BY <1>1 DEF Asks
<1>2. CASE Emit
  <2>1. /\ messages' = messages /\ loop' = loop /\ batch' = batch /\ runPhase' = runPhase
        /\ pc' \in {pc, "errored"}
    BY <1>2 DEF Emit, agentVars, localVars, runVars
  <2> QED
    BY <2>1 DEF Asks, Request_, Answered
<1>3. CASE Finish
  <2>1. messages' = messages /\ runPhase' = pc /\ pc' = "settled"
    BY <1>3 DEF Finish
  <2> QED
    BY <2>1 DEF Asks
<1>4. CASE \/ SettleFailure \/ SettleCancellation
           \/ SettleCompactionFailure \/ SettleCompactionCancellation
  <2>1. pc = "errored" /\ pc' \in {"Failed", "Cancelled"} /\ runPhase' = runPhase
    BY <1>4 DEF SettleFailure, SettleCancellation, SettleCompactionFailure,
                SettleCompactionCancellation, Settle, runVars
  <2> QED
    BY <2>1 DEF Asks, Closes, Done
<1>5. CASE Host
  <2>1. UNCHANGED <<messages, pc, loop, batch, runPhase>>
    BY <1>5 DEF Host, Abort, ClearQueues, Steer, FollowUp, driverVars, agentVars, runVars,
                localVars
  <2> QED
    BY <2>1 DEF Asks, Request_, Answered
<1>6. TurnLoop => runPhase' # "Succeeded"
  BY LoopFrame DEF Closes, Done
<1>7. CASE \/ Start \/ InitialDrain \/ Injected \/ BelowThreshold \/ AboveThreshold
           \/ CompactionLimit \/ StartCompaction \/ CompactionFails \/ CompactionCancelled
           \/ StreamFails \/ ResponseFailed \/ ModelFailed \/ ResponseCancelled
           \/ UnexpectedCalls \/ BreakerTripped \/ HookFails \/ ShouldStop \/ GoOn
           \/ DrainSteering \/ DrainFollowUp \/ AdvanceTurn \/ LastTurn
  <2>1. TurnLoop
    BY <1>7 DEF TurnLoop
  <2>2. /\ messages' = messages /\ pc' \notin {"streaming", "response", "tools"}
        /\ pc \in RestLabels \/ pc' \notin RestLabels
    <3> USE DEF agentVars
    <3>1. CASE Start \/ InitialDrain \/ Injected \/ BelowThreshold \/ AboveThreshold
      BY <3>1 DEF Start, InitialDrain, Injected, BelowThreshold, AboveThreshold
    <3>2. CASE CompactionLimit \/ StartCompaction \/ CompactionFails \/ CompactionCancelled
      BY <3>2 DEF CompactionLimit, StartCompaction, CompactionFails, CompactionCancelled,
                  RefuseCompaction
    <3>3. CASE \/ StreamFails \/ ResponseFailed \/ ModelFailed \/ ResponseCancelled
               \/ UnexpectedCalls \/ BreakerTripped
      BY <3>3 DEF StreamFails, ResponseFailed, ModelFailed, ResponseCancelled,
                  UnexpectedCalls, BreakerTripped, BatchDone
    <3>4. CASE \/ HookFails \/ ShouldStop \/ GoOn \/ DrainSteering \/ DrainFollowUp
               \/ AdvanceTurn \/ LastTurn
      BY <3>4 DEF HookFails, ShouldStop, GoOn, DrainSteering, DrainFollowUp, AdvanceTurn,
                  LastTurn, Succeed
    <3> QED
      BY <1>7, <3>1, <3>2, <3>3, <3>4
  <2> QED
    BY <1>1, <1>6, <2>1, <2>2
<1>8. CASE Inject
  <2>1. /\ messages' = Append(messages, User(nextId, Head(loop.queued)))
        /\ pc' = pc /\ pc = "inject" /\ Head(loop.queued) \in Nat /\ runPhase' = runPhase
    BY <1>8, HeadTailProperties DEF Inject, TypeInv, LoopType, LoopLocals, runVars
  <2>2. Compactable(messages')
    BY <1>a, <2>1, AppendKinds DEF Asks, Compactable
  <2> QED
    BY <2>1, <2>2 DEF Asks
<1>9. CASE CommitReplacement
  <2>1. Compactable(messages') /\ pc' = "request" /\ runPhase' = runPhase /\ pc = "compacting"
    BY <1>9 DEF CommitReplacement, runVars
  <2> QED
    BY <2>1 DEF Asks, Closes, Done
<1>10. CASE Request
  <2>1. /\ messages' = messages /\ pc = "request" /\ runPhase' = runPhase
        /\ pc' \in {"streaming", "errored"} /\ loop'.assistant = 0
        /\ loop'.requestCount = Len(messages)
    BY <1>10 DEF Request, runVars, TypeInv, LoopType, LoopLocals
  <2>2. Request_' = messages'
    BY <1>a, <2>1, SubSeqFull DEF Request_
  <2> QED
    BY <2>1, <2>2 DEF Asks
<1>11. CASE TextDelta
  <2>1. /\ messages' = Append(messages, Assistant(nextId, "None", <<>>))
        /\ pc' = pc /\ pc = "streaming" /\ runPhase' = runPhase
        /\ loop'.assistant = nextId /\ loop'.requestCount = loop.requestCount
        /\ loop.assistant = 0
    BY <1>11 DEF TextDelta, runVars, TypeInv, LoopType, LoopLocals
  <2>2. Assistant(nextId, "None", <<>>) \in Message
    BY <1>a, MakeMessage, EmptySeq
  <2>3. messages = Request_ /\ Len(Request_) = loop.requestCount
    BY <1>a, <2>1, PrefixType DEF Asks, Request_, TypeInv, LoopType
  <2>4. Request_' = Request_
    BY <1>a, <2>1, <2>2, <2>3, AppendPrefix DEF Request_
  <2> QED
    BY <1>a, <2>1, <2>3, <2>4 DEF Asks, Closes, Done
<1>12. ASSUME NEW reason \in Responses, NEW n \in 0 .. MaxCalls, StreamEnds(reason, n)
       PROVE  Asks'
  <2> DEFINE id == IF loop.assistant = 0 THEN nextId ELSE loop.assistant
             calls == [i \in 1 .. n |-> <<id, i>>]
             final == Assistant(id, Stop(reason), calls)
  <2>1. /\ messages' = IF loop.assistant = 0 THEN Append(messages, final)
                                             ELSE Replaced(messages, final)
        /\ pc' = "response" /\ pc = "streaming" /\ runPhase' = runPhase
        /\ loop' = [loop EXCEPT !.assistant = id, !.calls = calls, !.reason = reason]
    BY <1>12 DEF StreamEnds, runVars
  <2>2. loop'.assistant = id /\ loop'.calls = calls /\ loop'.requestCount = loop.requestCount
    BY <2>1 DEF TypeInv, LoopType, LoopLocals
  <2>3. id \in Nat \ {0} /\ Stop(reason) \in StopReasons
    BY <1>a, ScenarioFacts DEF Stop, StopReasons, TypeInv, RunType
  <2>4. calls \in Seq(Call)
    <3>1. calls \in [1 .. n -> Call] /\ n \in Nat
      BY <2>3, ScenarioFacts DEF Call, TypeInv, RunType
    <3> HIDE DEF calls
    <3> QED
      BY <3>1, SeqDef
  <2>5. final \in Message
    BY <2>3, <2>4, MakeMessage
  <2> HIDE DEF id, calls
  <2>6. loop.requestCount <= Len(messages) /\ Request_ \in Seq(Message)
        /\ Len(Request_) = loop.requestCount
    BY <1>a, <2>1, PrefixType DEF Request_, TypeInv, LoopType
  <2>7. messages' = Append(Request_, final)
    <3>1. CASE loop.assistant = 0
      BY <2>1, <3>1 DEF Asks
    <3>2. CASE loop.assistant # 0
      <4>1. messages = Append(Request_, Assistant(loop.assistant, "None", <<>>))
        BY <2>1, <3>2 DEF Asks
      <4>2. Assistant(loop.assistant, "None", <<>>) \in Message
        BY <1>a, <3>2, MakeMessage, EmptySeq
      <4>3. Replaced(messages, final) = Append(Request_, final)
        BY <2>5, <2>6, <4>1, <4>2, ReplacedLast
      <4> QED
        BY <2>1, <3>2, <4>3
    <3> QED
      BY <3>1, <3>2
  <2>8. Request_' = Request_
    BY <2>2, <2>5, <2>6, <2>7, AppendPrefix DEF Request_
  <2>9. Compactable(Request_)
    BY <2>1 DEF Asks
  <2> QED
    BY <2>1, <2>2, <2>3, <2>7, <2>8, <2>9 DEF Asks, Closes, Done
<1>13. CASE RetryOverflow
  <2>1. messages' = Request_ /\ pc = "response" /\ pc' = "compact" /\ runPhase' = runPhase
    BY <1>13 DEF RetryOverflow, Request_, runVars
  <2> QED
    BY <2>1 DEF Asks, Closes, Done
\* The calls of a response in the transcript.
<1>b. pc = "response" =>
        /\ CallsOf(messages) = CallsOf(Request_) \cup RangeOf(loop.calls)
        /\ ResultsOf(messages) = CallsOf(Request_)
        /\ loop.requestCount <= Len(messages)
  <2> SUFFICES ASSUME pc = "response"
               PROVE  /\ CallsOf(messages) = CallsOf(Request_) \cup RangeOf(loop.calls)
                      /\ ResultsOf(messages) = CallsOf(Request_)
                      /\ loop.requestCount <= Len(messages)
    OBVIOUS
  <2>1. PICK stop \in StopReasons :
          messages = Append(Request_, Assistant(loop.assistant, stop, loop.calls))
    BY DEF Asks
  <2>2. loop.requestCount <= Len(messages) /\ Request_ \in Seq(Message)
    BY <1>a, PrefixType DEF Request_, TypeInv, LoopType
  <2>3. CallsOf(Request_) = ResultsOf(Request_)
    BY DEF Asks, Compactable
  <2>4. loop.assistant # 0
    <3>1. LastMessage = Assistant(loop.assistant, stop, loop.calls)
      BY <2>1, <2>2 DEF LastMessage
    <3>2. LastMessage \in Message
      BY <1>a, <2>1 DEF LastMessage
    <3> QED
      BY <3>1, <3>2 DEF Assistant, Message
  <2> QED
    BY <1>a, <2>1, <2>2, <2>3, <2>4, AppendKinds
<1>14. CASE NoTools
  <2>1. /\ messages' = messages /\ pc = "response" /\ pc' = "prepare" /\ loop.calls = <<>>
        /\ runPhase' = runPhase
    BY <1>14 DEF NoTools, agentVars, runVars
  <2>2. Compactable(messages)
    BY <1>b, <2>1, SmallRanges DEF Compactable
  <2> QED
    BY <2>1, <2>2 DEF Asks, Closes, Done
<1>15. CASE UseTools
  <2>1. /\ messages' = messages /\ pc = "response" /\ pc' = "tools" /\ runPhase' = runPhase
        /\ loop' = [loop EXCEPT !.completed = TRUE]
        /\ batch'.answered = 0
    BY <1>15 DEF UseTools, agentVars, runVars, NoBatch
  <2>2. loop'.calls = loop.calls /\ loop'.requestCount = loop.requestCount
    BY <2>1 DEF TypeInv, LoopType, LoopLocals
  <2>3. Request_' = Request_
    BY <2>1, <2>2 DEF Request_
  <2>4. Answered' = {}
    <3>1. 1 .. batch'.answered = {}
      BY <2>1
    <3> QED
      BY <3>1 DEF Answered
  <2> QED
    BY <1>a, <1>b, <2>1, <2>2, <2>3, <2>4 DEF Asks, Closes, Done
\* Steps of a batch that answer nothing.
<1>16. CASE \/ Announce \/ \E i \in 1 .. batch.announced : EndTool(i)
            \/ Observe
  <2>1. messages' = messages /\ pc' = pc /\ pc = "tools" /\ runPhase' = runPhase /\ loop' = loop
    <3>1. CASE Announce
      BY <3>1 DEF Announce, runVars
    <3>2. CASE \E i \in 1 .. batch.announced : EndTool(i)
      BY <3>2 DEF EndTool, runVars
    <3>3. CASE Observe
      BY <3>3 DEF Observe, agentVars, runVars
    <3> QED
      BY <1>16, <3>1, <3>2, <3>3
  <2>2. batch'.answered = batch.answered
    <3>1. CASE Announce
      BY <3>1 DEF Announce, TypeInv, BatchType, BatchLocals
    <3>2. CASE \E i \in 1 .. batch.announced : EndTool(i)
      BY <3>2 DEF EndTool, TypeInv, BatchType, BatchLocals
    <3>3. CASE Observe
      BY <3>3 DEF Observe, TypeInv, BatchType, BatchLocals
    <3> QED
      BY <1>16, <3>1, <3>2, <3>3
  <2> QED
    BY <2>1, <2>2 DEF Asks, Answered, Request_
\* Steps of a batch that answer the next call.
<1>17. CASE Answer \/ SkipCall
  <2> DEFINE next == batch.answered + 1
             call == loop.calls[next]
  <2>1. /\ messages' = Append(messages, ToolResult(nextId, call))
        /\ pc' = pc /\ pc = "tools" /\ runPhase' = runPhase /\ loop' = loop
        /\ next <= Len(loop.calls) /\ batch'.answered = next
    <3>1. CASE Answer
      <4>1. next <= batch.announced /\ pc = "tools"
        BY <3>1 DEF Answer
      <4>2. batch.announced <= Len(loop.calls)
        BY <4>1 DEF TypeInv, BatchType
      <4>3. next <= Len(loop.calls)
        BY <1>a, <4>1, <4>2
      <4>4. batch'.answered = next
        BY <3>1 DEF Answer, TypeInv, BatchType, BatchLocals
      <4> QED
        BY <3>1, <4>1, <4>3, <4>4 DEF Answer, runVars
    <3>2. CASE SkipCall
      BY <3>2 DEF SkipCall, Width, runVars, TypeInv, BatchType, BatchLocals
    <3> QED
      BY <1>17, <3>1, <3>2
  <2>2. next \in 1 .. Len(loop.calls) /\ call \in Call /\ ToolResult(nextId, call) \in Message
    <3>1. next \in Nat \ {0} /\ Len(loop.calls) \in Nat
      BY <1>a
    <3>2. next <= Len(loop.calls)
      BY <2>1
    <3> HIDE DEF next
    <3>3. next \in 1 .. Len(loop.calls)
      BY <3>1, <3>2
    <3>4. call \in Call
      BY <1>a, <3>3, ElementOfSeq
    <3> QED
      BY <1>a, <3>3, <3>4, MakeMessage
  <2>3. /\ CallsOf(messages') = CallsOf(messages)
        /\ ResultsOf(messages') = ResultsOf(messages) \cup {call}
    BY <1>a, <2>1, <2>2, AppendKinds
  <2>4. Answered' = Answered \cup {call}
    <3>1. 1 .. next = (1 .. batch.answered) \cup {next}
      BY <1>a
    <3> QED
      BY <2>1, <3>1 DEF Answered
  <2>5. Request_' = Request_ /\ loop.requestCount <= Len(messages)
    <3>1. loop.requestCount \in 0 .. Len(messages)
      BY <1>a, <2>1 DEF Asks
    <3> QED
      BY <1>a, <2>1, <2>2, <3>1, AppendPrefix DEF Request_
  <2>6. Len(messages') = Len(messages) + 1
    BY <1>a, <2>1, <2>2, AppendProperties
  <2> HIDE DEF next, call
  <2>7. next \in Nat /\ loop'.requestCount <= Len(messages')
    BY <1>a, <2>1, <2>2, <2>5, <2>6
  <2> QED
    BY <2>1, <2>3, <2>4, <2>5, <2>7 DEF Asks, Closes, Done
<1>18. CASE ToolsDone
  <2>1. /\ messages' = messages /\ pc = "tools" /\ pc' = "prepare" /\ runPhase' = runPhase
        /\ batch.observed = Len(loop.calls)
    BY <1>18 DEF ToolsDone, BatchDone, Width, agentVars, runVars
  <2>2. batch.answered = Len(loop.calls)
    BY <1>a, <2>1 DEF Asks, TypeInv, BatchType, BatchLocals
  <2>3. Answered = RangeOf(loop.calls)
    BY <1>a, <2>2, RangeType DEF Answered
  <2>4. Compactable(messages)
    BY <2>1, <2>3 DEF Asks, Compactable
  <2> QED
    BY <2>1, <2>4 DEF Asks, Closes, Done
<1> QED
  BY <1>2, <1>3, <1>4, <1>5, <1>7, <1>8, <1>9, <1>10, <1>11, <1>12, <1>13, <1>14, <1>15,
     <1>16, <1>17, <1>18 DEF Next, Drive, TurnLoop

LEMMA AskImplied == TypeInv /\ Asks => AnsweredWhenAsked
BY DEF Asks, RestLabels, Request_, AnsweredWhenAsked

-----------------------------------------------------------------------------
LEMMA Stutter == RunInv /\ UNCHANGED vars => RunInv'
<1> SUFFICES ASSUME RunInv, UNCHANGED vars PROVE RunInv'
  OBVIOUS
<1>1. /\ UNCHANGED <<agentVars, queueVars, logVars, runVars, driveVars, localVars, policyVars>>
      /\ UNCHANGED <<token, pc, out>>
  BY DEF vars
<1>2. TypeInv'
  <2>1. /\ scenario' = scenario /\ TypeInv
        /\ UNCHANGED agentVars /\ UNCHANGED queueVars /\ UNCHANGED <<runPhase, turn, token>>
        /\ UNCHANGED <<logVars, out>> /\ UNCHANGED <<pc, driveVars>> /\ UNCHANGED loop
        /\ UNCHANGED batch /\ UNCHANGED policyVars /\ UNCHANGED <<pc, messages>>
    BY <1>1 DEF RunInv, runVars, localVars, agentVars
  <2>2. /\ AgentType' /\ QueueType' /\ RunType' /\ LogType'
        /\ DriveType' /\ LoopType' /\ BatchType' /\ PolicyType'
    BY <2>1, TypeSame
  <2> QED
    BY <2>2 DEF TypeInv
<1>3. Closes' /\ Keeps'
  BY <1>1 DEF RunInv, Closes, Keeps, Done, LastMessage, agentVars, logVars, runVars,
              driveVars, policyVars
<1>4. Bounds'
  BY <1>1 DEF RunInv, Bounds, ToRetry, Log, logVars, localVars, policyVars
<1>5. Asks'
  BY <1>1 DEF RunInv, Asks, Request_, Answered, agentVars, runVars, localVars
<1> QED
  BY <1>2, <1>3, <1>4, <1>5 DEF RunInv

\* What a run keeps, in the form that every step of it preserves.
THEOREM RunInvHolds == Spec => []RunInv
<1>1. Init => RunInv
  BY TypeInit, CloseInit, KeepInit, BoundInit, AskInit DEF RunInv
<1>2. RunInv /\ [Next]_vars => RunInv'
  BY Stutter, TypeStep, CloseStep, KeepStep, BoundStep, AskStep DEF RunInv
<1> QED
  BY <1>1, <1>2, PTL DEF Spec

\* The state of a run stays well formed: identifiers and counters, the queues'
\* bounds, the progress of a batch within its calls (AgentState, RunState).
THEOREM RunTypes == Spec => []TypeOK
<1>1. RunInv => TypeOK
  BY TypeImplied DEF RunInv
<1> QED
  BY <1>1, RunInvHolds, PTL

\* Whatever fails, a run that settled has published agent_end last
\* (RunHandle::drive and its error branch).
THEOREM RunEnds == Spec => []EndsWithAgentEnd
<1>1. RunInv => EndsWithAgentEnd
  BY DEF RunInv, Closes, EndLabels, EndsIn, EndsWithAgentEnd
<1> QED
  BY <1>1, RunInvHolds, PTL

\* A compaction that does not commit leaves the transcript it started from, an
\* overflow is retried once before the next turn, and a run retries at most the
\* configured number of them (maybe_automatic_compaction, drive_inner).
THEOREM CompactionSafety == Spec => []CompactionIsSafe
<1>1. RunInv => CompactionIsSafe
  BY KeepImplied, BoundImplied DEF RunInv, CompactionIsSafe
<1> QED
  BY <1>1, RunInvHolds, PTL

\* The provider is asked only with transcripts in which every tool call has its
\* result, and a run that succeeds leaves such a transcript (execute_tool_calls,
\* validate_messages).
THEOREM CallsAnswered == Spec => []AnsweredWhenAsked
<1>1. RunInv => AnsweredWhenAsked
  BY AskImplied DEF RunInv
<1> QED
  BY <1>1, RunInvHolds, PTL

-----------------------------------------------------------------------------
(* What the host enqueues is injected once and in the order of its queue,   *)
(* for any scenario: whatever a run drains, injects, summarises or leaves   *)
(* behind when it fails, and whenever the host enqueues or clears.          *)

\* What the host offered is numbered per queue: a steering message by its turn,
\* a follow-up from MaxInput on.
OneQueue(a, b) == a > MaxInput <=> b > MaxInput
Offers == (1 .. offered) \cup (MaxInput + 1 .. MaxInput + offered)

\* Where an input may be: injected, drained, or still waiting in its queue.
InjectedIn(s) == {s[i].input : i \in 1 .. Len(s)} \ {0}
Drained == RangeOf(loop.queued)
Waiting == RangeOf(steering) \cup RangeOf(followUp)
Held == InjectedIn(messages) \cup Drained \cup Waiting
HasSummary(s) == \E i \in 1 .. Len(s) : s[i].role = "summary"

\* Each of these is in the order of the queues, and all of the first was
\* enqueued before the second, the second before the third.
Rising(s) == \A i, j \in 1 .. Len(s) : i < j => s[i] < s[j]
Told(s) ==
    \A i, j \in 1 .. Len(s) :
        (/\ i < j /\ s[i].input > 0 /\ s[j].input > 0
         /\ OneQueue(s[i].input, s[j].input)) => s[i].input < s[j].input
Before(A, B) == \A a \in A, b \in B : OneQueue(a, b) => a < b
InLine ==
    /\ Told(messages) /\ Rising(loop.queued) /\ Rising(steering) /\ Rising(followUp)
    /\ Before(InjectedIn(messages), Drained)
    /\ Before(InjectedIn(messages), Waiting)
    /\ Before(Drained, Waiting)
    /\ \A a, b \in Drained : OneQueue(a, b)

\* The numbers are those of offers, of one kind each; what is in no place was
\* cleared or summarised.
Accounted ==
    /\ Held \subseteq Offers
    /\ RangeOf(steering) \subseteq 1 .. offered
    /\ RangeOf(followUp) \subseteq MaxInput + 1 .. MaxInput + offered
    /\ \A n \in 1 .. offered : n \notin Held \/ MaxInput + n \notin Held
    /\ \/ "clear" \in HostCalls \/ HasSummary(messages)
       \/ \A n \in 1 .. offered : n \in Held \/ MaxInput + n \in Held

\* A queue is drained only when what was drained before has been injected.
DrainLabels == {"inject", "next", "errored", "settled"} \cup Terminal
OneDrain == loop.queued # <<>> => pc \in DrainLabels

InputInv == InLine /\ Accounted /\ OneDrain

-----------------------------------------------------------------------------
\* Transcripts that keep what was injected, in order, or summarise it.
Thin(s, t) ==
    /\ InjectedIn(t) \subseteq InjectedIn(s)
    /\ Told(s) => Told(t)
    /\ HasSummary(t) \/ (~HasSummary(s) /\ InjectedIn(t) = InjectedIn(s))

LEMMA ThinSame == ASSUME NEW s PROVE Thin(s, s)
  BY DEF Thin

LEMMA ThinTwice ==
  ASSUME NEW s, NEW t, NEW u, Thin(s, t), Thin(t, u)
  PROVE  Thin(s, u)
  BY DEF Thin

LEMMA AppendIs ==
  ASSUME NEW s \in Seq(Message), NEW m \in Message
  PROVE  /\ Append(s, m) \in Seq(Message)
         /\ Len(Append(s, m)) = Len(s) + 1 /\ Len(s) \in Nat
         /\ \A i \in 1 .. Len(s) : Append(s, m)[i] = s[i] /\ s[i] \in Message
         /\ Append(s, m)[Len(s) + 1] = m
  BY AppendProperties, LenProperties, ElementOfSeq

\* A message that is no input of the host, put after the others or taken away.
LEMMA QuietMessage ==
  ASSUME NEW s \in Seq(Message), NEW m \in Message, m.input = 0
  PROVE  /\ Thin(s, Append(s, m))
         /\ m.role # "summary" => Thin(Append(s, m), s)
  <1> DEFINE t == Append(s, m)
             n == Len(s)
  <1>1. /\ Len(t) = n + 1 /\ n \in Nat /\ t[n + 1] = m
        /\ \A i \in 1 .. n : t[i] = s[i] /\ s[i] \in Message
    BY AppendIs
  <1>2. Len(s) = n
    OBVIOUS
  <1> HIDE DEF t, n
  <1>3. InjectedIn(t) = InjectedIn(s)
    <2>1. ASSUME NEW x \in InjectedIn(t) PROVE x \in InjectedIn(s)
      <3>1. PICK i \in 1 .. n + 1 : x = t[i].input /\ x # 0
        BY <1>1 DEF InjectedIn
      <3>2. i \in 1 .. n
        BY <1>1, <3>1
      <3> QED BY <1>1, <1>2, <3>1, <3>2 DEF InjectedIn
    <2>2. ASSUME NEW x \in InjectedIn(s) PROVE x \in InjectedIn(t)
      <3>1. PICK i \in 1 .. n : x = s[i].input /\ x # 0
        BY <1>2 DEF InjectedIn
      <3>2. i \in 1 .. n + 1 /\ t[i] = s[i]
        BY <1>1, <3>1
      <3> QED BY <1>1, <3>1, <3>2 DEF InjectedIn
    <2> QED BY <2>1, <2>2
  <1>4. Told(s) => Told(t)
    <2> SUFFICES ASSUME Told(s), NEW i \in 1 .. n + 1, NEW j \in 1 .. n + 1, i < j,
                        t[i].input > 0, t[j].input > 0, OneQueue(t[i].input, t[j].input)
                 PROVE  t[i].input < t[j].input
      BY <1>1 DEF Told
    <2>1. i \in 1 .. n /\ j \in 1 .. n
      BY <1>1
    <2> QED BY <1>1, <1>2, <2>1 DEF Told
  <1>5. Told(t) => Told(s)
    <2> SUFFICES ASSUME Told(t), NEW i \in 1 .. n, NEW j \in 1 .. n, i < j,
                        s[i].input > 0, s[j].input > 0, OneQueue(s[i].input, s[j].input)
                 PROVE  s[i].input < s[j].input
      BY <1>2 DEF Told
    <2>1. i \in 1 .. n + 1 /\ j \in 1 .. n + 1 /\ t[i] = s[i] /\ t[j] = s[j]
      BY <1>1
    <2> QED BY <1>1, <2>1 DEF Told
  <1>6. HasSummary(s) => HasSummary(t)
    BY <1>1, <1>2 DEF HasSummary
  <1>7. HasSummary(t) => HasSummary(s) \/ m.role = "summary"
    <2> SUFFICES ASSUME HasSummary(t), m.role # "summary" PROVE HasSummary(s)
      OBVIOUS
    <2>1. PICK i \in 1 .. n + 1 : t[i].role = "summary"
      BY <1>1 DEF HasSummary
    <2>2. i \in 1 .. n
      BY <1>1, <2>1
    <2> QED BY <1>1, <1>2, <2>1, <2>2 DEF HasSummary
  <1>8. Thin(s, t)
    BY <1>3, <1>4, <1>6 DEF Thin
  <1>9. m.role # "summary" => Thin(t, s)
    BY <1>3, <1>5, <1>7 DEF Thin
  <1> QED BY <1>8, <1>9 DEF t

\* A summary in front of a suffix.
LEMMA SummaryThin ==
  ASSUME NEW s \in Seq(Message), NEW id \in Nat \ {0}, NEW k \in 0 .. Len(s)
  PROVE  Thin(s, <<Summary(id)>> \o After(s, k))
  <1> DEFINE a == After(s, k)
             m == Summary(id)
             t == <<m>> \o a
             n == Len(a)
  <1>1. /\ a \in Seq(Message) /\ n = Len(s) - k /\ n \in Nat /\ k \in Nat /\ Len(s) \in Nat
        /\ \A i \in 1 .. n : a[i] = s[i + k]
    <2>1. \A i \in k + 1 .. Len(s) : s[i] \in Message
      BY LenProperties, ElementOfSeq
    <2>2. k + 1 \in Int /\ Len(s) \in Int /\ k \in Nat /\ k <= Len(s) /\ Len(s) \in Nat
      BY LenProperties
    <2>3. /\ a \in Seq(Message)
          /\ Len(a) = IF k + 1 <= Len(s) THEN Len(s) - (k + 1) + 1 ELSE 0
          /\ \A i \in 1 .. Len(s) - (k + 1) + 1 : a[i] = s[k + 1 + i - 1]
      BY <2>1, <2>2, SubSeqProperties DEF After
    <2>4. n = Len(s) - k
      BY <2>2, <2>3
    <2> HIDE DEF a
    <2> QED BY <2>2, <2>3, <2>4
  <1>2. /\ m \in Message /\ m.role = "summary" /\ m.input = 0
    BY MakeMessage DEF Summary
  <1> HIDE DEF a, m
  <1>3. /\ <<m>> \in Seq(Message) /\ Len(<<m>>) = 1 /\ <<m>>[1] = m
    BY <1>2
  <1>4. /\ Len(t) = n + 1 /\ \A i \in 1 .. n + 1 : t[i] = IF i <= 1 THEN <<m>>[i] ELSE a[i - 1]
    <2>1. /\ Len(t) = 1 + n
          /\ \A i \in 1 .. 1 + n : t[i] = IF i <= 1 THEN <<m>>[i] ELSE a[i - 1]
      BY <1>1, <1>3, ConcatProperties
    <2>2. 1 + n = n + 1
      BY <1>1
    <2> HIDE DEF t, n
    <2> QED BY <2>1, <2>2
  <1> HIDE DEF t, n
  <1>5. t[1] = m /\ \A i \in 2 .. n + 1 : t[i] = s[i - 1 + k] /\ i - 1 + k \in 1 .. Len(s)
    <2>1. t[1] = m
      BY <1>1, <1>3, <1>4
    <2>2. ASSUME NEW i \in 2 .. n + 1
          PROVE  t[i] = s[i - 1 + k] /\ i - 1 + k \in 1 .. Len(s)
      <3>1. i - 1 \in 1 .. n /\ i \in 1 .. n + 1 /\ ~(i <= 1)
        BY <1>1
      <3>2. t[i] = a[i - 1] /\ a[i - 1] = s[i - 1 + k]
        BY <1>1, <1>4, <3>1
      <3>3. i - 1 + k \in 1 .. Len(s)
        BY <1>1, <3>1
      <3> QED BY <3>2, <3>3
    <2> QED BY <2>1, <2>2
  <1>6. InjectedIn(t) \subseteq InjectedIn(s)
    <2> SUFFICES ASSUME NEW x \in InjectedIn(t) PROVE x \in InjectedIn(s)
      OBVIOUS
    <2>1. PICK i \in 1 .. n + 1 : x = t[i].input /\ x # 0
      BY <1>4 DEF InjectedIn
    <2>2. i \in 2 .. n + 1
      BY <1>1, <1>2, <1>5, <2>1
    <2> QED BY <1>5, <2>1, <2>2 DEF InjectedIn
  <1>7. Told(s) => Told(t)
    <2> SUFFICES ASSUME Told(s), NEW i \in 1 .. n + 1, NEW j \in 1 .. n + 1, i < j,
                        t[i].input > 0, t[j].input > 0, OneQueue(t[i].input, t[j].input)
                 PROVE  t[i].input < t[j].input
      BY <1>4 DEF Told
    <2>1. i \in 2 .. n + 1 /\ j \in 2 .. n + 1
      BY <1>1, <1>2, <1>5
    <2>2. /\ t[i] = s[i - 1 + k] /\ t[j] = s[j - 1 + k]
          /\ i - 1 + k \in 1 .. Len(s) /\ j - 1 + k \in 1 .. Len(s)
      BY <1>5, <2>1
    <2>3. i - 1 + k < j - 1 + k
      BY <1>1, <2>1
    <2> QED BY <2>2, <2>3 DEF Told
  <1>8. HasSummary(t)
    <2>1. 1 \in 1 .. Len(t) /\ t[1].role = "summary"
      BY <1>1, <1>2, <1>4, <1>5
    <2> QED BY <2>1 DEF HasSummary
  <1>9. Thin(s, t)
    BY <1>6, <1>7, <1>8 DEF Thin
  <1> QED BY <1>9 DEF t, a, m

-----------------------------------------------------------------------------
\* The head of a queue comes before the rest of it.
LEMMA HeadFirst ==
  ASSUME NEW q \in Seq(Nat), q # <<>>
  PROVE  /\ Head(q) \in Nat /\ Tail(q) \in Seq(Nat)
         /\ RangeOf(q) = {Head(q)} \cup RangeOf(Tail(q))
         /\ Rising(q) => Rising(Tail(q)) /\ \A b \in RangeOf(Tail(q)) : Head(q) < b
  <1> DEFINE t == Tail(q)
             n == Len(q)
  <1>1. /\ n \in Nat \ {0} /\ t \in Seq(Nat) /\ Len(t) = n - 1 /\ Head(q) = q[1]
        /\ Head(q) \in Nat /\ \A i \in 1 .. Len(t) : t[i] = q[i + 1]
    BY EmptySeq, HeadTailProperties
  <1>2. RangeOf(q) = {q[i] : i \in 1 .. n} /\ RangeOf(t) = {t[i] : i \in 1 .. n - 1}
    BY <1>1, RangeType
  <1>3. Len(q) = n
    OBVIOUS
  <1> HIDE DEF t, n
  <1>4. RangeOf(q) \subseteq {Head(q)} \cup RangeOf(t)
    <2> SUFFICES ASSUME NEW i \in 1 .. n PROVE q[i] \in {q[1]} \cup RangeOf(t)
      BY <1>1, <1>2
    <2>1. CASE i # 1
      <3>1. i - 1 \in 1 .. n - 1 /\ i = (i - 1) + 1
        BY <1>1, <2>1
      <3>2. t[i - 1] = q[i]
        BY <1>1, <3>1
      <3> QED BY <1>2, <3>1, <3>2
    <2> QED BY <2>1
  <1>5. {Head(q)} \cup RangeOf(t) \subseteq RangeOf(q)
    <2>1. 1 \in 1 .. n /\ \A i \in 1 .. n - 1 : i + 1 \in 1 .. n
      BY <1>1
    <2> QED BY <1>1, <1>2, <2>1
  <1>6. ASSUME Rising(q) PROVE Rising(t)
    <2> SUFFICES ASSUME NEW i \in 1 .. n - 1, NEW j \in 1 .. n - 1, i < j PROVE t[i] < t[j]
      BY <1>1 DEF Rising
    <2>1. i + 1 \in 1 .. n /\ j + 1 \in 1 .. n /\ i + 1 < j + 1
      BY <1>1
    <2> QED BY <1>1, <1>3, <1>6, <2>1 DEF Rising
  <1>7. ASSUME Rising(q), NEW b \in RangeOf(t) PROVE Head(q) < b
    <2>1. PICK i \in 1 .. n - 1 : b = t[i]
      BY <1>2
    <2>2. 1 \in 1 .. n /\ i + 1 \in 1 .. n /\ 1 < i + 1
      BY <1>1
    <2> QED BY <1>1, <1>3, <1>7, <2>1, <2>2 DEF Rising
  <1> QED BY <1>1, <1>4, <1>5, <1>6, <1>7 DEF t

\* What a drain takes of a queue and what it leaves.
LEMMA DrainSplits ==
  ASSUME NEW q \in Seq(Nat), Rising(q), NEW mode
  PROVE  /\ Taken(q, mode) \in Seq(Nat) /\ Left(q, mode) \in Seq(Nat)
         /\ RangeOf(q) = RangeOf(Taken(q, mode)) \cup RangeOf(Left(q, mode))
         /\ Rising(Taken(q, mode)) /\ Rising(Left(q, mode))
         /\ \A a \in RangeOf(Taken(q, mode)), b \in RangeOf(Left(q, mode)) : a < b
         /\ q = <<>> => Taken(q, mode) = <<>>
  <1>1. CASE mode = "All" \/ q = <<>>
    <2>1. Taken(q, mode) = q /\ Left(q, mode) = <<>>
      BY <1>1 DEF Taken, Left
    <2> QED BY <2>1, SmallRanges DEF Rising
  <1>2. CASE ~(mode = "All" \/ q = <<>>)
    <2>1. Taken(q, mode) = <<Head(q)>> /\ Left(q, mode) = Tail(q) /\ q # <<>>
      BY <1>2 DEF Taken, Left
    <2>2. Rising(<<Head(q)>>)
      BY DEF Rising
    <2>3. RangeOf(<<Head(q)>>) = {Head(q)}
      BY SmallRanges
    <2>4. <<Head(q)>> \in Seq(Nat)
      BY <2>1, HeadFirst
    <2> QED BY <2>1, <2>2, <2>3, <2>4, HeadFirst
  <1> QED BY <1>1, <1>2

\* What is enqueued comes after what waits.
LEMMA EnqueueRises ==
  ASSUME NEW q \in Seq(Nat), NEW x \in Nat, Rising(q), \A a \in RangeOf(q) : a < x
  PROVE  Rising(Append(q, x)) /\ RangeOf(Append(q, x)) = RangeOf(q) \cup {x}
  <1> DEFINE t == Append(q, x)
             n == Len(q)
  <1>1. /\ Len(t) = n + 1 /\ n \in Nat /\ t[n + 1] = x
        /\ \A i \in 1 .. n : t[i] = q[i]
    BY AppendProperties, LenProperties
  <1>2. RangeOf(q) = {q[i] : i \in 1 .. n}
    BY RangeType
  <1>3. Len(q) = n
    OBVIOUS
  <1> HIDE DEF t, n
  <1>4. Rising(t)
    <2> SUFFICES ASSUME NEW i \in 1 .. n + 1, NEW j \in 1 .. n + 1, i < j PROVE t[i] < t[j]
      BY <1>1 DEF Rising
    <2>1. i \in 1 .. n
      BY <1>1
    <2>2. CASE j = n + 1
      BY <1>1, <1>2, <2>1, <2>2
    <2>3. CASE j # n + 1
      <3>1. j \in 1 .. n
        BY <1>1, <2>3
      <3> QED BY <1>1, <1>3, <2>1, <3>1 DEF Rising
    <2> QED BY <2>2, <2>3
  <1> QED BY <1>4, AppendRange DEF t

-----------------------------------------------------------------------------
LEMMA QueueTypes ==
  ASSUME TypeInv
  PROVE  /\ steering \in Seq(Nat) /\ followUp \in Seq(Nat) /\ loop.queued \in Seq(Nat)
         /\ MaxInput \in Nat /\ offered \in 0 .. MaxInput
         /\ messages \in Seq(Message) /\ nextId \in Nat \ {0}
  <1>1. MaxInput \in Nat
    BY ScenarioFacts DEF TypeInv, RunType
  <1>2. 1 .. MaxInput \subseteq Nat /\ MaxInput + 1 .. 2 * MaxInput \subseteq Nat
    BY <1>1
  <1> QED BY <1>1, <1>2, SeqMonotonic
          DEF TypeInv, QueueType, LoopType, LoopLocals, AgentType

LEMMA InputInit == Init => InputInv
  <1> SUFFICES ASSUME Init PROVE InputInv
    OBVIOUS
  <1>1. TypeInv
    BY TypeInit
  <1>2. messages \in Seq(Message) /\ \A i \in 1 .. Len(messages) : messages[i].input = 0
    <2>1. /\ Len(messages) \in Nat /\ DOMAIN messages = 1 .. Len(messages)
          /\ messages \in Seq(Message)
      BY <1>1, QueueTypes, LenProperties
    <2>2. DOMAIN messages = 1 .. Durable + Prompts
      BY DEF Init
    <2>3. \A i \in 1 .. Durable + Prompts : messages[i].input = 0
      BY DEF Init, User, Assistant
    <2> QED BY <2>1, <2>2, <2>3
  <1>3. InjectedIn(messages) = {}
    BY <1>2 DEF InjectedIn
  <1>4. Told(messages)
    BY <1>2 DEF Told
  <1>5. /\ loop.queued = <<>> /\ steering = <<>> /\ followUp = <<>> /\ offered = 0
    BY DEF Init
  <1>6. Drained = {} /\ Waiting = {} /\ RangeOf(steering) = {} /\ RangeOf(followUp) = {}
    BY <1>5, SmallRanges DEF Drained, Waiting
  <1>7. InLine
    BY <1>3, <1>4, <1>5, <1>6 DEF InLine, Rising, Before
  <1>8. Accounted
    BY <1>3, <1>5, <1>6 DEF Accounted, Held
  <1> QED BY <1>5, <1>7, <1>8 DEF InputInv, OneDrain

\* Steps that change no queue and keep or summarise the transcript.
LEMMA QuietKeeps ==
  ASSUME TypeInv, InputInv, scenario' = scenario, UNCHANGED queueVars,
         loop'.queued = loop.queued, Thin(messages, messages'),
         loop.queued # <<>> => pc' \in DrainLabels
  PROVE  InputInv'
  <1>1. MaxInput' = MaxInput /\ HostCalls' = HostCalls
    BY SameParameters
  <1>2. Drained' = Drained /\ Waiting' = Waiting /\ offered' = offered /\ Offers' = Offers
        /\ steering' = steering /\ followUp' = followUp
    BY <1>1 DEF Drained, Waiting, queueVars, Offers
  <1>3. InjectedIn(messages') \subseteq InjectedIn(messages)
        /\ Held' \subseteq Held
    BY <1>2 DEF Thin, Held
  <1>4. InLine'
    <2>1. Told(messages)'
      BY <1>1 DEF Thin, InputInv, InLine, Told, OneQueue
    <2> QED BY <1>1, <1>2, <1>3, <2>1 DEF InputInv, InLine, Before, Rising, OneQueue
  <1>5. Accounted'
    <2>1. \/ "clear" \in HostCalls \/ HasSummary(messages')
          \/ \A n \in 1 .. offered : n \in Held' \/ MaxInput + n \in Held'
      BY <1>2 DEF Thin, InputInv, Accounted, Held
    <2> QED BY <1>1, <1>2, <1>3, <2>1 DEF InputInv, Accounted
  <1>6. OneDrain'
    BY DEF OneDrain
  <1> QED BY <1>4, <1>5, <1>6 DEF InputInv

\* A drain moves the first of a queue's messages into the empty batch.
LEMMA DrainKeeps ==
  ASSUME TypeInv, InputInv, scenario' = scenario, loop.queued = <<>>,
         offered' = offered, messages' = messages,
         \/ /\ loop'.queued = Taken(steering, SteeringMode)
            /\ steering' = Left(steering, SteeringMode) /\ followUp' = followUp
         \/ /\ loop'.queued = Taken(followUp, FollowUpMode)
            /\ followUp' = Left(followUp, FollowUpMode) /\ steering' = steering,
         loop'.queued # <<>> => pc' \in DrainLabels
  PROVE  InputInv'
  <1>1. MaxInput' = MaxInput /\ HostCalls' = HostCalls
    BY SameParameters
  <1>2. /\ MaxInput \in Nat /\ offered \in Nat /\ offered <= MaxInput
        /\ steering \in Seq(Nat) /\ followUp \in Seq(Nat)
        /\ Rising(steering) /\ Rising(followUp)
    BY QueueTypes DEF InputInv, InLine
  <1>3. Drained = {}
    BY SmallRanges DEF Drained
  <1>4. /\ RangeOf(steering) \subseteq 1 .. offered
        /\ RangeOf(followUp) \subseteq MaxInput + 1 .. MaxInput + offered
    BY DEF InputInv, Accounted
  <1>5. /\ Waiting = Drained' \cup Waiting'
        /\ Rising(loop'.queued) /\ Rising(steering') /\ Rising(followUp')
        /\ RangeOf(steering') \subseteq RangeOf(steering)
        /\ RangeOf(followUp') \subseteq RangeOf(followUp)
        /\ Before(Drained', Waiting')
        /\ \A a, b \in Drained' : OneQueue(a, b)
    <2>1. CASE /\ loop'.queued = Taken(steering, SteeringMode)
               /\ steering' = Left(steering, SteeringMode) /\ followUp' = followUp
      <3>1. /\ RangeOf(steering) = Drained' \cup RangeOf(steering')
            /\ Rising(loop'.queued) /\ Rising(steering')
            /\ \A a \in Drained', b \in RangeOf(steering') : a < b
        BY <1>2, <2>1, DrainSplits DEF Drained
      <3>2. \A a \in RangeOf(steering), b \in RangeOf(followUp) : ~OneQueue(a, b)
        BY <1>2, <1>4 DEF OneQueue
      <3>3. \A a, b \in RangeOf(steering) : OneQueue(a, b)
        BY <1>2, <1>4 DEF OneQueue
      <3> QED BY <1>2, <2>1, <3>1, <3>2, <3>3 DEF Waiting, Before
    <2>2. CASE /\ loop'.queued = Taken(followUp, FollowUpMode)
               /\ followUp' = Left(followUp, FollowUpMode) /\ steering' = steering
      <3>1. /\ RangeOf(followUp) = Drained' \cup RangeOf(followUp')
            /\ Rising(loop'.queued) /\ Rising(followUp')
            /\ \A a \in Drained', b \in RangeOf(followUp') : a < b
        BY <1>2, <2>2, DrainSplits DEF Drained
      <3>2. \A a \in RangeOf(followUp), b \in RangeOf(steering) : ~OneQueue(a, b)
        BY <1>2, <1>4 DEF OneQueue
      <3>3. \A a, b \in RangeOf(followUp) : OneQueue(a, b)
        BY <1>2, <1>4 DEF OneQueue
      <3> QED BY <1>2, <2>2, <3>1, <3>2, <3>3 DEF Waiting, Before
    <2> QED BY <2>1, <2>2
  <1>6. Held' = Held
    BY <1>3, <1>5 DEF Held
  <1>7. InLine'
    <2>1. Told(messages)'
      BY <1>1 DEF InputInv, InLine, Told, OneQueue
    <2>2. Before(InjectedIn(messages), Waiting)
      BY DEF InputInv, InLine
    <2>3. /\ Before(InjectedIn(messages), Drained') /\ Before(InjectedIn(messages), Waiting')
      BY <1>5, <2>2 DEF Before
    <2>4. /\ Before(InjectedIn(messages), Drained)' /\ Before(InjectedIn(messages), Waiting)'
          /\ Before(Drained, Waiting)' /\ (\A a, b \in Drained : OneQueue(a, b))'
      BY <1>1, <1>5, <2>3 DEF Before, OneQueue
    <2>5. Rising(loop.queued)' /\ Rising(steering)' /\ Rising(followUp)'
      BY <1>5 DEF Rising
    <2> QED BY <2>1, <2>4, <2>5 DEF InLine
  <1>8. Accounted'
    BY <1>1, <1>5, <1>6 DEF InputInv, Accounted, Offers
  <1>9. OneDrain'
    BY DEF OneDrain
  <1> QED BY <1>7, <1>8, <1>9 DEF InputInv

\* The first drained message is injected.
LEMMA InjectKeeps == ASSUME TypeInv, InputInv, Inject PROVE InputInv'
  <1> DEFINE x == Head(loop.queued)
             m == User(nextId, x)
             rest == Tail(loop.queued)
             n == Len(messages)
  <1>1. /\ loop.queued # <<>> /\ messages' = Append(messages, m) /\ loop'.queued = rest
        /\ scenario' = scenario /\ UNCHANGED queueVars /\ pc = "inject" /\ pc' = pc
    BY DEF Inject, Ready, runVars, TypeInv, LoopType, LoopLocals
  <1>2. MaxInput' = MaxInput /\ HostCalls' = HostCalls
    BY <1>1, SameParameters
  <1>3. /\ x \in Nat /\ Drained = {x} \cup RangeOf(rest) /\ Drained' = RangeOf(rest)
        /\ Rising(rest) /\ \A b \in RangeOf(rest) : x < b
    BY <1>1, QueueTypes, HeadFirst DEF InputInv, InLine, Drained
  <1>4. /\ m \in Message /\ m.input = x /\ m.role # "summary"
    BY <1>3, QueueTypes, MakeMessage DEF User
  <1>5. MaxInput \in Nat /\ offered \in Nat /\ messages \in Seq(Message)
    BY QueueTypes
  <1>6. x \in Offers /\ x > 0
    BY <1>3, <1>5 DEF InputInv, Accounted, Held, Offers
  <1> HIDE DEF x, m, rest
  <1>7. /\ Len(messages') = n + 1 /\ n \in Nat /\ messages'[n + 1] = m
        /\ \A i \in 1 .. n : messages'[i] = messages[i] /\ messages[i] \in Message
    BY <1>1, <1>4, <1>5, AppendIs
  <1>8. Len(messages) = n
    OBVIOUS
  <1> HIDE DEF n
  <1>9. InjectedIn(messages') = InjectedIn(messages) \cup {x}
    <2>1. ASSUME NEW y \in InjectedIn(messages') PROVE y \in InjectedIn(messages) \cup {x}
      <3>1. PICK i \in 1 .. n + 1 : y = messages'[i].input /\ y # 0
        BY <1>7 DEF InjectedIn
      <3>2. i = n + 1 \/ i \in 1 .. n
        BY <1>7
      <3> QED BY <1>4, <1>7, <1>8, <3>1, <3>2 DEF InjectedIn
    <2>2. ASSUME NEW y \in InjectedIn(messages) PROVE y \in InjectedIn(messages')
      <3>1. PICK i \in 1 .. n : y = messages[i].input /\ y # 0
        BY <1>8 DEF InjectedIn
      <3>2. i \in 1 .. n + 1 /\ messages'[i] = messages[i]
        BY <1>7, <3>1
      <3> QED BY <1>7, <3>1, <3>2 DEF InjectedIn
    <2>3. x \in InjectedIn(messages')
      <3>1. n + 1 \in 1 .. n + 1
        BY <1>7
      <3> QED BY <1>4, <1>6, <1>7, <3>1 DEF InjectedIn
    <2> QED BY <2>1, <2>2, <2>3
  <1>10. HasSummary(messages) => HasSummary(messages')
    <2>1. \A i \in 1 .. n : i \in 1 .. n + 1 /\ messages'[i] = messages[i]
      BY <1>7
    <2> QED BY <1>7, <1>8, <2>1 DEF HasSummary
  <1>11. Held' = Held
    <2>1. Waiting' = Waiting
      BY <1>1 DEF Waiting, queueVars
    <2> QED BY <1>3, <1>9, <2>1 DEF Held
  <1>12. InLine'
    <2>1. Told(messages')
      <3> SUFFICES ASSUME NEW i \in 1 .. n + 1, NEW j \in 1 .. n + 1, i < j,
                          messages'[i].input > 0, messages'[j].input > 0,
                          OneQueue(messages'[i].input, messages'[j].input)
                   PROVE  messages'[i].input < messages'[j].input
        BY <1>7 DEF Told
      <3>1. i \in 1 .. n /\ messages'[i] = messages[i] /\ messages[i] \in Message
        BY <1>7
      <3>2. CASE j = n + 1
        <4>1. messages'[j].input = x
          BY <1>4, <1>7, <3>2
        <4>2. messages[i].input \in InjectedIn(messages)
          <5>1. messages[i].input # 0
            BY <3>1
          <5> QED BY <1>8, <3>1, <5>1 DEF InjectedIn
        <4>3. Before(InjectedIn(messages), Drained) /\ x \in Drained
          BY <1>3 DEF InputInv, InLine
        <4> QED BY <3>1, <4>1, <4>2, <4>3 DEF Before
      <3>3. CASE j # n + 1
        <4>1. j \in 1 .. n /\ messages'[j] = messages[j]
          BY <1>7, <3>3
        <4>2. Told(messages)
          BY DEF InputInv, InLine
        <4> QED BY <1>8, <3>1, <4>1, <4>2 DEF Told
      <3> QED BY <3>2, <3>3
    <2>2. Told(messages)'
      BY <1>2, <2>1 DEF Told, OneQueue
    <2>3. Waiting' = Waiting /\ steering' = steering /\ followUp' = followUp
      BY <1>1 DEF Waiting, queueVars
    <2>4. /\ Before(InjectedIn(messages), Drained) /\ Before(InjectedIn(messages), Waiting)
          /\ Before(Drained, Waiting) /\ \A a, b \in Drained : OneQueue(a, b)
      BY DEF InputInv, InLine
    <2>5. /\ Before(InjectedIn(messages'), Drained') /\ Before(InjectedIn(messages'), Waiting)
          /\ Before(Drained', Waiting) /\ \A a, b \in Drained' : OneQueue(a, b)
      BY <1>3, <1>9, <2>4 DEF Before
    <2>6. /\ Before(InjectedIn(messages), Drained)' /\ Before(InjectedIn(messages), Waiting)'
          /\ Before(Drained, Waiting)' /\ (\A a, b \in Drained : OneQueue(a, b))'
      BY <1>2, <2>3, <2>5 DEF Before, OneQueue
    <2>7. Rising(loop.queued)' /\ Rising(steering)' /\ Rising(followUp)'
      BY <1>1, <1>3, <2>3 DEF Rising, InputInv, InLine
    <2> QED BY <2>2, <2>6, <2>7 DEF InLine
  <1>13. Accounted'
    <2>1. UNCHANGED <<offered, steering, followUp>>
      BY <1>1 DEF queueVars
    <2> QED BY <1>2, <1>10, <1>11, <2>1 DEF InputInv, Accounted, Offers
  <1>14. OneDrain'
    BY <1>1 DEF OneDrain, DrainLabels
  <1> QED BY <1>12, <1>13, <1>14 DEF InputInv

\* What the host does to the queues.
LEMMA HostKeeps ==
  ASSUME TypeInv, InputInv, Abort \/ ClearQueues \/ Steer \/ FollowUp
  PROVE  InputInv'
  <1>1. /\ scenario' = scenario /\ messages' = messages /\ loop' = loop /\ pc' = pc
    BY DEF Abort, ClearQueues, Steer, FollowUp, driverVars, runVars, agentVars, localVars
  <1>2. MaxInput' = MaxInput /\ HostCalls' = HostCalls
    BY <1>1, SameParameters
  <1>3. /\ MaxInput \in Nat /\ offered \in Nat /\ offered <= MaxInput
        /\ steering \in Seq(Nat) /\ followUp \in Seq(Nat)
    BY QueueTypes
  <1>4. OneDrain'
    BY <1>1 DEF OneDrain, InputInv
  <1>5. Told(messages)' /\ Rising(loop.queued)' /\ Drained' = Drained
    BY <1>1, <1>2 DEF InputInv, InLine, Told, Rising, OneQueue, Drained
  <1>6. /\ Held \subseteq Offers /\ RangeOf(steering) \subseteq 1 .. offered
        /\ RangeOf(followUp) \subseteq MaxInput + 1 .. MaxInput + offered
        /\ \A n \in 1 .. offered : n \notin Held \/ MaxInput + n \notin Held
        /\ \/ "clear" \in HostCalls \/ HasSummary(messages)
           \/ \A n \in 1 .. offered : n \in Held \/ MaxInput + n \in Held
    BY DEF InputInv, Accounted
  <1>7. CASE Abort
    <2>1. UNCHANGED queueVars
      BY <1>7 DEF Abort
    <2> QED BY <1>1, <2>1, ThinSame, QuietKeeps DEF InputInv, OneDrain
  <1>8. CASE ClearQueues
    <2>1. "clear" \in HostCalls /\ steering' = <<>> /\ followUp' = <<>> /\ offered' = offered
      BY <1>8 DEF ClearQueues
    <2>2. Waiting' = {} /\ RangeOf(steering') = {} /\ RangeOf(followUp') = {}
      BY <2>1, SmallRanges DEF Waiting
    <2>3. Held' \subseteq Held
      BY <1>1, <1>5, <2>2 DEF Held
    <2>4. InLine'
      BY <1>1, <1>2, <1>5, <2>1, <2>2 DEF InputInv, InLine, Before, Rising, OneQueue
    <2>5. Accounted'
      BY <1>2, <1>6, <2>1, <2>2, <2>3 DEF Accounted, Offers
    <2> QED BY <1>4, <2>4, <2>5 DEF InputInv
  \* A message x with the number offered + 1 of its queue.
  <1>9. ASSUME NEW x \in Nat, x \in {offered + 1, MaxInput + offered + 1},
               offered' = offered + 1, offered + 1 <= MaxInput, Waiting' = Waiting \cup {x}
        PROVE  /\ Before(InjectedIn(messages), Waiting)' /\ Before(Drained, Waiting)'
               /\ Held' \subseteq Offers'
               /\ \A n \in 1 .. offered' : n \notin Held' \/ MaxInput + n \notin Held'
               /\ \/ "clear" \in HostCalls \/ HasSummary(messages')
                  \/ \A n \in 1 .. offered' : n \in Held' \/ MaxInput + n \in Held'
    <2>1. Held' = Held \cup {x}
      BY <1>1, <1>5, <1>9 DEF Held
    <2>2. \A a \in Held : a \in Nat /\ (OneQueue(a, x) => a < x)
      BY <1>3, <1>6, <1>9 DEF Offers, OneQueue
    <2>3. InjectedIn(messages) \subseteq Held /\ Drained \subseteq Held
      BY DEF Held
    <2>4. Before(InjectedIn(messages), Waiting) /\ Before(Drained, Waiting)
      BY DEF InputInv, InLine
    <2>5. Before(InjectedIn(messages), Waiting') /\ Before(Drained, Waiting')
      BY <1>9, <2>2, <2>3, <2>4 DEF Before
    <2>6. Before(InjectedIn(messages), Waiting)' /\ Before(Drained, Waiting)'
      BY <1>1, <1>2, <1>5, <2>5 DEF Before, OneQueue
    <2>7. Held' \subseteq Offers'
      <3>1. Offers' = (1 .. offered + 1) \cup (MaxInput + 1 .. MaxInput + (offered + 1))
        BY <1>2, <1>9 DEF Offers
      <3>2. x \in Offers' /\ Offers \subseteq Offers'
        BY <1>3, <1>9, <3>1 DEF Offers
      <3> QED BY <1>6, <2>1, <3>2
    <2>8. \A n \in 1 .. offered : n # x /\ MaxInput + n # x
      BY <1>3, <1>9
    <2>9. offered + 1 \notin Held /\ MaxInput + (offered + 1) \notin Held
      BY <1>3, <1>6, <1>9 DEF Offers
    <2>10. 1 .. offered' = (1 .. offered) \cup {offered + 1}
      BY <1>3, <1>9
    <2>11. \A n \in 1 .. offered' : n \notin Held' \/ MaxInput + n \notin Held'
      <3>1. offered + 1 \notin Held' \/ MaxInput + (offered + 1) \notin Held'
        BY <1>3, <1>9, <2>1, <2>9
      <3> QED BY <1>6, <2>1, <2>8, <2>10, <3>1
    <2>12. offered + 1 \in Held' \/ MaxInput + (offered + 1) \in Held'
      <3>1. MaxInput + (offered + 1) = MaxInput + offered + 1
        BY <1>3
      <3> QED BY <1>9, <2>1, <3>1
    <2>13. \/ "clear" \in HostCalls \/ HasSummary(messages')
           \/ \A n \in 1 .. offered' : n \in Held' \/ MaxInput + n \in Held'
      BY <1>1, <1>6, <2>1, <2>10, <2>12
    <2> QED BY <2>6, <2>7, <2>11, <2>13
  <1>10. CASE Steer
    <2>1. /\ offered' = offered + 1 /\ offered < MaxInput /\ followUp' = followUp
          /\ steering' = Append(steering, offered + 1)
      BY <1>10 DEF Steer
    <2>2. \A a \in RangeOf(steering) : a < offered + 1
      BY <1>3, <1>6
    <2>3. /\ Rising(steering') /\ RangeOf(steering') = RangeOf(steering) \cup {offered + 1}
      BY <1>3, <2>1, <2>2, EnqueueRises DEF InputInv, InLine
    <2>4. Waiting' = Waiting \cup {offered + 1}
      BY <2>1, <2>3 DEF Waiting
    <2>5. offered + 1 \in Nat /\ offered + 1 <= MaxInput
      BY <1>3, <2>1
    <2>6. /\ Before(InjectedIn(messages), Waiting)' /\ Before(Drained, Waiting)'
          /\ Held' \subseteq Offers'
          /\ \A n \in 1 .. offered' : n \notin Held' \/ MaxInput + n \notin Held'
          /\ \/ "clear" \in HostCalls \/ HasSummary(messages')
             \/ \A n \in 1 .. offered' : n \in Held' \/ MaxInput + n \in Held'
      BY <1>9, <2>1, <2>4, <2>5
    <2>7. /\ RangeOf(steering') \subseteq 1 .. offered'
          /\ RangeOf(followUp') \subseteq MaxInput + 1 .. MaxInput + offered'
      BY <1>3, <1>6, <2>1, <2>3
    <2>8. InLine'
      BY <1>1, <1>2, <1>5, <2>1, <2>3, <2>6 DEF InputInv, InLine, Before, Rising, OneQueue
    <2>9. Accounted'
      BY <1>2, <2>6, <2>7 DEF Accounted
    <2> QED BY <1>4, <2>8, <2>9 DEF InputInv
  <1>11. CASE FollowUp
    <2>1. /\ offered' = offered + 1 /\ offered < MaxInput /\ steering' = steering
          /\ followUp' = Append(followUp, MaxInput + offered + 1)
      BY <1>11 DEF FollowUp
    <2>2. \A a \in RangeOf(followUp) : a < MaxInput + offered + 1
      BY <1>3, <1>6
    <2>3. /\ Rising(followUp')
          /\ RangeOf(followUp') = RangeOf(followUp) \cup {MaxInput + offered + 1}
      BY <1>3, <2>1, <2>2, EnqueueRises DEF InputInv, InLine
    <2>4. Waiting' = Waiting \cup {MaxInput + offered + 1}
      BY <2>1, <2>3 DEF Waiting
    <2>5. MaxInput + offered + 1 \in Nat /\ offered + 1 <= MaxInput
      BY <1>3, <2>1
    <2>6. /\ Before(InjectedIn(messages), Waiting)' /\ Before(Drained, Waiting)'
          /\ Held' \subseteq Offers'
          /\ \A n \in 1 .. offered' : n \notin Held' \/ MaxInput + n \notin Held'
          /\ \/ "clear" \in HostCalls \/ HasSummary(messages')
             \/ \A n \in 1 .. offered' : n \in Held' \/ MaxInput + n \in Held'
      BY <1>9, <2>1, <2>4, <2>5
    <2>7. /\ RangeOf(steering') \subseteq 1 .. offered'
          /\ RangeOf(followUp') \subseteq MaxInput + 1 .. MaxInput + offered'
      BY <1>3, <1>6, <2>1, <2>3
    <2>8. InLine'
      BY <1>1, <1>2, <1>5, <2>1, <2>3, <2>6 DEF InputInv, InLine, Before, Rising, OneQueue
    <2>9. Accounted'
      BY <1>2, <2>6, <2>7 DEF Accounted
    <2> QED BY <1>4, <2>8, <2>9 DEF InputInv
  <1> QED BY <1>7, <1>8, <1>10, <1>11

\* The steps of the turn loop and of drive that leave transcript and queues alone.
LEMMA IdleSteps ==
  ASSUME TypeInv, OneDrain,
         \/ Emit \/ Finish \/ Start \/ Injected \/ BelowThreshold \/ AboveThreshold
         \/ CompactionLimit \/ StartCompaction \/ CompactionFails \/ CompactionCancelled
         \/ Request \/ StreamFails \/ ResponseFailed \/ ModelFailed \/ ResponseCancelled
         \/ UseTools \/ UnexpectedCalls \/ NoTools
         \/ Announce \/ (\E i \in 1 .. batch.announced : EndTool(i)) \/ Observe
         \/ ToolsDone \/ BreakerTripped
         \/ HookFails \/ ShouldStop \/ GoOn \/ AdvanceTurn \/ LastTurn
  PROVE  /\ scenario' = scenario /\ UNCHANGED queueVars /\ loop'.queued = loop.queued
         /\ messages' = messages /\ (loop.queued # <<>> => pc' \in DrainLabels)
  <1> USE DEF runVars, agentVars, localVars, Ready, Fail, DrainLabels, Terminal, OneDrain,
              TypeInv, LoopType, LoopLocals
  <1>1. CASE Emit
    BY <1>1 DEF Emit
  <1>2. CASE Finish
    BY <1>2 DEF Finish
  <1>3. CASE Start \/ Injected \/ BelowThreshold \/ AboveThreshold
    BY <1>3 DEF Start, Injected, BelowThreshold, AboveThreshold
  <1>4. CASE \/ CompactionLimit \/ StartCompaction \/ CompactionFails \/ CompactionCancelled
    BY <1>4 DEF CompactionLimit, StartCompaction, CompactionFails, CompactionCancelled,
                RefuseCompaction
  <1>5. CASE Request
    BY <1>5 DEF Request
  <1>6. CASE StreamFails \/ ResponseFailed \/ ModelFailed
    BY <1>6 DEF StreamFails, ResponseFailed, ModelFailed
  <1>7. CASE ResponseCancelled \/ UnexpectedCalls \/ NoTools
    BY <1>7 DEF ResponseCancelled, UnexpectedCalls, NoTools
  <1>8. CASE UseTools
    BY <1>8 DEF UseTools
  <1>9. CASE Announce
    BY <1>9 DEF Announce
  <1>10. CASE \E i \in 1 .. batch.announced : EndTool(i)
    BY <1>10 DEF EndTool
  <1>11. CASE Observe
    BY <1>11 DEF Observe
  <1>12. CASE ToolsDone \/ BreakerTripped
    BY <1>12 DEF ToolsDone, BreakerTripped, BatchDone
  <1>13. CASE HookFails \/ ShouldStop \/ GoOn
    BY <1>13 DEF HookFails, ShouldStop, GoOn, Succeed
  <1>14. CASE AdvanceTurn
    BY <1>14 DEF AdvanceTurn
  <1>15. CASE LastTurn
    BY <1>15 DEF LastTurn, Succeed
  <1> QED BY <1>1, <1>2, <1>3, <1>4, <1>5, <1>6, <1>7, <1>8, <1>9, <1>10, <1>11, <1>12,
             <1>13, <1>14, <1>15

\* The steps that add to the transcript, take from it or summarise it.
LEMMA WritingSteps ==
  ASSUME TypeInv, Asks, OneDrain,
         \/ TextDelta \/ (\E reason \in Responses, n \in 0 .. MaxCalls : StreamEnds(reason, n))
         \/ RetryOverflow \/ CommitReplacement \/ Answer \/ SkipCall
         \/ SettleFailure \/ SettleCancellation
         \/ SettleCompactionFailure \/ SettleCompactionCancellation
  PROVE  /\ scenario' = scenario /\ UNCHANGED queueVars /\ loop'.queued = loop.queued
         /\ Thin(messages, messages') /\ (loop.queued # <<>> => pc' \in DrainLabels)
  <1>a. /\ messages \in Seq(Message) /\ nextId \in Nat \ {0} /\ loop \in LoopLocals
        /\ batch \in BatchLocals
    BY DEF TypeInv, AgentType, LoopType, BatchType
  <1> USE DEF runVars, localVars, Ready, OneDrain, DrainLabels, Terminal
  <1>1. CASE TextDelta
    <2>1. /\ Assistant(nextId, "None", <<>>) \in Message
          /\ Assistant(nextId, "None", <<>>).input = 0
      BY <1>a, MakeMessage, EmptySeq DEF Assistant
    <2>2. messages' = Append(messages, Assistant(nextId, "None", <<>>))
      BY <1>1 DEF TextDelta
    <2>3. Thin(messages, messages')
      BY <1>a, <2>1, <2>2, QuietMessage
    <2> QED BY <1>a, <1>1, <2>3 DEF TextDelta, LoopLocals
  <1>2. ASSUME NEW reason \in Responses, NEW n \in 0 .. MaxCalls, StreamEnds(reason, n)
        PROVE  /\ scenario' = scenario /\ UNCHANGED queueVars /\ loop'.queued = loop.queued
               /\ Thin(messages, messages') /\ (loop.queued # <<>> => pc' \in DrainLabels)
    <2> DEFINE id == IF loop.assistant = 0 THEN nextId ELSE loop.assistant
               calls == [i \in 1 .. n |-> <<id, i>>]
               final == Assistant(id, Stop(reason), calls)
    <2>1. /\ messages' = IF loop.assistant = 0 THEN Append(messages, final)
                                               ELSE Replaced(messages, final)
          /\ loop' = [loop EXCEPT !.assistant = id, !.calls = calls, !.reason = reason]
          /\ pc = "streaming" /\ scenario' = scenario /\ UNCHANGED queueVars
      BY <1>2 DEF StreamEnds
    <2>2. id \in Nat \ {0} /\ Stop(reason) \in StopReasons /\ n \in Nat
      BY <1>a, ScenarioFacts DEF Stop, StopReasons, TypeInv, RunType, LoopLocals
    <2>3. loop'.queued = loop.queued /\ loop.queued = <<>>
      BY <1>a, <2>1 DEF LoopLocals
    <2>4. calls \in Seq(Call)
      <3>1. calls \in [1 .. n -> Call]
        BY <2>2 DEF Call
      <3> HIDE DEF calls
      <3> QED BY <2>2, <3>1, SeqDef
    <2>5. final \in Message /\ final.input = 0 /\ final.role = "assistant"
      BY <2>2, <2>4, MakeMessage DEF Assistant
    <2> HIDE DEF id, calls, final
    <2>6. Thin(messages, messages')
      <3>1. CASE loop.assistant = 0
        BY <1>a, <2>1, <2>5, <3>1, QuietMessage
      <3>2. CASE loop.assistant # 0
        <4> DEFINE partial == Assistant(loop.assistant, "None", <<>>)
        <4>1. messages = Append(Request_, partial)
          BY <2>1, <3>2 DEF Asks
        <4>2. partial \in Message /\ partial.input = 0 /\ partial.role # "summary"
          BY <1>a, <3>2, MakeMessage, EmptySeq DEF Assistant, LoopLocals
        <4>3. Request_ \in Seq(Message)
          BY <1>a, <2>1, PrefixType DEF Request_, TypeInv, LoopType, LoopLocals
        <4> HIDE DEF partial
        <4>4. messages' = Append(Request_, final)
          BY <2>1, <2>5, <3>2, <4>1, <4>2, <4>3, ReplacedLast
        <4>5. Thin(messages, Request_) /\ Thin(Request_, messages')
          BY <2>5, <4>1, <4>2, <4>3, <4>4, QuietMessage
        <4> QED BY <4>5, ThinTwice
      <3> QED BY <3>1, <3>2
    <2> QED BY <2>1, <2>3, <2>6
  <1>3. CASE RetryOverflow
    <2>1. /\ messages' = Request_ /\ pc = "response" /\ scenario' = scenario
          /\ UNCHANGED queueVars /\ loop' = [loop EXCEPT !.compacting = "overflow"]
      BY <1>3 DEF RetryOverflow, Request_
    <2>2. loop'.queued = loop.queued /\ loop.queued = <<>>
      BY <1>a, <2>1 DEF LoopLocals
    <2>3. PICK stop \in StopReasons :
            messages = Append(Request_, Assistant(loop.assistant, stop, loop.calls))
      BY <2>1 DEF Asks
    <2> DEFINE m == Assistant(loop.assistant, stop, loop.calls)
    <2>4. Request_ \in Seq(Message)
      BY <1>a, <2>1, PrefixType DEF Request_, TypeInv, LoopType, LoopLocals
    <2>5. m \in Message
      <3>1. LastMessage = m
        BY <2>3, <2>4 DEF LastMessage
      <3>2. LastMessage \in Message
        <4>1. messages # <<>>
          BY <2>3, <2>4
        <4>2. Len(messages) \in 1 .. Len(messages)
          BY <1>a, <4>1, EmptySeq
        <4> QED BY <1>a, <4>2, ElementOfSeq DEF LastMessage
      <3> QED BY <3>1, <3>2
    <2>6. m.input = 0 /\ m.role # "summary"
      BY DEF Assistant
    <2> HIDE DEF m
    <2>7. Thin(messages, messages')
      BY <2>1, <2>3, <2>4, <2>5, <2>6, QuietMessage DEF m
    <2> QED BY <2>1, <2>2, <2>7
  <1>4. CASE CommitReplacement
    <2>1. PICK k \in 0 .. Len(messages) : messages' = <<Summary(nextId)>> \o After(messages, k)
      BY <1>4 DEF CommitReplacement, Replacements
    <2>2. Thin(messages, messages')
      BY <1>a, <2>1, SummaryThin
    <2> QED BY <1>a, <1>4, <2>2 DEF CommitReplacement, LoopLocals
  <1>5. CASE Answer \/ SkipCall
    <2> DEFINE next == batch.answered + 1
               call == loop.calls[next]
               m == ToolResult(nextId, call)
    <2>1. /\ messages' = Append(messages, m) /\ pc = "tools" /\ pc' = pc
          /\ scenario' = scenario /\ UNCHANGED queueVars /\ loop' = loop
      BY <1>5 DEF Answer, SkipCall
    <2>2. next <= Len(loop.calls)
      <3>1. CASE Answer
        <4>1. next <= batch.announced /\ batch.announced <= Len(loop.calls)
          BY <2>1, <3>1 DEF Answer, TypeInv, BatchType
        <4>2. /\ next \in Nat /\ batch.announced \in Nat /\ Len(loop.calls) \in Nat
          BY <1>a, LenProperties DEF BatchLocals, LoopLocals
        <4> HIDE DEF next
        <4> QED BY <4>1, <4>2
      <3>2. CASE SkipCall
        BY <3>2 DEF SkipCall, Width
      <3> QED BY <1>5, <3>1, <3>2
    <2>3. next \in 1 .. Len(loop.calls) /\ loop.calls \in Seq(Call)
      <3>1. next \in Nat \ {0} /\ Len(loop.calls) \in Nat /\ loop.calls \in Seq(Call)
        BY <1>a, LenProperties DEF BatchLocals, LoopLocals
      <3> HIDE DEF next
      <3> QED BY <2>2, <3>1
    <2> HIDE DEF next
    <2>4. call \in Call
      BY <2>3, ElementOfSeq
    <2> HIDE DEF call
    <2>5. m \in Message /\ m.input = 0
      BY <1>a, <2>4, MakeMessage DEF ToolResult
    <2> HIDE DEF m
    <2>6. Thin(messages, messages')
      BY <1>a, <2>1, <2>5, QuietMessage
    <2> QED BY <2>1, <2>6
  <1>6. CASE \/ SettleFailure \/ SettleCancellation
             \/ SettleCompactionFailure \/ SettleCompactionCancellation
    <2>1. PICK synthetic \in {<<>>, <<Assistant(nextId, "Error", <<>>)>>,
                              <<Assistant(nextId, "Aborted", <<>>)>>} :
            messages' = messages \o synthetic
      BY <1>6 DEF SettleFailure, SettleCancellation, SettleCompactionFailure,
                  SettleCompactionCancellation, Settle
    <2>2. /\ scenario' = scenario /\ UNCHANGED queueVars /\ loop' = loop
          /\ pc' \in Terminal
      BY <1>6 DEF SettleFailure, SettleCancellation, SettleCompactionFailure,
                  SettleCompactionCancellation, Settle
    <2>3. Thin(messages, messages')
      <3>1. CASE synthetic = <<>>
        <4>1. messages' = messages
          BY <1>a, <2>1, <3>1, ConcatEmptySeq
        <4> QED BY <4>1, ThinSame
      <3>2. ASSUME NEW stop \in {"Error", "Aborted"},
                   synthetic = <<Assistant(nextId, stop, <<>>)>>
            PROVE  Thin(messages, messages')
        <4> DEFINE m == Assistant(nextId, stop, <<>>)
        <4>1. m \in Message /\ m.input = 0
          BY <1>a, MakeMessage, EmptySeq DEF StopReasons, Assistant
        <4> HIDE DEF m
        <4>2. messages' = Append(messages, m)
          BY <1>a, <2>1, <3>2, <4>1, AppendIsConcat DEF m
        <4> QED BY <1>a, <4>1, <4>2, QuietMessage
      <3> QED BY <2>1, <3>1, <3>2
    <2> QED BY <2>2, <2>3
  <1> QED BY <1>1, <1>2, <1>3, <1>4, <1>5, <1>6

-----------------------------------------------------------------------------
LEMMA InputStep == TypeInv /\ Asks /\ InputInv /\ [Next]_vars => InputInv'
  <1> SUFFICES ASSUME TypeInv, Asks, InputInv, [Next]_vars PROVE InputInv'
    OBVIOUS
  <1>0. OneDrain
    BY DEF InputInv
  <1>1. CASE \/ Emit \/ Finish \/ Start \/ Injected \/ BelowThreshold \/ AboveThreshold
             \/ CompactionLimit \/ StartCompaction \/ CompactionFails \/ CompactionCancelled
             \/ Request \/ StreamFails \/ ResponseFailed \/ ModelFailed \/ ResponseCancelled
             \/ UseTools \/ UnexpectedCalls \/ NoTools
             \/ Announce \/ (\E i \in 1 .. batch.announced : EndTool(i)) \/ Observe
             \/ ToolsDone \/ BreakerTripped
             \/ HookFails \/ ShouldStop \/ GoOn \/ AdvanceTurn \/ LastTurn
    <2>1. /\ scenario' = scenario /\ UNCHANGED queueVars /\ loop'.queued = loop.queued
          /\ messages' = messages /\ (loop.queued # <<>> => pc' \in DrainLabels)
      BY <1>0, <1>1, IdleSteps
    <2>2. Thin(messages, messages')
      BY <2>1, ThinSame
    <2> QED BY <2>1, <2>2, QuietKeeps
  <1>2. CASE \/ TextDelta
             \/ (\E reason \in Responses, n \in 0 .. MaxCalls : StreamEnds(reason, n))
             \/ RetryOverflow \/ CommitReplacement \/ Answer \/ SkipCall
             \/ SettleFailure \/ SettleCancellation
             \/ SettleCompactionFailure \/ SettleCompactionCancellation
    BY <1>0, <1>2, WritingSteps, QuietKeeps
  <1>3. CASE InitialDrain \/ DrainSteering \/ DrainFollowUp
    <2>1. loop.queued = <<>> /\ scenario' = scenario /\ offered' = offered
          /\ messages' = messages
      BY <1>0, <1>3 DEF InitialDrain, DrainSteering, DrainFollowUp, Ready, OneDrain,
                        DrainLabels, Terminal, runVars, agentVars
    <2>2. /\ InitialDrain \/ DrainSteering =>
               /\ loop'.queued = Taken(steering, SteeringMode)
               /\ steering' = Left(steering, SteeringMode) /\ followUp' = followUp
          /\ DrainFollowUp =>
               /\ loop'.queued = Taken(followUp, FollowUpMode)
               /\ followUp' = Left(followUp, FollowUpMode) /\ steering' = steering
      BY DEF InitialDrain, DrainSteering, DrainFollowUp, TypeInv, LoopType, LoopLocals
    <2>3. loop'.queued # <<>> => pc' \in DrainLabels
      <3>1. CASE InitialDrain \/ DrainFollowUp
        BY <3>1 DEF InitialDrain, DrainFollowUp, DrainLabels
      <3>2. CASE DrainSteering
        <4>1. pc' = IF loop.more \/ steering # <<>> THEN "next" ELSE "drain_follow_up"
          BY <3>2 DEF DrainSteering
        <4>2. steering = <<>> => loop'.queued = <<>>
          BY <2>2, <3>2 DEF Taken
        <4> QED BY <4>1, <4>2 DEF DrainLabels
      <3> QED BY <1>3, <3>1, <3>2
    <2> QED BY <1>3, <2>1, <2>2, <2>3, DrainKeeps
  <1>4. CASE Inject
    BY <1>4, InjectKeeps
  <1>5. CASE Abort \/ ClearQueues \/ Steer \/ FollowUp
    BY <1>5, HostKeeps
  <1>6. CASE UNCHANGED vars
    <2>1. /\ scenario' = scenario /\ UNCHANGED queueVars /\ loop'.queued = loop.queued
          /\ messages' = messages /\ pc' = pc
      BY <1>6 DEF vars, runVars, agentVars, localVars
    <2>2. Thin(messages, messages')
      BY <2>1, ThinSame
    <2> QED BY <1>0, <2>1, <2>2, QuietKeeps DEF OneDrain
  <1> QED BY <1>1, <1>2, <1>3, <1>4, <1>5, <1>6 DEF Next, Drive, TurnLoop, Host

-----------------------------------------------------------------------------
\* How often a number occurs where it occurs at most once.
LEMMA CountOnce ==
  ASSUME NEW A, \A i, j \in A : i = j
  PROVE  Cardinality(A) = IF A = {} THEN 0 ELSE 1
  <1>1. CASE A # {}
    <2>1. PICK i \in A : TRUE
      BY <1>1
    <2>2. A = {i}
      BY <2>1
    <2> QED BY <1>1, <2>2, FS_Singleton
  <1> QED BY <1>1, FS_EmptySet

LEMMA RisingOnce ==
  ASSUME NEW s \in Seq(Nat), Rising(s), NEW x
  PROVE  Occurrences(x, s) = IF x \in RangeOf(s) THEN 1 ELSE 0
  <1> DEFINE A == {i \in DOMAIN s : s[i] = x}
  <1>1. DOMAIN s = 1 .. Len(s) /\ Len(s) \in Nat /\ \A i \in DOMAIN s : s[i] \in Nat
    BY LenProperties, ElementOfSeq
  <1>2. ASSUME NEW i \in A, NEW j \in A PROVE i = j
    <2>1. ~(i < j) /\ ~(j < i)
      BY <1>1 DEF Rising
    <2> QED BY <1>1, <2>1
  <1>3. A = {} <=> x \notin RangeOf(s)
    BY DEF RangeOf
  <1>4. Occurrences(x, s) = Cardinality(A)
    BY DEF Occurrences
  <1> HIDE DEF A
  <1> QED BY <1>2, <1>3, <1>4, CountOnce

LEMMA ToldOnce ==
  ASSUME NEW s \in Seq(Message), Told(s), NEW x \in Nat \ {0}
  PROVE  Cardinality({i \in DOMAIN s : s[i].input = x})
           = IF x \in InjectedIn(s) THEN 1 ELSE 0
  <1> DEFINE A == {i \in DOMAIN s : s[i].input = x}
  <1>1. DOMAIN s = 1 .. Len(s) /\ Len(s) \in Nat
    BY LenProperties
  <1>2. ASSUME NEW i \in A, NEW j \in A PROVE i = j
    <2>1. ~(i < j) /\ ~(j < i)
      BY <1>1 DEF Told, OneQueue
    <2> QED BY <1>1, <2>1
  <1>3. A = {} <=> x \notin InjectedIn(s)
    BY <1>1 DEF InjectedIn
  <1> HIDE DEF A
  <1>4. Cardinality(A) = IF x \in InjectedIn(s) THEN 1 ELSE 0
    BY <1>2, <1>3, CountOnce
  <1> QED BY <1>4 DEF A

\* An offer is in as many places as it is held: none or one.
LEMMA OnePlace ==
  ASSUME TypeInv, InputInv, NEW x \in Nat \ {0}
  PROVE  Places(x) = IF x \in Held THEN 1 ELSE 0
  <1>1. /\ steering \in Seq(Nat) /\ followUp \in Seq(Nat) /\ loop.queued \in Seq(Nat)
        /\ MaxInput \in Nat /\ offered \in Nat /\ offered <= MaxInput
        /\ messages \in Seq(Message)
    BY QueueTypes
  <1>2. /\ Occurrences(x, steering) = IF x \in RangeOf(steering) THEN 1 ELSE 0
        /\ Occurrences(x, followUp) = IF x \in RangeOf(followUp) THEN 1 ELSE 0
        /\ Occurrences(x, loop.queued) = IF x \in Drained THEN 1 ELSE 0
        /\ Cardinality({i \in DOMAIN messages : messages[i].input = x})
             = IF x \in InjectedIn(messages) THEN 1 ELSE 0
    BY <1>1, RisingOnce, ToldOnce DEF InputInv, InLine, Drained
  <1>3. /\ ~(x \in RangeOf(steering) /\ x \in RangeOf(followUp))
        /\ ~(x \in Drained /\ x \in Waiting)
        /\ ~(x \in InjectedIn(messages) /\ x \in Waiting)
        /\ ~(x \in InjectedIn(messages) /\ x \in Drained)
    <2>1. ~(x \in RangeOf(steering) /\ x \in RangeOf(followUp))
      BY <1>1 DEF InputInv, Accounted
    <2>2. OneQueue(x, x) /\ ~(x < x)
      BY DEF OneQueue
    <2> QED BY <2>1, <2>2 DEF InputInv, InLine, Before
  <1>4. x \in Held <=> \/ x \in RangeOf(steering) \/ x \in RangeOf(followUp)
                       \/ x \in Drained \/ x \in InjectedIn(messages)
    BY DEF Held, Waiting
  <1> QED BY <1>2, <1>3, <1>4 DEF Places, Waiting

LEMMA InputImplied == TypeInv /\ InputInv => InputOnceInOrder
  <1> SUFFICES ASSUME TypeInv, InputInv PROVE InputOnceInOrder
    OBVIOUS
  <1>1. /\ MaxInput \in Nat /\ offered \in Nat /\ messages \in Seq(Message)
        /\ DOMAIN messages = 1 .. Len(messages)
    BY QueueTypes, LenProperties
  <1>2. ASSUME NEW n \in 1 .. offered
        PROVE  LET places == Places(n) + Places(MaxInput + n)
               IN  \/ places = 1
                   \/ places = 0 /\ ("clear" \in HostCalls \/ Summarised)
    <2>1. n \in Nat \ {0} /\ MaxInput + n \in Nat \ {0}
      BY <1>1
    <2>2. /\ Places(n) = IF n \in Held THEN 1 ELSE 0
          /\ Places(MaxInput + n) = IF MaxInput + n \in Held THEN 1 ELSE 0
      BY <2>1, OnePlace
    <2>3. /\ n \notin Held \/ MaxInput + n \notin Held
          /\ \/ "clear" \in HostCalls \/ HasSummary(messages)
             \/ n \in Held \/ MaxInput + n \in Held
      BY DEF InputInv, Accounted
    <2>4. HasSummary(messages) => Summarised
      BY <1>1 DEF HasSummary, Summarised
    <2> QED BY <2>2, <2>3, <2>4
  <1>3. Told(messages)
    BY DEF InputInv, InLine
  <1> QED BY <1>1, <1>2, <1>3 DEF InputOnceInOrder, Told, OneQueue

\* What each queue enqueued is in one place, in the queue's order.
THEOREM InputInvHolds == Spec => []InputInv
  <1>1. RunInv => TypeInv /\ Asks
    BY DEF RunInv
  <1> QED BY <1>1, RunInvHolds, InputInit, InputStep, PTL DEF Spec

\* A message the host enqueues is injected at most once, in the order of its
\* queue, and is lost only to a clear or to a summary (MessageQueue::drain,
\* inject_queued_messages, drain_steering, drain_follow_up).
THEOREM InputDelivered == Spec => []InputOnceInOrder
  <1>1. RunInv => TypeInv
    BY DEF RunInv
  <1> QED BY <1>1, RunInvHolds, InputInvHolds, InputImplied, PTL

-----------------------------------------------------------------------------
(* What a run publishes: the event grammar of EventContract, which RunLoop   *)
(* implements, and the story its log tells of the transcript and the tools,  *)
(* for any agent, provider, host and number of turns, calls and messages.    *)

\* The contract's operators, of any log.
AtIn(log, kind) == {i \in 1 .. Len(log) : log[i].kind = kind}
AboutIn(log, kind) == {log[i].of : i \in AtIn(log, kind)}
TurnsIn(log) == Cardinality(AtIn(log, "turn_start"))
TurnEndsIn(log) == Cardinality(AtIn(log, "turn_end"))
OpenIn(log) == AboutIn(log, "message_start") \ AboutIn(log, "message_end")
RunningIn(log) == AboutIn(log, "tool_execution_start") \ AboutIn(log, "tool_execution_end")
Compactions == {"automatic_compaction_start", "automatic_compaction_end",
                "provider_request_skipped"}

\* What may follow a log: an event of its own, and a sequence of them.
AllowedAfter(log, e) ==
    \/ e.kind = "agent_start" /\ log = <<>>
    \/ /\ log # <<>> /\ AtIn(log, "agent_end") = {}
       /\ \/ /\ e.kind = "turn_start" /\ ~(TurnsIn(log) > TurnEndsIn(log))
             /\ e.of = TurnsIn(log) + 1
          \/ /\ TurnsIn(log) > TurnEndsIn(log)
             /\ \/ /\ e.kind = "message_start" /\ OpenIn(log) = {}
                   /\ e.of \notin AboutIn(log, "message_start")
                \/ e.kind \in {"message_update", "message_end"} /\ e.of \in OpenIn(log)
                \/ /\ e.kind = "tool_execution_start" /\ OpenIn(log) = {}
                   /\ e.of \notin AboutIn(log, "tool_execution_start")
                \/ /\ e.kind = "tool_execution_end" /\ OpenIn(log) = {}
                   /\ e.of \in RunningIn(log)
                \/ e.kind \in Compactions /\ OpenIn(log) = {} /\ RunningIn(log) = {}
                \/ /\ e.kind = "turn_end" /\ OpenIn(log) = {} /\ RunningIn(log) = {}
                   /\ e.of = TurnsIn(log)
          \/ /\ e.kind = "agent_end" /\ ~(TurnsIn(log) > TurnEndsIn(log))
             /\ TurnsIn(log) > 0 /\ OpenIn(log) = {} /\ RunningIn(log) = {}
Follows(log, more) ==
    \A i \in 1 .. Len(more) : AllowedAfter(log \o SubSeq(more, 1, i - 1), more[i])

\* Nothing but the provider failed so far.
Clean == Orderly \/ (pc # "errored" /\ ~settling)

InTurnLabels == {"initial_drain", "inject", "boundary", "request", "streaming",
                 "response", "tools", "compact", "compacting", "errored"}

\* The turns the log tells of are those of the run.
TurnsAgree ==
    /\ pc = "created" => /\ Log = <<>> /\ turn = 0
                         /\ nextId = Durable + Prompts + 1
    /\ pc # "created" => Log # <<>> /\ turn > 0
    /\ TurnsIn(Log) = turn
    /\ TurnEndsIn(Log) = IF pc \in InTurnLabels THEN turn - 1 ELSE turn
    /\ pc \notin EndLabels => AtIn(Log, "agent_end") = {}

\* Messages are published under fresh identifiers, and only the one being
\* streamed is open.
MessagesAgree ==
    /\ AboutIn(Log, "message_start") \subseteq 1 .. nextId - 1
    /\ AboutIn(Log, "message_end") \subseteq 1 .. nextId - 1
    /\ OpenIn(Log) = IF pc = "streaming" /\ loop.assistant # 0
                     THEN {loop.assistant} ELSE {}
    /\ loop.assistant < nextId

\* The calls announced and not ended are those of the batch and those pending,
\* and a call is announced once.
Begun == AboutIn(Log, "tool_execution_start")
CallsBefore(id) == {c \in Call : c[1] < id}
OneAtATime ==
    \/ /\ batch.announced = batch.answered + 1 /\ batch.observed = batch.answered
       /\ ~batch.tripped /\ 1 .. batch.answered \subseteq batch.ended
    \/ /\ batch.announced <= batch.answered
       /\ 1 .. batch.announced \subseteq batch.ended
       /\ ~batch.tripped => batch.announced = batch.answered
ToolsAgree ==
    /\ RunningIn(Log) = IF pc = "tools"
                        THEN {loop.calls[i] : i \in (1 .. batch.announced) \ batch.ended}
                        ELSE {}
    /\ pendingTools = RunningIn(Log)
    /\ Begun \subseteq CallsBefore(nextId)
    /\ AboutIn(Log, "tool_execution_end") \subseteq Begun
    /\ pc \in {"streaming", "response"} /\ loop.assistant # 0 =>
         Begun \subseteq CallsBefore(loop.assistant)
    /\ pc = "response" => loop.assistant # 0
    /\ pc \in {"response", "tools"} =>
         \A i \in 1 .. Len(loop.calls) : loop.calls[i] = <<loop.assistant, i>>
    /\ pc = "tools" =>
         /\ loop.calls # <<>>
         /\ Begun \subseteq CallsBefore(loop.assistant)
                              \cup {loop.calls[i] : i \in 1 .. batch.announced}
         /\ OneByOne => OneAtATime
         /\ ~OneByOne => batch.answered = 0 \/ batch.ended = 1 .. Width

LogAgrees == Clean => TurnsAgree /\ MessagesAgree /\ ToolsAgree

\* What is to be published may be.
OutFollows == Orderly => Follows(events, out)

ContractInv == RunInv /\ LogAgrees /\ OutFollows
-----------------------------------------------------------------------------
\* What one more event adds to a log.
LEMMA AppendLog ==
    ASSUME NEW log \in Seq(Item), NEW e \in Item
    PROVE  /\ Append(log, e) \in Seq(Item) /\ Append(log, e) # <<>>
           /\ \A kind : AtIn(Append(log, e), kind)
                          = AtIn(log, kind) \cup IF e.kind = kind THEN {Len(log) + 1} ELSE {}
           /\ \A kind : AboutIn(Append(log, e), kind)
                          = AboutIn(log, kind) \cup IF e.kind = kind THEN {e.of} ELSE {}
<1> DEFINE more == Append(log, e)
<1>1. /\ more \in Seq(Item) /\ more # <<>> /\ Len(more) = Len(log) + 1 /\ Len(log) \in Nat
      /\ \A i \in 1 .. Len(log) : more[i] = log[i]
      /\ more[Len(log) + 1] = e
  BY AppendProperties, LenProperties
<1> HIDE DEF more
<1>2. 1 .. Len(more) = (1 .. Len(log)) \cup {Len(log) + 1}
  BY <1>1
<1>3. ASSUME NEW kind
      PROVE  AtIn(more, kind) = AtIn(log, kind) \cup IF e.kind = kind THEN {Len(log) + 1} ELSE {}
  BY <1>1, <1>2 DEF AtIn
<1>4. ASSUME NEW kind
      PROVE  AboutIn(more, kind) = AboutIn(log, kind) \cup IF e.kind = kind THEN {e.of} ELSE {}
  <2>1. \A i \in AtIn(log, kind) : more[i] = log[i]
    BY <1>1 DEF AtIn
  <2> QED
    BY <1>1, <1>3, <2>1 DEF AboutIn
<1> QED
  BY <1>1, <1>3, <1>4 DEF more

LEMMA CountsAreNat ==
    ASSUME NEW log \in Seq(Item)
    PROVE  \A kind : IsFiniteSet(AtIn(log, kind)) /\ Cardinality(AtIn(log, kind)) \in Nat
<1>1. 1 \in Int /\ Len(log) \in Int
  BY LenProperties
<1>2. IsFiniteSet(1 .. Len(log))
  BY <1>1, FS_Interval
<1>3. \A kind : AtIn(log, kind) \subseteq 1 .. Len(log)
  BY DEF AtIn
<1> QED
  BY <1>2, <1>3, FS_Subset, FS_CardinalityType

LEMMA AppendTurns ==
    ASSUME NEW log \in Seq(Item), NEW e \in Item
    PROVE  /\ TurnsIn(Append(log, e))
                = TurnsIn(log) + IF e.kind = "turn_start" THEN 1 ELSE 0
           /\ TurnEndsIn(Append(log, e))
                = TurnEndsIn(log) + IF e.kind = "turn_end" THEN 1 ELSE 0
           /\ TurnsIn(log) \in Nat /\ TurnEndsIn(log) \in Nat
<1>1. ASSUME NEW kind
      PROVE  Cardinality(AtIn(Append(log, e), kind))
               = Cardinality(AtIn(log, kind)) + IF e.kind = kind THEN 1 ELSE 0
  <2>1. IsFiniteSet(AtIn(log, kind)) /\ Cardinality(AtIn(log, kind)) \in Nat
    BY CountsAreNat
  <2>2. Len(log) + 1 \notin AtIn(log, kind)
    BY LenProperties DEF AtIn
  <2>3. Cardinality(AtIn(log, kind) \cup {Len(log) + 1}) = Cardinality(AtIn(log, kind)) + 1
    BY <2>1, <2>2, FS_AddElement
  <2>4. AtIn(Append(log, e), kind)
          = AtIn(log, kind) \cup IF e.kind = kind THEN {Len(log) + 1} ELSE {}
    BY AppendLog
  <2>5. CASE e.kind = kind
    BY <2>3, <2>4, <2>5
  <2>6. CASE e.kind # kind
    <3>1. AtIn(Append(log, e), kind) = AtIn(log, kind)
      BY <2>4, <2>6
    <3> QED
      BY <2>1, <2>6, <3>1
  <2> QED
    BY <2>5, <2>6
<1> QED
  BY <1>1, CountsAreNat DEF TurnsIn, TurnEndsIn

\* What follows a log, event by event.
LEMMA FollowsOne ==
    ASSUME NEW log \in Seq(Item), NEW e \in Item
    PROVE  /\ Follows(log, <<>>)
           /\ AllowedAfter(log, e) => Follows(log, <<e>>)
<1>1. log \o SubSeq(<<e>>, 1, 0) = log
  <2>1. SubSeq(<<e>>, 1, 0) = <<>>
    BY SubSeqEmpty
  <2> QED
    BY <2>1, ConcatEmptySeq
<1>2. Len(<<e>>) = 1 /\ <<e>>[1] = e /\ Len(<<>>) = 0
  OBVIOUS
<1>3. Follows(log, <<>>)
  BY <1>2 DEF Follows
<1>4. ASSUME AllowedAfter(log, e) PROVE Follows(log, <<e>>)
  <2> SUFFICES ASSUME NEW i \in 1 .. Len(<<e>>)
               PROVE  AllowedAfter(log \o SubSeq(<<e>>, 1, i - 1), <<e>>[i])
    BY DEF Follows
  <2>1. i = 1 /\ i - 1 = 0
    BY <1>2
  <2> QED
    BY <1>1, <1>2, <1>4, <2>1
<1> QED
  BY <1>3, <1>4

LEMMA FollowsConcat ==
    ASSUME NEW log \in Seq(Item), NEW s \in Seq(Item), NEW t \in Seq(Item),
           Follows(log, s), Follows(log \o s, t)
    PROVE  Follows(log, s \o t)
<1> DEFINE both == s \o t
<1>1. /\ both \in Seq(Item) /\ Len(both) = Len(s) + Len(t)
      /\ Len(s) \in Nat /\ Len(t) \in Nat
      /\ \A i \in 1 .. Len(s) + Len(t) :
           both[i] = IF i <= Len(s) THEN s[i] ELSE t[i - Len(s)]
  BY ConcatProperties, LenProperties
<1> HIDE DEF both
<1> SUFFICES ASSUME NEW i \in 1 .. Len(both)
             PROVE  AllowedAfter(log \o SubSeq(both, 1, i - 1), both[i])
  BY DEF Follows, both
<1>2. i - 1 \in Nat /\ i - 1 <= Len(both)
  BY <1>1
<1>3. /\ SubSeq(both, 1, i - 1) \in Seq(Item) /\ Len(SubSeq(both, 1, i - 1)) = i - 1
      /\ \A j \in 1 .. i - 1 : SubSeq(both, 1, i - 1)[j] = both[j]
  BY <1>1, <1>2, PrefixType
<1>4. CASE i <= Len(s)
  <2>1. /\ SubSeq(s, 1, i - 1) \in Seq(Item) /\ Len(SubSeq(s, 1, i - 1)) = i - 1
        /\ \A j \in 1 .. i - 1 : SubSeq(s, 1, i - 1)[j] = s[j]
    BY <1>1, <1>2, <1>4, PrefixType
  <2>2. \A j \in 1 .. i - 1 : SubSeq(both, 1, i - 1)[j] = SubSeq(s, 1, i - 1)[j]
    BY <1>1, <1>3, <1>4, <2>1
  <2>3. SubSeq(both, 1, i - 1) = SubSeq(s, 1, i - 1)
    BY <1>3, <2>1, <2>2, SeqEqual
  <2>4. both[i] = s[i] /\ i \in 1 .. Len(s)
    BY <1>1, <1>4
  <2> QED
    BY <2>3, <2>4 DEF Follows
<1>5. CASE i > Len(s)
  <2> DEFINE k == i - Len(s)
  <2>1. k \in 1 .. Len(t) /\ k - 1 \in Nat /\ k - 1 <= Len(t) /\ i - 1 = Len(s) + (k - 1)
    BY <1>1, <1>5
  <2>2. both[i] = t[k]
    BY <1>1, <1>5
  <2> HIDE DEF k
  <2>3. /\ SubSeq(t, 1, k - 1) \in Seq(Item) /\ Len(SubSeq(t, 1, k - 1)) = k - 1
        /\ \A j \in 1 .. k - 1 : SubSeq(t, 1, k - 1)[j] = t[j]
    BY <2>1, PrefixType
  <2> DEFINE front == SubSeq(t, 1, k - 1)
  <2> HIDE DEF front
  <2>4. front \in Seq(Item)
    BY <2>3 DEF front
  <2>5. /\ s \o front \in Seq(Item) /\ Len(s \o front) = Len(s) + Len(front)
        /\ \A j \in 1 .. Len(s) + Len(front) :
             (s \o front)[j] = IF j <= Len(s) THEN s[j] ELSE front[j - Len(s)]
    BY <2>4, ConcatProperties
  <2>6. Len(s \o front) = i - 1
    BY <2>1, <2>3, <2>5 DEF front
  <2>7. ASSUME NEW j \in 1 .. i - 1 PROVE SubSeq(both, 1, i - 1)[j] = (s \o front)[j]
    <3>1. SubSeq(both, 1, i - 1)[j] = both[j] /\ j \in 1 .. Len(s) + Len(t)
      BY <1>1, <1>3
    <3>2. CASE j <= Len(s)
      BY <1>1, <1>3, <2>3, <2>5, <2>6, <3>1, <3>2 DEF front
    <3>3. CASE j > Len(s)
      <4>1. j - Len(s) \in 1 .. k - 1
        BY <1>1, <2>1, <3>1, <3>3
      <4>2. both[j] = t[j - Len(s)]
        BY <1>1, <3>1, <3>3
      <4>3. (s \o front)[j] = front[j - Len(s)]
        BY <1>1, <2>3, <2>5, <2>6, <3>3 DEF front
      <4> QED
        BY <2>3, <3>1, <4>1, <4>2, <4>3 DEF front
    <3>4. j <= Len(s) \/ j > Len(s)
      BY <1>1, <3>1
    <3> QED
      BY <3>2, <3>3, <3>4
  <2>8. SubSeq(both, 1, i - 1) = s \o front
    BY <1>3, <2>5, <2>6, <2>7, SeqEqual
  <2>9. log \o (s \o front) = (log \o s) \o front
    BY <2>4, ConcatAssociative
  <2>10. AllowedAfter((log \o s) \o front, t[k])
    BY <2>1 DEF Follows, front
  <2> QED
    BY <2>2, <2>8, <2>9, <2>10
<1> QED
  BY <1>1, <1>4, <1>5

\* The first of several events is delivered, the rest may still follow.
LEMMA FollowsHead ==
    ASSUME NEW log \in Seq(Item), NEW s \in Seq(Item), s # <<>>, Follows(log, s)
    PROVE  /\ AllowedAfter(log, Head(s))
           /\ Follows(Append(log, Head(s)), Tail(s))
<1>1. /\ Head(s) \in Item /\ Head(s) = s[1] /\ Len(s) \in Nat \ {0}
      /\ Tail(s) \in Seq(Item) /\ Len(Tail(s)) = Len(s) - 1
      /\ \A i \in 1 .. Len(Tail(s)) : Tail(s)[i] = s[i + 1]
  BY HeadTailProperties, EmptySeq, LenProperties
<1>2. AllowedAfter(log, Head(s))
  <2>1. log \o SubSeq(s, 1, 1 - 1) = log
    <3>1. SubSeq(s, 1, 0) = <<>>
      BY SubSeqEmpty
    <3> QED
      BY <3>1, ConcatEmptySeq
  <2>2. 1 \in 1 .. Len(s)
    BY <1>1
  <2>3. AllowedAfter(log \o SubSeq(s, 1, 1 - 1), s[1])
    BY <2>2 DEF Follows
  <2> QED
    BY <1>1, <2>1, <2>3
<1>3. ASSUME NEW i \in 1 .. Len(Tail(s))
      PROVE  AllowedAfter(Append(log, Head(s)) \o SubSeq(Tail(s), 1, i - 1), Tail(s)[i])
  <2> DEFINE front == SubSeq(s, 1, i)
  <2>1. /\ i \in Nat /\ i <= Len(s) /\ i - 1 \in Nat /\ i - 1 <= Len(Tail(s))
        /\ i + 1 \in 1 .. Len(s)
    BY <1>1
  <2>2. /\ front \in Seq(Item) /\ Len(front) = i
        /\ \A j \in 1 .. i : front[j] = s[j]
    BY <2>1, PrefixType
  <2> HIDE DEF front
  <2>3. front # <<>>
    BY <2>1, <2>2, NonEmpty
  <2>4. /\ Head(front) = s[1] /\ Tail(front) \in Seq(Item) /\ Len(Tail(front)) = i - 1
        /\ \A j \in 1 .. i - 1 : Tail(front)[j] = s[j + 1]
    <3>1. /\ Head(front) = front[1] /\ Tail(front) \in Seq(Item)
          /\ Len(Tail(front)) = Len(front) - 1
          /\ \A j \in 1 .. Len(Tail(front)) : Tail(front)[j] = front[j + 1]
      BY <2>2, <2>3, HeadTailProperties
    <3> QED
      BY <2>1, <2>2, <3>1
  <2>5. /\ SubSeq(Tail(s), 1, i - 1) \in Seq(Item)
        /\ Len(SubSeq(Tail(s), 1, i - 1)) = i - 1
        /\ \A j \in 1 .. i - 1 : SubSeq(Tail(s), 1, i - 1)[j] = Tail(s)[j]
    BY <1>1, <2>1, PrefixType
  <2>6. SubSeq(Tail(s), 1, i - 1) = Tail(front)
    <3>1. \A j \in 1 .. i - 1 : SubSeq(Tail(s), 1, i - 1)[j] = Tail(front)[j]
      BY <1>1, <2>4, <2>5
    <3> QED
      BY <2>4, <2>5, <3>1, SeqEqual
  <2>7. Append(log, Head(front)) \o Tail(front) = log \o front
    BY <2>2, <2>3, EmitLog
  <2>8. AllowedAfter(log \o SubSeq(s, 1, i), s[i + 1])
    BY <2>1 DEF Follows
  <2> QED
    BY <1>1, <2>4, <2>6, <2>7, <2>8 DEF front
<1> QED
  BY <1>2, <1>3 DEF Follows
-----------------------------------------------------------------------------
\* Events that may follow a log, and what they tell: the turns and turn ends
\* they add, and the messages they start and end.  Only the last ones of a run
\* hold its agent_end.
Grows(log, more, turns, ends, ids, last) ==
    /\ Follows(log, more) /\ more \in Seq(Item) /\ log \o more \in Seq(Item)
    /\ log # <<>> => log \o more # <<>>
    /\ TurnsIn(log \o more) = TurnsIn(log) + turns
    /\ TurnEndsIn(log \o more) = TurnEndsIn(log) + ends
    /\ AboutIn(log \o more, "message_start") = AboutIn(log, "message_start") \cup ids
    /\ AboutIn(log \o more, "message_end") = AboutIn(log, "message_end") \cup ids
    /\ AboutIn(log \o more, "tool_execution_start") = AboutIn(log, "tool_execution_start")
    /\ AboutIn(log \o more, "tool_execution_end") = AboutIn(log, "tool_execution_end")
    /\ last \/ AtIn(log \o more, "agent_end") = AtIn(log, "agent_end")

LEMMA GrowsNothing ==
    ASSUME NEW log \in Seq(Item)
    PROVE  Grows(log, <<>>, 0, 0, {}, FALSE)
<1>1. log \o <<>> = log /\ <<>> \in Seq(Item)
  BY ConcatEmptySeq
<1>2. Follows(log, <<>>)
  BY DEF Follows
<1>3. TurnsIn(log) \in Nat /\ TurnEndsIn(log) \in Nat
  BY CountsAreNat DEF TurnsIn, TurnEndsIn
<1> QED
  BY <1>1, <1>2, <1>3 DEF Grows

LEMMA GrowsConcat ==
    ASSUME NEW log \in Seq(Item), NEW s, NEW t,
           NEW a \in Nat, NEW b \in Nat, NEW c \in Nat, NEW d \in Nat,
           NEW ids, NEW jds, NEW last \in BOOLEAN,
           Grows(log, s, a, b, ids, FALSE), Grows(log \o s, t, c, d, jds, last)
    PROVE  Grows(log, s \o t, a + c, b + d, ids \cup jds, last)
<1>1. s \in Seq(Item) /\ t \in Seq(Item) /\ Follows(log, s) /\ Follows(log \o s, t)
  BY DEF Grows
<1>2. s \o t \in Seq(Item) /\ log \o (s \o t) = (log \o s) \o t
  <2>1. s \o t \in Seq(Item)
    BY <1>1, ConcatProperties
  <2>2. log \o (s \o t) = (log \o s) \o t
    BY <1>1, ConcatAssociative
  <2> QED BY <2>1, <2>2
<1>3. Follows(log, s \o t)
  BY <1>1, FollowsConcat
<1>4. TurnsIn(log) \in Nat /\ TurnEndsIn(log) \in Nat
  BY CountsAreNat DEF TurnsIn, TurnEndsIn
<1> DEFINE all == log \o (s \o t)
<1>5. /\ all = (log \o s) \o t /\ all \in Seq(Item)
      /\ log # <<>> => all # <<>>
  BY <1>2 DEF Grows
<1>6. TurnsIn(all) = TurnsIn(log) + (a + c) /\ TurnEndsIn(all) = TurnEndsIn(log) + (b + d)
  <2>1. TurnsIn(log \o s) = TurnsIn(log) + a /\ TurnEndsIn(log \o s) = TurnEndsIn(log) + b
    BY DEF Grows
  <2>2. TurnsIn(all) = TurnsIn(log \o s) + c /\ TurnEndsIn(all) = TurnEndsIn(log \o s) + d
    BY <1>5 DEF Grows
  <2> HIDE DEF all
  <2> QED
    BY <1>4, <2>1, <2>2
<1>7. /\ AboutIn(all, "message_start") = AboutIn(log, "message_start") \cup (ids \cup jds)
      /\ AboutIn(all, "message_end") = AboutIn(log, "message_end") \cup (ids \cup jds)
      /\ AboutIn(all, "tool_execution_start") = AboutIn(log, "tool_execution_start")
      /\ AboutIn(all, "tool_execution_end") = AboutIn(log, "tool_execution_end")
      /\ last \/ AtIn(all, "agent_end") = AtIn(log, "agent_end")
  BY <1>5 DEF Grows
<1> QED
  BY <1>2, <1>3, <1>5, <1>6, <1>7 DEF Grows

\* The log after one event that may follow it.
LEMMA OneMore ==
    ASSUME NEW log \in Seq(Item), NEW kind \in Kinds, NEW of \in Subject,
           AllowedAfter(log, Event(kind, of))
    PROVE  LET one == <<Event(kind, of)>>
               more == log \o one
           IN /\ Follows(log, one) /\ one \in Seq(Item)
              /\ more \in Seq(Item) /\ more # <<>>
              /\ TurnsIn(more) = TurnsIn(log) + IF kind = "turn_start" THEN 1 ELSE 0
              /\ TurnEndsIn(more) = TurnEndsIn(log) + IF kind = "turn_end" THEN 1 ELSE 0
              /\ TurnsIn(log) \in Nat /\ TurnEndsIn(log) \in Nat
              /\ AboutIn(more, kind) = AboutIn(log, kind) \cup {of}
              /\ \A k \in Kinds \ {kind} : AboutIn(more, k) = AboutIn(log, k)
              /\ kind # "agent_end" => AtIn(more, "agent_end") = AtIn(log, "agent_end")
<1> DEFINE e == Event(kind, of)
           one == <<e>>
           more == log \o one
<1>1. e \in Item /\ e.kind = kind /\ e.of = of
  BY DEF Event, Item
<1> HIDE DEF e
<1>2. one \in Seq(Item) /\ Follows(log, one)
  BY <1>1, FollowsOne DEF e
<1>3. more = Append(log, e)
  BY <1>1, AppendIsConcat
<1> HIDE DEF one, more
<1>4. /\ more \in Seq(Item) /\ more # <<>>
      /\ \A k : AboutIn(more, k) = AboutIn(log, k) \cup IF kind = k THEN {of} ELSE {}
      /\ \A k : AtIn(more, k) = AtIn(log, k) \cup IF kind = k THEN {Len(log) + 1} ELSE {}
  BY <1>1, <1>3, AppendLog
<1>5. /\ TurnsIn(more) = TurnsIn(log) + IF kind = "turn_start" THEN 1 ELSE 0
      /\ TurnEndsIn(more) = TurnEndsIn(log) + IF kind = "turn_end" THEN 1 ELSE 0
      /\ TurnsIn(log) \in Nat /\ TurnEndsIn(log) \in Nat
  BY <1>1, <1>3, AppendTurns
<1>6. AboutIn(more, kind) = AboutIn(log, kind) \cup {of}
  BY <1>4
<1>7. \A k \in Kinds \ {kind} : AboutIn(more, k) = AboutIn(log, k)
  BY <1>4
<1>8. kind # "agent_end" => AtIn(more, "agent_end") = AtIn(log, "agent_end")
  BY <1>4
<1> QED
  BY <1>2, <1>4, <1>5, <1>6, <1>7, <1>8 DEF e, one, more

\* A log in which a message may start, and one in which the turn may end.
InTurn(log) ==
    /\ log # <<>> /\ AtIn(log, "agent_end") = {}
    /\ TurnsIn(log) > TurnEndsIn(log) /\ OpenIn(log) = {}
Idle(log) == InTurn(log) /\ RunningIn(log) = {}

LEMMA GrowsMessage ==
    ASSUME NEW log \in Seq(Item), InTurn(log), NEW id \in Nat,
           id \notin AboutIn(log, "message_start") \cup AboutIn(log, "message_end")
    PROVE  Grows(log, Published(id), 0, 0, {id}, FALSE)
<1> id \in Subject
  BY DEF Subject
<1> DEFINE first == <<Event("message_start", id)>>
           second == <<Event("message_end", id)>>
           mid == log \o first
           whole == mid \o second
<1>1. AllowedAfter(log, Event("message_start", id))
  BY DEF AllowedAfter, Event, InTurn
<1>2. /\ Follows(log, first) /\ first \in Seq(Item) /\ mid \in Seq(Item) /\ mid # <<>>
      /\ TurnsIn(mid) = TurnsIn(log) /\ TurnEndsIn(mid) = TurnEndsIn(log)
      /\ TurnsIn(log) \in Nat /\ TurnEndsIn(log) \in Nat
      /\ AboutIn(mid, "message_start") = AboutIn(log, "message_start") \cup {id}
      /\ AboutIn(mid, "message_end") = AboutIn(log, "message_end")
      /\ AboutIn(mid, "tool_execution_start") = AboutIn(log, "tool_execution_start")
      /\ AboutIn(mid, "tool_execution_end") = AboutIn(log, "tool_execution_end")
      /\ AtIn(mid, "agent_end") = AtIn(log, "agent_end")
  <2>1. "message_start" \in Kinds /\ \A k \in {"message_end", "tool_execution_start",
            "tool_execution_end"} : k \in Kinds \ {"message_start"}
    BY DEF Kinds
  <2> QED
    BY <1>1, <2>1, OneMore
<1> HIDE DEF mid
<1>3. AllowedAfter(mid, Event("message_end", id))
  BY <1>2 DEF AllowedAfter, Event, InTurn, OpenIn
<1>4. /\ Follows(mid, second) /\ second \in Seq(Item) /\ whole \in Seq(Item) /\ whole # <<>>
      /\ TurnsIn(whole) = TurnsIn(mid) /\ TurnEndsIn(whole) = TurnEndsIn(mid)
      /\ AboutIn(whole, "message_start") = AboutIn(mid, "message_start")
      /\ AboutIn(whole, "message_end") = AboutIn(mid, "message_end") \cup {id}
      /\ AboutIn(whole, "tool_execution_start") = AboutIn(mid, "tool_execution_start")
      /\ AboutIn(whole, "tool_execution_end") = AboutIn(mid, "tool_execution_end")
      /\ AtIn(whole, "agent_end") = AtIn(mid, "agent_end")
  <2>1. "message_end" \in Kinds /\ \A k \in {"message_start", "tool_execution_start",
            "tool_execution_end"} : k \in Kinds \ {"message_end"}
    BY DEF Kinds
  <2>2. /\ TurnsIn(whole) = TurnsIn(mid) + 0 /\ TurnEndsIn(whole) = TurnEndsIn(mid) + 0
        /\ TurnsIn(mid) \in Nat /\ TurnEndsIn(mid) \in Nat
    BY <1>2, <1>3, <2>1, OneMore
  <2>3. TurnsIn(whole) = TurnsIn(mid) /\ TurnEndsIn(whole) = TurnEndsIn(mid)
    <3> HIDE DEF whole
    <3> QED
      BY <2>2
  <2> QED
    BY <1>2, <1>3, <2>1, <2>3, OneMore
<1>5. /\ Published(id) = first \o second
      /\ log \o (first \o second) = whole
  <2>1. Published(id) = first \o second
    BY DEF Published
  <2>2. (log \o first) \o second = log \o (first \o second)
    <3> DEFINE f == first
               g == second
    <3> f \in Seq(Item) /\ g \in Seq(Item)
      BY <1>2, <1>4
    <3> HIDE DEF f, g
    <3>1. (log \o f) \o g = log \o (f \o g)
      BY ConcatAssociative
    <3> QED
      BY <3>1 DEF f, g
  <2> QED
    BY <2>1, <2>2 DEF mid
<1> HIDE DEF first, second, whole
<1>6. Follows(log, Published(id)) /\ Published(id) \in Seq(Item)
  BY <1>2, <1>4, <1>5, FollowsConcat, ConcatProperties DEF mid
<1> QED
  BY <1>2, <1>4, <1>5, <1>6 DEF Grows

\* An event about no message and no call.
LEMMA GrowsOne ==
    ASSUME NEW log \in Seq(Item), NEW of \in Subject,
           NEW kind \in {"turn_start", "turn_end", "agent_end"} \cup Compactions,
           AllowedAfter(log, Event(kind, of))
    PROVE  Grows(log, <<Event(kind, of)>>, IF kind = "turn_start" THEN 1 ELSE 0,
                 IF kind = "turn_end" THEN 1 ELSE 0, {}, kind = "agent_end")
<1>1. /\ kind \in Kinds
      /\ \A k \in {"message_start", "message_end", "tool_execution_start",
                   "tool_execution_end"} : k \in Kinds \ {kind}
  BY DEF Kinds, Compactions
<1> DEFINE one == <<Event(kind, of)>>
           more == log \o one
<1>2. /\ Follows(log, one) /\ one \in Seq(Item)
      /\ more \in Seq(Item) /\ more # <<>>
      /\ TurnsIn(more) = TurnsIn(log) + IF kind = "turn_start" THEN 1 ELSE 0
      /\ TurnEndsIn(more) = TurnEndsIn(log) + IF kind = "turn_end" THEN 1 ELSE 0
      /\ \A k \in Kinds \ {kind} : AboutIn(more, k) = AboutIn(log, k)
      /\ kind # "agent_end" => AtIn(more, "agent_end") = AtIn(log, "agent_end")
  BY <1>1, OneMore
<1> HIDE DEF one, more
<1>3. Grows(log, one, IF kind = "turn_start" THEN 1 ELSE 0,
            IF kind = "turn_end" THEN 1 ELSE 0, {}, kind = "agent_end")
  BY <1>1, <1>2 DEF Grows, more
<1> QED
  BY <1>3 DEF one

LEMMA GrowsCompaction ==
    ASSUME NEW log \in Seq(Item), Idle(log), NEW kind \in Compactions, NEW of \in Subject
    PROVE  Grows(log, <<Event(kind, of)>>, 0, 0, {}, FALSE)
<1>1. AllowedAfter(log, Event(kind, of))
  BY DEF AllowedAfter, Event, Idle, InTurn
<1>2. kind \notin {"turn_start", "turn_end", "agent_end"}
  BY DEF Compactions
<1> QED
  BY <1>1, <1>2, GrowsOne

LEMMA GrowsTurnStart ==
    ASSUME NEW log \in Seq(Item), log # <<>>, AtIn(log, "agent_end") = {},
           NEW n \in Nat, TurnsIn(log) = n, TurnEndsIn(log) = n
    PROVE  Grows(log, <<Event("turn_start", n + 1)>>, 1, 0, {}, FALSE)
<1>1. n + 1 \in Subject
  BY DEF Subject
<1>2. AllowedAfter(log, Event("turn_start", n + 1))
  BY DEF AllowedAfter, Event
<1> QED
  BY <1>1, <1>2, GrowsOne

LEMMA GrowsTurnEnd ==
    ASSUME NEW log \in Seq(Item), Idle(log), turn \in Nat, TurnsIn(log) = turn
    PROVE  Grows(log, TurnEnd, 0, 1, {}, FALSE)
<1>1. turn \in Subject
  BY DEF Subject
<1>2. AllowedAfter(log, Event("turn_end", turn))
  BY DEF AllowedAfter, Event, Idle, InTurn
<1> QED
  BY <1>1, <1>2, GrowsOne DEF TurnEnd

LEMMA GrowsAgentEnd ==
    ASSUME NEW log \in Seq(Item), log # <<>>, AtIn(log, "agent_end") = {},
           NEW n \in Nat, n > 0, TurnsIn(log) = n, TurnEndsIn(log) = n,
           OpenIn(log) = {}, RunningIn(log) = {}
    PROVE  Grows(log, AgentEnd, 0, 0, {}, TRUE)
<1>1. 0 \in Subject
  BY DEF Subject
<1>2. AllowedAfter(log, Event("agent_end", 0))
  BY DEF AllowedAfter, Event
<1> QED
  BY <1>1, <1>2, GrowsOne DEF AgentEnd

\* The end of the turn and of the run.
LEMMA GrowsEnd ==
    ASSUME NEW log \in Seq(Item), Idle(log), turn \in Nat, turn > 0,
           TurnsIn(log) = turn, TurnEndsIn(log) = turn - 1
    PROVE  Grows(log, EndOfRun, 0, 1, {}, TRUE)
<1> DEFINE mid == log \o TurnEnd
<1>1. Grows(log, TurnEnd, 0, 1, {}, FALSE)
  BY GrowsTurnEnd
<1>2. /\ mid \in Seq(Item) /\ mid # <<>> /\ AtIn(mid, "agent_end") = {}
      /\ OpenIn(mid) = {} /\ RunningIn(mid) = {}
  BY <1>1 DEF Grows, Idle, InTurn, OpenIn, RunningIn
<1>3. TurnsIn(mid) = turn /\ TurnEndsIn(mid) = turn
  <2>1. TurnsIn(mid) = TurnsIn(log) + 0 /\ TurnEndsIn(mid) = TurnEndsIn(log) + 1
    BY <1>1 DEF Grows
  <2> HIDE DEF mid
  <2> QED
    BY <2>1
<1>4. Grows(mid, AgentEnd, 0, 0, {}, TRUE)
  <2> HIDE DEF mid
  <2> QED
    BY <1>2, <1>3, GrowsAgentEnd
<1>5. Grows(log, TurnEnd \o AgentEnd, 0 + 0, 1 + 0, {} \cup {}, TRUE)
  BY <1>1, <1>4, GrowsConcat
<1>6. 0 + 0 = 0 /\ 1 + 0 = 1
  OBVIOUS
<1> QED
  BY <1>5, <1>6 DEF EndOfRun

\* What stays so between two blocks of events in a turn.
LEMMA StaysIdle ==
    ASSUME NEW log \in Seq(Item), NEW more, NEW ids, Idle(log), Grows(log, more, 0, 0, ids, FALSE)
    PROVE  /\ Idle(log \o more) /\ log \o more \in Seq(Item)
           /\ TurnsIn(log \o more) = TurnsIn(log) /\ TurnEndsIn(log \o more) = TurnEndsIn(log)
<1> DEFINE all == log \o more
<1>1. /\ all \in Seq(Item) /\ all # <<>> /\ AtIn(all, "agent_end") = {}
      /\ OpenIn(all) = {} /\ RunningIn(all) = {}
  BY DEF Grows, Idle, InTurn, OpenIn, RunningIn
<1>2. TurnsIn(all) = TurnsIn(log) + 0 /\ TurnEndsIn(all) = TurnEndsIn(log) + 0
  BY DEF Grows
<1>3. TurnsIn(log) \in Nat /\ TurnEndsIn(log) \in Nat
  BY CountsAreNat DEF TurnsIn, TurnEndsIn
<1> HIDE DEF all
<1>4. TurnsIn(all) = TurnsIn(log) /\ TurnEndsIn(all) = TurnEndsIn(log)
  BY <1>2, <1>3
<1>5. Idle(all)
  BY <1>1, <1>4 DEF Idle, InTurn
<1> QED
  BY <1>1, <1>4, <1>5 DEF all

\* A block of events before the end of the run.
LEMMA GrowsThenEnds ==
    ASSUME NEW log \in Seq(Item), NEW more, NEW ids, Idle(log), turn \in Nat, turn > 0,
           TurnsIn(log) = turn, TurnEndsIn(log) = turn - 1,
           Grows(log, more, 0, 0, ids, FALSE)
    PROVE  Grows(log, more \o EndOfRun, 0, 1, ids, TRUE)
<1>1. /\ Idle(log \o more) /\ log \o more \in Seq(Item)
      /\ TurnsIn(log \o more) = turn /\ TurnEndsIn(log \o more) = turn - 1
  BY StaysIdle
<1>2. Grows(log \o more, EndOfRun, 0, 1, {}, TRUE)
  <2> DEFINE all == log \o more
  <2> HIDE DEF all
  <2>1. Idle(all) /\ all \in Seq(Item) /\ TurnsIn(all) = turn /\ TurnEndsIn(all) = turn - 1
    BY <1>1 DEF all
  <2>2. Grows(all, EndOfRun, 0, 1, {}, TRUE)
    BY <2>1, GrowsEnd
  <2> QED
    BY <2>2 DEF all
<1>3. Grows(log, more \o EndOfRun, 0 + 0, 0 + 1, ids \cup {}, TRUE)
  BY <1>2, GrowsConcat
<1>4. 0 + 0 = 0 /\ 0 + 1 = 1 /\ ids \cup {} = ids
  OBVIOUS
<1> QED
  BY <1>3, <1>4
-----------------------------------------------------------------------------
\* The facts of a state in which everything is published.
LEMMA Published_ ==
    ASSUME TypeInv, out = <<>>
    PROVE  /\ Log = events /\ events \in Seq(Item)
           /\ TurnsIn(events) \in Nat /\ TurnEndsIn(events) \in Nat
           /\ Grows(events, <<>>, 0, 0, {}, FALSE)
<1>1. events \in Seq(Item)
  BY DEF TypeInv, LogType
<1>2. Log = events
  BY <1>1, ConcatEmptySeq DEF Log
<1>3. TurnsIn(events) \in Nat /\ TurnEndsIn(events) \in Nat
  BY <1>1, CountsAreNat DEF TurnsIn, TurnEndsIn
<1> QED
  BY <1>1, <1>2, <1>3, GrowsNothing

LEMMA WiderInterval == \A m, n \in Nat : n >= m => 1 .. m - 1 \subseteq 1 .. n - 1
OBVIOUS

\* A step between places of the loop at which no message is open and no call
\* is running.
Calm(turns, ends, ids, last) ==
    /\ Grows(events, out', turns, ends, ids, last)
    /\ ids \subseteq 1 .. nextId' - 1 /\ nextId' >= nextId
    /\ pc' \notin {"created", "streaming", "response", "tools"}
    /\ pendingTools' = {} /\ loop'.assistant = loop.assistant /\ turn' = turn + turns
    /\ IF pc' \in InTurnLabels
       THEN ends = 0 /\ turns = IF pc \in InTurnLabels THEN 0 ELSE 1
       ELSE turns = 0 /\ ends = IF pc \in InTurnLabels THEN 1 ELSE 0
    /\ pc' \notin EndLabels => ~last /\ pc \notin EndLabels

LEMMA CalmStep ==
    ASSUME TypeInv, TypeInv', TurnsAgree, MessagesAgree, ToolsAgree,
           out = <<>>, events' = events, scenario' = scenario,
           pc # "created", OpenIn(events) = {}, RunningIn(events) = {},
           NEW turns \in {0, 1}, NEW ends \in {0, 1}, NEW ids, NEW last \in BOOLEAN,
           Calm(turns, ends, ids, last)
    PROVE  TurnsAgree' /\ MessagesAgree' /\ ToolsAgree' /\ Follows(events, out')
<1>1. /\ Log = events /\ Log' = events \o out' /\ events \in Seq(Item)
      /\ TurnsIn(events) \in Nat /\ TurnEndsIn(events) \in Nat
  BY Published_ DEF Log
<1> USE DEF Calm
<1> DEFINE now == events \o out'
<1>2. /\ turn \in Nat /\ nextId \in Nat /\ nextId' \in Nat /\ loop.assistant \in Nat
  BY DEF TypeInv, AgentType, RunType, LoopType, LoopLocals
<1>3. TurnsAgree'
  <2>1. /\ events # <<>> /\ turn > 0 /\ TurnsIn(events) = turn
        /\ TurnEndsIn(events) = IF pc \in InTurnLabels THEN turn - 1 ELSE turn
        /\ pc \notin EndLabels => AtIn(events, "agent_end") = {}
    BY <1>1 DEF TurnsAgree
  <2>2. /\ now # <<>> /\ TurnsIn(now) = turn + turns
        /\ TurnEndsIn(now) = TurnEndsIn(events) + ends
        /\ ~last => AtIn(now, "agent_end") = AtIn(events, "agent_end")
    BY <1>1, <2>1 DEF Grows
  <2> HIDE DEF now
  <2>3. turn' > 0 /\ TurnsIn(now) = turn'
    BY <1>2, <2>1, <2>2
  <2>4. TurnEndsIn(now) = IF pc' \in InTurnLabels THEN turn' - 1 ELSE turn'
    BY <1>2, <2>1, <2>2
  <2>5. pc' \notin EndLabels => AtIn(now, "agent_end") = {}
    BY <2>1, <2>2
  <2>6. Log' = now
    BY <1>1 DEF now
  <2> HIDE DEF InTurnLabels, EndLabels
  <2> QED
    BY <2>2, <2>3, <2>4, <2>5, <2>6 DEF TurnsAgree
<1>4. MessagesAgree'
  <2>1. /\ AboutIn(events, "message_start") \subseteq 1 .. nextId - 1
        /\ AboutIn(events, "message_end") \subseteq 1 .. nextId - 1
        /\ loop.assistant < nextId
    BY <1>1 DEF MessagesAgree
  <2>2. /\ AboutIn(now, "message_start") = AboutIn(events, "message_start") \cup ids
        /\ AboutIn(now, "message_end") = AboutIn(events, "message_end") \cup ids
    BY DEF Grows
  <2> HIDE DEF now
  <2>3. /\ AboutIn(now, "message_start") \subseteq 1 .. nextId' - 1
        /\ AboutIn(now, "message_end") \subseteq 1 .. nextId' - 1
        /\ loop'.assistant < nextId'
    <3>1. 1 .. nextId - 1 \subseteq 1 .. nextId' - 1
      BY <1>2, WiderInterval
    <3>2. loop.assistant < nextId' /\ loop'.assistant = loop.assistant
      BY <1>2, <2>1
    <3> QED
      BY <2>1, <2>2, <3>1, <3>2
  <2>4. OpenIn(now) = {}
    BY <2>2 DEF OpenIn
  <2>5. Log' = now
    BY <1>1 DEF now
  <2> QED
    BY <2>3, <2>4, <2>5 DEF MessagesAgree
<1>5. ToolsAgree'
  <2>1. /\ AboutIn(now, "tool_execution_start") = AboutIn(events, "tool_execution_start")
        /\ AboutIn(now, "tool_execution_end") = AboutIn(events, "tool_execution_end")
        /\ Log' = now
    BY <1>1 DEF Grows
  <2> HIDE DEF now
  <2>2. RunningIn(Log') = {}
    BY <2>1 DEF RunningIn
  <2>3. Begun' \subseteq CallsBefore(nextId') /\ AboutIn(Log', "tool_execution_end") \subseteq Begun'
    <3>1. CallsBefore(nextId) \subseteq CallsBefore(nextId')
      BY <1>2 DEF CallsBefore, Call
    <3>2. Begun' = Begun /\ AboutIn(Log', "tool_execution_end") = AboutIn(Log, "tool_execution_end")
      BY <1>1, <2>1 DEF Begun
    <3> QED
      BY <3>1, <3>2 DEF ToolsAgree
  <2> QED
    BY <2>2, <2>3 DEF ToolsAgree
<1> QED
  BY <1>3, <1>4, <1>5 DEF Grows

\* The turn may end, or go on with a message or a compaction.
LEMMA IdleFacts ==
    ASSUME TypeInv, TurnsAgree, MessagesAgree, ToolsAgree, out = <<>>,
           pc \notin {"created", "tools", "streaming"}
    PROVE  /\ OpenIn(events) = {} /\ RunningIn(events) = {} /\ pendingTools = {}
           /\ events # <<>> /\ turn \in Nat /\ turn > 0 /\ TurnsIn(events) = turn
           /\ TurnEndsIn(events) = IF pc \in InTurnLabels THEN turn - 1 ELSE turn
           /\ pc \notin EndLabels => AtIn(events, "agent_end") = {}
           /\ pc \in InTurnLabels => Idle(events)
           /\ nextId \in Nat \ {0} /\ loop \in LoopLocals
           /\ nextId \notin AboutIn(events, "message_start") \cup AboutIn(events, "message_end")
<1>1. Log = events
  BY Published_
<1>2. /\ turn \in Nat /\ nextId \in Nat \ {0} /\ loop \in LoopLocals
  BY DEF TypeInv, AgentType, RunType, LoopType
<1>3. OpenIn(events) = {} /\ RunningIn(events) = {} /\ pendingTools = {}
  BY <1>1 DEF MessagesAgree, ToolsAgree
<1>4. /\ events # <<>> /\ turn > 0 /\ TurnsIn(events) = turn
      /\ TurnEndsIn(events) = IF pc \in InTurnLabels THEN turn - 1 ELSE turn
      /\ pc \notin EndLabels => AtIn(events, "agent_end") = {}
  BY <1>1 DEF TurnsAgree
<1>5. nextId \notin AboutIn(events, "message_start") \cup AboutIn(events, "message_end")
  <2>1. nextId \notin 1 .. nextId - 1
    BY <1>2
  <2> QED
    BY <1>1, <2>1 DEF MessagesAgree
<1>6. pc \in InTurnLabels => pc \notin EndLabels
  BY DEF InTurnLabels, EndLabels, Terminal
<1>7. pc \in InTurnLabels => Idle(events)
  BY <1>2, <1>3, <1>4, <1>6 DEF Idle, InTurn
<1> QED
  BY <1>2, <1>3, <1>4, <1>5, <1>7

LEMMA PairOfEvents ==
    ASSUME NEW a \in Item, NEW b \in Item
    PROVE  <<a>> \o <<b>> = <<a, b>>
<1>1. <<a>> \in Seq(Item) /\ <<b>> \in Seq(Item) /\ <<a, b>> \in Seq(Item)
  OBVIOUS
<1> DEFINE both == <<a>> \o <<b>>
<1>2. both \in Seq(Item) /\ Len(both) = 2 /\ both[1] = a /\ both[2] = b
  BY <1>1, ConcatProperties
<1>3. Len(<<a, b>>) = 2 /\ <<a, b>>[1] = a /\ <<a, b>>[2] = b
  OBVIOUS
<1> HIDE DEF both
<1>4. \A i \in 1 .. 2 : both[i] = <<a, b>>[i]
  BY <1>2, <1>3
<1>5. both = <<a, b>>
  BY <1>1, <1>2, <1>3, <1>4, SeqEqual
<1> QED
  BY <1>5 DEF both

\* The compactions' events.
LEMMA CompactionEvents ==
    ASSUME TypeInv, Idle(events)
    PROVE  /\ Grows(events, <<CompactionEnd>>, 0, 0, {}, FALSE)
           /\ Grows(events, <<CompactionStart, SkippedEvent("compaction")>>, 0, 0, {}, FALSE)
           /\ Grows(events, <<SkippedEvent("breaker")>>, 0, 0, {}, FALSE)
           /\ Grows(events, <<Event("automatic_compaction_end", "overflow")>>, 0, 0, {}, FALSE)
<1>1. /\ events \in Seq(Item)
      /\ {loop.compacting, "compaction", "breaker", "overflow"} \subseteq Subject
      /\ {"automatic_compaction_start", "automatic_compaction_end",
          "provider_request_skipped"} = Compactions
  BY DEF TypeInv, LogType, LoopType, LoopLocals, Subject, Compactions
<1>2. \A kind \in Compactions, of \in Subject :
         Grows(events, <<Event(kind, of)>>, 0, 0, {}, FALSE)
  BY <1>1, GrowsCompaction
<1>3. /\ Grows(events, <<CompactionEnd>>, 0, 0, {}, FALSE)
      /\ Grows(events, <<CompactionStart>>, 0, 0, {}, FALSE)
      /\ Grows(events, <<SkippedEvent("breaker")>>, 0, 0, {}, FALSE)
      /\ Grows(events, <<Event("automatic_compaction_end", "overflow")>>, 0, 0, {}, FALSE)
  BY <1>1, <1>2 DEF CompactionEnd, CompactionStart, SkippedEvent
<1>4. Grows(events, <<CompactionStart, SkippedEvent("compaction")>>, 0, 0, {}, FALSE)
  <2> DEFINE first == <<CompactionStart>>
             mid == events \o first
             second == <<SkippedEvent("compaction")>>
  <2>1. mid \in Seq(Item) /\ Idle(mid)
    BY <1>1, <1>3, StaysIdle
  <2>2. Grows(mid, second, 0, 0, {}, FALSE)
    <3> HIDE DEF mid
    <3> QED
      BY <1>1, <2>1, GrowsCompaction DEF SkippedEvent
  <2>3. Grows(events, first \o second, 0 + 0, 0 + 0, {} \cup {}, FALSE)
    <3> HIDE DEF first, second
    <3> QED
      BY <1>1, <1>3, <2>2, GrowsConcat DEF first
  <2>4. first \o second = <<CompactionStart, SkippedEvent("compaction")>>
    <3>1. CompactionStart \in Item /\ SkippedEvent("compaction") \in Item
      BY <1>1 DEF CompactionStart, SkippedEvent, Event, Item, Kinds
    <3> QED
      BY <3>1, PairOfEvents
  <2>5. 0 + 0 = 0
    OBVIOUS
  <2> QED
    BY <2>3, <2>4, <2>5
<1> QED
  BY <1>3, <1>4

\* What the loop does where no message is open and no call is running.
Calmly == \E turns \in {0, 1}, ends \in {0, 1}, ids \in SUBSET Nat, last \in BOOLEAN :
             Calm(turns, ends, ids, last)

LEMMA CalmActions ==
    ASSUME TypeInv, TurnsAgree, MessagesAgree, ToolsAgree, Clean', TurnLoop,
           pc \notin {"created", "tools", "streaming"}
    PROVE  Request \/ UseTools \/ Calmly
<1>1. /\ out = <<>> /\ settling' = settling
  BY LoopFrame
<1>2. /\ pendingTools = {} /\ turn \in Nat /\ turn > 0 /\ TurnsIn(events) = turn
      /\ TurnEndsIn(events) = IF pc \in InTurnLabels THEN turn - 1 ELSE turn
      /\ events # <<>> /\ OpenIn(events) = {} /\ RunningIn(events) = {}
      /\ pc \notin EndLabels => AtIn(events, "agent_end") = {}
      /\ pc \in InTurnLabels => Idle(events)
      /\ nextId \in Nat \ {0} /\ loop \in LoopLocals
      /\ nextId \notin AboutIn(events, "message_start") \cup AboutIn(events, "message_end")
  BY <1>1, IdleFacts
<1>3. events \in Seq(Item) /\ Grows(events, <<>>, 0, 0, {}, FALSE)
  BY <1>1, Published_
<1> USE DEF Ready, agentVars, runVars, localVars
<1>4. \A q, m, k, r, h :
         /\ [loop EXCEPT !.queued = q].assistant = loop.assistant
         /\ [loop EXCEPT !.compacting = k].assistant = loop.assistant
         /\ [loop EXCEPT !.more = m].assistant = loop.assistant
         /\ [loop EXCEPT !.completed = h].assistant = loop.assistant
         /\ [loop EXCEPT !.completed = h, !.more = m].assistant = loop.assistant
  BY <1>2 DEF LoopLocals
<1>5. /\ {} \subseteq 1 .. nextId - 1 /\ nextId >= nextId /\ nextId + 1 >= nextId
      /\ {nextId} \subseteq 1 .. (nextId + 1) - 1 /\ {nextId} \in SUBSET Nat
      /\ {} \in SUBSET Nat /\ turn + 0 = turn
  BY <1>2
\* Nothing is published.
<1>6. CASE \/ InitialDrain \/ Injected \/ BelowThreshold \/ AboveThreshold
           \/ RetryOverflow \/ ModelFailed \/ UnexpectedCalls
           \/ GoOn \/ DrainSteering \/ DrainFollowUp
  <2>1. /\ out' = <<>> /\ nextId' = nextId /\ pendingTools' = {} /\ turn' = turn
        /\ loop'.assistant = loop.assistant
    <3>1. CASE InitialDrain \/ Injected \/ BelowThreshold \/ AboveThreshold
      BY <1>1, <1>2, <1>4, <3>1 DEF InitialDrain, Injected, BelowThreshold, AboveThreshold
    <3>2. CASE RetryOverflow \/ ModelFailed \/ UnexpectedCalls
      BY <1>1, <1>2, <1>4, <3>2 DEF RetryOverflow, ModelFailed, UnexpectedCalls
    <3>3. CASE GoOn \/ DrainSteering \/ DrainFollowUp
      BY <1>1, <1>2, <1>4, <3>3 DEF GoOn, DrainSteering, DrainFollowUp
    <3> QED
      BY <1>6, <3>1, <3>2, <3>3
  <2>2. /\ pc' \notin {"created", "streaming", "response", "tools"}
        /\ pc' \in InTurnLabels <=> pc \in InTurnLabels
        /\ pc' \in EndLabels <=> pc \in EndLabels
    <3> USE DEF InTurnLabels, EndLabels, Terminal, Fail
    <3>1. CASE InitialDrain \/ Injected \/ BelowThreshold \/ AboveThreshold
      BY <3>1 DEF InitialDrain, Injected, BelowThreshold, AboveThreshold
    <3>2. CASE RetryOverflow \/ ModelFailed \/ UnexpectedCalls
      BY <3>2 DEF RetryOverflow, ModelFailed, UnexpectedCalls
    <3>3. CASE GoOn \/ DrainSteering \/ DrainFollowUp
      BY <3>3 DEF GoOn, DrainSteering, DrainFollowUp
    <3> QED
      BY <1>6, <3>1, <3>2, <3>3
  <2>3. Calm(0, 0, {}, FALSE)
    BY <1>2, <1>3, <1>5, <2>1, <2>2 DEF Calm
  <2> QED
    BY <1>5, <2>3 DEF Calmly
\* A message or the events of a compaction.
<1>7. CASE Inject
  <2>1. /\ out' = Published(nextId) /\ nextId' = nextId + 1 /\ pendingTools' = {}
        /\ turn' = turn /\ loop'.assistant = loop.assistant /\ pc = "inject" /\ pc' = pc
    BY <1>2, <1>4, <1>7 DEF Inject
  <2>2. Idle(events) /\ pc \notin EndLabels /\ pc \in InTurnLabels
    BY <1>2, <2>1 DEF InTurnLabels, EndLabels, Terminal
  <2>3. Grows(events, Published(nextId), 0, 0, {nextId}, FALSE)
    BY <1>2, <1>3, <2>2, GrowsMessage DEF Idle
  <2>4. Calm(0, 0, {nextId}, FALSE)
    BY <1>2, <1>5, <2>1, <2>2, <2>3 DEF Calm
  <2> QED
    BY <1>5, <2>4 DEF Calmly
<1>8. CASE \/ CompactionLimit \/ StartCompaction \/ CompactionFails
           \/ CompactionCancelled \/ CommitReplacement
  <2>1. /\ nextId' \in {nextId, nextId + 1} /\ pendingTools' = {} /\ turn' = turn
        /\ out' \in {<<CompactionEnd>>, <<CompactionStart, SkippedEvent("compaction")>>}
    BY <1>2, <1>8
       DEF CompactionLimit, StartCompaction, CompactionFails, CompactionCancelled,
           RefuseCompaction, CommitReplacement
  <2>2. pc \in {"compact", "compacting"} /\ pc' \in {"compacting", "errored", "request"}
    BY <1>8
       DEF CompactionLimit, StartCompaction, CompactionFails, CompactionCancelled,
           RefuseCompaction, CommitReplacement, Fail
  <2>3. loop'.assistant = loop.assistant
    <3>1. CASE CommitReplacement
      BY <1>4, <3>1 DEF CommitReplacement
    <3>2. CASE CompactionLimit \/ StartCompaction \/ CompactionFails \/ CompactionCancelled
      BY <3>2 DEF CompactionLimit, StartCompaction, CompactionFails, CompactionCancelled,
                  RefuseCompaction
    <3> QED
      BY <1>8, <3>1, <3>2
  <2>4. /\ pc \in InTurnLabels /\ pc \notin EndLabels /\ pc' \in InTurnLabels
        /\ pc' \notin {"created", "streaming", "response", "tools"}
    BY <2>2 DEF InTurnLabels, EndLabels, Terminal
  <2>5. Grows(events, out', 0, 0, {}, FALSE)
    BY <1>2, <2>1, <2>4, CompactionEvents
  <2>6. Calm(0, 0, {}, FALSE)
    BY <1>2, <1>5, <2>1, <2>3, <2>4, <2>5 DEF Calm
  <2> QED
    BY <1>5, <2>6 DEF Calmly
\* The turn or the run ends.
<1>9. CASE ResponseFailed \/ ResponseCancelled
  <2>1. /\ out' \in {EndOfRun, <<Event("automatic_compaction_end", "overflow")>> \o EndOfRun}
        /\ nextId' = nextId /\ pendingTools' = {} /\ turn' = turn
        /\ loop'.assistant = loop.assistant
    BY <1>2, <1>9 DEF ResponseFailed, ResponseCancelled
  <2>2. pc = "response" /\ pc' \in {"model_failed", "Cancelled"}
    BY <1>9 DEF ResponseFailed, ResponseCancelled
  <2>3. /\ pc \in InTurnLabels /\ pc \notin EndLabels
        /\ pc' \notin InTurnLabels /\ pc' \in EndLabels
        /\ pc' \notin {"created", "streaming", "response", "tools"}
    BY <2>2 DEF InTurnLabels, EndLabels, Terminal
  <2>4. Grows(events, EndOfRun, 0, 1, {}, TRUE)
    BY <1>2, <1>3, <2>3, GrowsEnd
  <2>5. Grows(events, <<Event("automatic_compaction_end", "overflow")>> \o EndOfRun,
              0, 1, {}, TRUE)
    BY <1>2, <1>3, <2>3, CompactionEvents, GrowsThenEnds
  <2>6. Calm(0, 1, {}, TRUE)
    BY <1>2, <1>5, <2>1, <2>3, <2>4, <2>5 DEF Calm
  <2> QED
    BY <1>5, <2>6 DEF Calmly
<1>10. CASE NoTools
  <2>1. /\ out' = TurnEnd /\ nextId' = nextId /\ pendingTools' = {} /\ turn' = turn
        /\ loop'.assistant = loop.assistant /\ pc = "response" /\ pc' = "prepare"
    BY <1>2, <1>4, <1>10 DEF NoTools
  <2>2. /\ pc \in InTurnLabels /\ pc \notin EndLabels
        /\ pc' \notin InTurnLabels /\ pc' \notin EndLabels
        /\ pc' \notin {"created", "streaming", "response", "tools"}
    BY <2>1 DEF InTurnLabels, EndLabels, Terminal
  <2>3. Grows(events, TurnEnd, 0, 1, {}, FALSE)
    BY <1>2, <1>3, <2>2, GrowsTurnEnd
  <2>4. Calm(0, 1, {}, FALSE)
    BY <1>2, <1>5, <2>1, <2>2, <2>3 DEF Calm
  <2> QED
    BY <1>5, <2>4 DEF Calmly
<1>11. CASE ShouldStop \/ LastTurn
  <2>1. /\ out' = AgentEnd /\ nextId' = nextId /\ pendingTools' = {} /\ turn' = turn
        /\ loop'.assistant = loop.assistant
    BY <1>2, <1>11 DEF ShouldStop, LastTurn, Succeed
  <2>2. /\ pc \notin InTurnLabels /\ pc \notin EndLabels
        /\ pc' \notin InTurnLabels /\ pc' \in EndLabels
        /\ pc' \notin {"created", "streaming", "response", "tools"}
    BY <1>11 DEF ShouldStop, LastTurn, Succeed, InTurnLabels, EndLabels, Terminal
  <2>3. Grows(events, AgentEnd, 0, 0, {}, TRUE)
    BY <1>2, <1>3, <2>2, GrowsAgentEnd
  <2>4. Calm(0, 0, {}, TRUE)
    BY <1>2, <1>5, <2>1, <2>2, <2>3 DEF Calm
  <2> QED
    BY <1>5, <2>4 DEF Calmly
<1>12. CASE AdvanceTurn
  <2>1. /\ out' = <<Event("turn_start", turn + 1)>> /\ nextId' = nextId
        /\ pendingTools' = {} /\ turn' = turn + 1
        /\ loop'.assistant = loop.assistant
    BY <1>2, <1>12 DEF AdvanceTurn
  <2>2. /\ pc \notin InTurnLabels /\ pc \notin EndLabels /\ pc' \in InTurnLabels
        /\ pc' \notin {"created", "streaming", "response", "tools"}
    BY <1>12 DEF AdvanceTurn, InTurnLabels, EndLabels, Terminal
  <2>3. Grows(events, <<Event("turn_start", turn + 1)>>, 1, 0, {}, FALSE)
    BY <1>2, <1>3, <2>2, GrowsTurnStart
  <2>4. Calm(1, 0, {}, FALSE)
    BY <1>2, <1>5, <2>1, <2>2, <2>3 DEF Calm
  <2> QED
    BY <1>5, <2>4 DEF Calmly
\* The steps of other places, and a hook that fails.
<1>13. ~HookFails
  <2>1. HookFails => pc' = "errored" /\ "hook" \in Faults /\ scenario' = scenario
    BY DEF HookFails, Fail
  <2>2. HookFails => "hook" \in Faults'
    BY <2>1, SameParameters
  <2> QED
    BY <2>1, <2>2 DEF Clean, Orderly
<1>14. ~(\/ Start \/ TextDelta \/ StreamFails \/ Announce
         \/ (\E reason \in Responses, n \in 0 .. MaxCalls : StreamEnds(reason, n))
         \/ (\E i \in 1 .. batch.announced : EndTool(i))
         \/ Answer \/ Observe \/ SkipCall \/ ToolsDone \/ BreakerTripped)
  <2>1. ~(Start \/ TextDelta \/ StreamFails)
    BY DEF Start, TextDelta, StreamFails
  <2>2. ~(\E reason \in Responses, n \in 0 .. MaxCalls : StreamEnds(reason, n))
    <3> SUFFICES ASSUME NEW reason \in Responses, NEW n \in 0 .. MaxCalls, StreamEnds(reason, n)
                 PROVE  pc = "streaming"
      OBVIOUS
    <3> QED
      BY Zenon DEF StreamEnds
  <2>3. ~Announce /\ ~(\E i \in 1 .. batch.announced : EndTool(i))
    BY DEF Announce, EndTool
  <2>4. ~Answer /\ ~Observe
    <3>1. Answer => pc = "tools"
      BY Zenon DEF Answer
    <3>2. Observe => pc = "tools"
      BY Zenon DEF Observe
    <3> QED
      BY <3>1, <3>2
  <2>5. ~(SkipCall \/ ToolsDone \/ BreakerTripped)
    BY DEF SkipCall, ToolsDone, BreakerTripped, BatchDone
  <2> QED
    BY <2>1, <2>2, <2>3, <2>4, <2>5
<1> QED
  BY <1>6, <1>7, <1>8, <1>9, <1>10, <1>11, <1>12, <1>13, <1>14 DEF TurnLoop

LEMMA CalmEnds ==
    ASSUME TypeInv, TurnsAgree, MessagesAgree, ToolsAgree,
           \/ Finish \/ SettleFailure \/ SettleCancellation
           \/ SettleCompactionFailure \/ SettleCompactionCancellation
    PROVE  /\ out = <<>> /\ pc \notin {"created", "tools", "streaming"}
           /\ events' = events /\ scenario' = scenario /\ Calmly
<1> USE DEF Ready, agentVars, runVars, logVars, localVars
<1>1. /\ nextId \in Nat \ {0} /\ turn \in Nat /\ nextId >= nextId /\ nextId + 0 = nextId
      /\ turn + 0 = turn /\ {} \subseteq 1 .. nextId - 1 /\ {} \in SUBSET Nat
  BY DEF TypeInv, AgentType, RunType
<1>2. CASE Finish
  <2>1. /\ out = <<>> /\ out' = <<>> /\ events' = events /\ scenario' = scenario
        /\ nextId' = nextId /\ turn' = turn /\ pendingTools' = {} /\ loop' = loop
        /\ pc \in Terminal /\ pc' = "settled"
    BY <1>2 DEF Finish
  <2>2. /\ pc \notin {"created", "tools", "streaming"} /\ pc \notin InTurnLabels
        /\ pc' \notin {"created", "streaming", "response", "tools"}
        /\ pc' \notin InTurnLabels /\ pc' \in EndLabels
    BY <2>1 DEF InTurnLabels, EndLabels, Terminal
  <2>3. Grows(events, out', 0, 0, {}, FALSE)
    BY <2>1, Published_
  <2>4. Calm(0, 0, {}, FALSE)
    BY <1>1, <2>1, <2>2, <2>3 DEF Calm
  <2> QED
    BY <1>1, <2>1, <2>2, <2>4 DEF Calmly
<1>3. CASE \/ SettleFailure \/ SettleCancellation
           \/ SettleCompactionFailure \/ SettleCompactionCancellation
  <2>1. PICK outcome \in {"Failed", "Cancelled"}, synthetic \in Seq(Message) :
           Ready("errored") /\ Len(synthetic) \in {0, 1} /\ Settle(outcome, synthetic)
    <3>1. <<>> \in Seq(Call)
      OBVIOUS
    <3>2. \A stop \in StopReasons : Assistant(nextId, stop, <<>>) \in Message
      BY <1>1, <3>1, MakeMessage
    <3>3. /\ <<>> \in Seq(Message) /\ Len(<<>>) = 0
          /\ \A stop \in StopReasons : /\ <<Assistant(nextId, stop, <<>>)>> \in Seq(Message)
                                       /\ Len(<<Assistant(nextId, stop, <<>>)>>) = 1
      BY <3>2
    <3>4. {"Error", "Aborted"} \subseteq StopReasons
      BY DEF StopReasons
    <3>5. CASE SettleFailure
      BY <3>3, <3>4, <3>5 DEF SettleFailure
    <3>6. CASE SettleCancellation
      BY <3>3, <3>4, <3>6 DEF SettleCancellation
    <3>7. CASE SettleCompactionFailure \/ SettleCompactionCancellation
      BY <3>3, <3>7 DEF SettleCompactionFailure, SettleCompactionCancellation
    <3> QED
      BY <1>3, <3>5, <3>6, <3>7
  <2>2. /\ out = <<>> /\ events' = events /\ scenario' = scenario
        /\ nextId' = nextId + Len(synthetic) /\ turn' = turn /\ pendingTools' = {}
        /\ loop' = loop /\ pc = "errored" /\ pc' = outcome
        /\ out' = (IF synthetic = <<>> THEN <<>> ELSE Published(nextId)) \o EndOfRun
    BY <2>1 DEF Settle
  <2>3. /\ pc \notin {"created", "tools", "streaming"} /\ pc \in InTurnLabels
        /\ pc' \notin {"created", "streaming", "response", "tools"}
        /\ pc' \notin InTurnLabels /\ pc' \in EndLabels
    BY <2>2 DEF InTurnLabels, EndLabels, Terminal
  <2>4. /\ turn \in Nat /\ turn > 0 /\ TurnsIn(events) = turn
        /\ TurnEndsIn(events) = turn - 1 /\ Idle(events)
        /\ nextId \in Nat \ {0} /\ events \in Seq(Item)
        /\ nextId \notin AboutIn(events, "message_start") \cup AboutIn(events, "message_end")
    BY <2>2, <2>3, IdleFacts, Published_
  <2>5. CASE Len(synthetic) = 0
    <3>1. synthetic = <<>> /\ out' = EndOfRun
      <4>1. synthetic = <<>>
        BY <2>5, EmptySeq
      <4>2. EndOfRun \in Seq(Item)
        BY <2>4, MakeEvent
      <4>3. <<>> \o EndOfRun = EndOfRun
        BY <4>2, ConcatEmptySeq
      <4> QED
        BY <2>2, <4>1, <4>3
    <3>2. Grows(events, out', 0, 1, {}, TRUE)
      BY <2>4, <3>1, GrowsEnd
    <3>3. Calm(0, 1, {}, TRUE)
      BY <1>1, <2>2, <2>3, <2>5, <3>2 DEF Calm
    <3> QED
      BY <1>1, <2>2, <2>3, <3>3 DEF Calmly
  <2>6. CASE Len(synthetic) = 1
    <3>1. synthetic # <<>> /\ out' = Published(nextId) \o EndOfRun
      <4>1. synthetic # <<>>
        BY <2>6, NonEmpty
      <4> QED
        BY <2>2, <4>1
    <3>2. Grows(events, Published(nextId), 0, 0, {nextId}, FALSE)
      BY <2>4, GrowsMessage DEF Idle
    <3>3. Grows(events, out', 0, 1, {nextId}, TRUE)
      BY <2>4, <3>1, <3>2, GrowsThenEnds
    <3>4. /\ nextId' = nextId + 1 /\ nextId' >= nextId
          /\ {nextId} \subseteq 1 .. nextId' - 1 /\ {nextId} \in SUBSET Nat
      BY <1>1, <2>2, <2>6
    <3>5. Calm(0, 1, {nextId}, TRUE)
      BY <1>1, <2>2, <2>3, <3>3, <3>4 DEF Calm
    <3> QED
      BY <2>2, <2>3, <3>4, <3>5 DEF Calmly
  <2> QED
    BY <2>1, <2>2, <2>3, <2>5, <2>6
<1> QED
  BY <1>2, <1>3

\* The request: nothing is announced yet.
LEMMA RequestAgrees ==
    ASSUME TypeInv, TypeInv', TurnsAgree, MessagesAgree, ToolsAgree, Request
    PROVE  /\ TurnsAgree' /\ MessagesAgree' /\ ToolsAgree' /\ Follows(events, out')
<1>1. /\ pc = "request" /\ out = <<>> /\ out' = <<>> /\ events' = events
      /\ messages' = messages /\ nextId' = nextId /\ pendingTools' = pendingTools
      /\ turn' = turn /\ loop'.assistant = 0 /\ pc' \in {"streaming", "errored"}
      /\ scenario' = scenario
  BY DEF Request, Ready, Fail, logVars, runVars, TypeInv, LoopType, LoopLocals
<1>2. Log' = Log /\ Log = events /\ Follows(events, out')
  <2>1. Grows(events, <<>>, 0, 0, {}, FALSE)
    BY <1>1, Published_
  <2> QED
    BY <1>1, <2>1 DEF Log, Grows
<1>3. nextId \in Nat \ {0}
  BY DEF TypeInv, AgentType
<1>4. TurnsAgree'
  BY <1>1, <1>2 DEF TurnsAgree, InTurnLabels, EndLabels, Terminal
<1>5. MessagesAgree'
  BY <1>1, <1>2, <1>3 DEF MessagesAgree
<1>6. ToolsAgree'
  BY <1>1, <1>2 DEF ToolsAgree, Begun
<1> QED
  BY <1>2, <1>4, <1>5, <1>6

\* The batch begins with nothing announced.
LEMMA BatchAgrees ==
    ASSUME TypeInv, TypeInv', TurnsAgree, MessagesAgree, ToolsAgree, UseTools
    PROVE  /\ TurnsAgree' /\ MessagesAgree' /\ ToolsAgree' /\ Follows(events, out')
<1>1. /\ pc = "response" /\ pc' = "tools" /\ out = <<>> /\ out' = <<>> /\ events' = events
      /\ messages' = messages /\ nextId' = nextId /\ pendingTools' = pendingTools
      /\ turn' = turn /\ scenario' = scenario /\ loop.calls # <<>>
  BY DEF UseTools, Ready, logVars, runVars, agentVars
<1>2. loop'.calls = loop.calls /\ loop'.assistant = loop.assistant
  BY DEF UseTools, TypeInv, LoopType, LoopLocals
<1>3. /\ batch'.announced = 0 /\ batch'.ended = {} /\ batch'.answered = 0
      /\ batch'.observed = 0 /\ ~batch'.tripped
  BY DEF UseTools, NoBatch
<1>4. Log' = Log /\ Log = events /\ Follows(events, out')
  <2>1. Grows(events, <<>>, 0, 0, {}, FALSE)
    BY <1>1, Published_
  <2> QED
    BY <1>1, <2>1 DEF Log, Grows
<1>5. nextId \in Nat \ {0}
  BY DEF TypeInv, AgentType
<1>6. TurnsAgree'
  BY <1>1, <1>4 DEF TurnsAgree, InTurnLabels, EndLabels, Terminal
<1>7. MessagesAgree'
  BY <1>1, <1>2, <1>4, <1>5 DEF MessagesAgree
<1>8. ToolsAgree'
  <2>1. RunningIn(Log) = {} /\ pendingTools = {}
    BY <1>1 DEF ToolsAgree
  <2>2. {loop'.calls[i] : i \in (1 .. 0) \ {}} = {}
    OBVIOUS
  <2>3. RunningIn(Log') = {loop'.calls[i] : i \in (1 .. batch'.announced) \ batch'.ended}
    BY <1>3, <1>4, <2>1, <2>2
  <2>4. /\ Begun' \subseteq CallsBefore(nextId') /\ AboutIn(Log', "tool_execution_end") \subseteq Begun'
        /\ Begun' \subseteq CallsBefore(loop'.assistant)
        /\ \A i \in 1 .. Len(loop'.calls) : loop'.calls[i] = <<loop'.assistant, i>>
    BY <1>1, <1>2, <1>4 DEF ToolsAgree, Begun
  <2>5. OneAtATime'
    <3>1. 1 .. 0 \subseteq {} /\ 0 <= 0
      OBVIOUS
    <3> QED
      BY <1>3, <3>1 DEF OneAtATime
  <2> QED
    BY <1>1, <1>2, <1>3, <1>4, <2>1, <2>3, <2>4, <2>5 DEF ToolsAgree
<1> QED
  BY <1>4, <1>6, <1>7, <1>8

\* In the stream, before and after its message is visible.
LEMMA StreamFacts ==
    ASSUME TypeInv, TurnsAgree, MessagesAgree, ToolsAgree, pc = "streaming", out = <<>>
    PROVE  /\ Log = events /\ events \in Seq(Item) /\ events # <<>>
           /\ turn \in Nat /\ turn > 0 /\ TurnsIn(events) = turn
           /\ TurnEndsIn(events) = turn - 1 /\ AtIn(events, "agent_end") = {}
           /\ OpenIn(events) = IF loop.assistant # 0 THEN {loop.assistant} ELSE {}
           /\ loop.assistant = 0 => InTurn(events)
           /\ RunningIn(events) = {} /\ pendingTools = {}
           /\ Begun \subseteq CallsBefore(nextId)
           /\ AboutIn(events, "tool_execution_end") \subseteq Begun
           /\ AboutIn(events, "message_start") \subseteq 1 .. nextId - 1
           /\ AboutIn(events, "message_end") \subseteq 1 .. nextId - 1
           /\ nextId \in Nat \ {0} /\ loop.assistant \in Nat /\ loop.assistant < nextId
<1>1. Log = events /\ events \in Seq(Item)
  BY Published_
<1>2. nextId \in Nat \ {0} /\ turn \in Nat /\ loop.assistant \in Nat
  BY DEF TypeInv, AgentType, RunType, LoopType, LoopLocals
<1>3. pc \in InTurnLabels /\ pc \notin EndLabels /\ pc \notin {"created", "tools"}
  BY DEF InTurnLabels, EndLabels, Terminal
<1>4. /\ events # <<>> /\ turn > 0 /\ TurnsIn(events) = turn
      /\ TurnEndsIn(events) = turn - 1 /\ AtIn(events, "agent_end") = {}
  BY <1>1, <1>3 DEF TurnsAgree
<1>5. /\ OpenIn(events) = IF loop.assistant # 0 THEN {loop.assistant} ELSE {}
      /\ AboutIn(events, "message_start") \subseteq 1 .. nextId - 1
      /\ AboutIn(events, "message_end") \subseteq 1 .. nextId - 1
      /\ loop.assistant < nextId
  BY <1>1 DEF MessagesAgree
<1>6. loop.assistant = 0 => InTurn(events)
  BY <1>2, <1>4, <1>5 DEF InTurn
<1>7. /\ RunningIn(events) = {} /\ pendingTools = {}
      /\ Begun \subseteq CallsBefore(nextId)
      /\ AboutIn(events, "tool_execution_end") \subseteq Begun
  BY <1>1, <1>3 DEF ToolsAgree
<1> QED
  BY <1>1, <1>2, <1>4, <1>5, <1>6, <1>7

\* The first delta publishes the start of the message and its update.
LEMMA DeltaAgrees ==
    ASSUME TypeInv, TypeInv', TurnsAgree, MessagesAgree, ToolsAgree, TextDelta
    PROVE  /\ TurnsAgree' /\ MessagesAgree' /\ ToolsAgree' /\ Follows(events, out')
<1>1. /\ pc = "streaming" /\ pc' = pc /\ out = <<>> /\ loop.assistant = 0 /\ events' = events
      /\ nextId' = nextId + 1 /\ pendingTools' = pendingTools
      /\ turn' = turn /\ scenario' = scenario /\ loop'.assistant = nextId
      /\ out' = <<Event("message_start", nextId), Event("message_update", nextId)>>
  BY DEF TextDelta, Ready, logVars, runVars, TypeInv, LoopType, LoopLocals
<1>2. /\ Log = events /\ events \in Seq(Item) /\ events # <<>>
      /\ turn \in Nat /\ turn > 0 /\ TurnsIn(events) = turn
      /\ TurnEndsIn(events) = turn - 1 /\ AtIn(events, "agent_end") = {}
      /\ OpenIn(events) = {} /\ InTurn(events)
      /\ RunningIn(events) = {} /\ pendingTools = {}
      /\ Begun \subseteq CallsBefore(nextId)
      /\ AboutIn(events, "tool_execution_end") \subseteq Begun
      /\ AboutIn(events, "message_start") \subseteq 1 .. nextId - 1
      /\ AboutIn(events, "message_end") \subseteq 1 .. nextId - 1
      /\ nextId \in Nat \ {0}
  BY <1>1, StreamFacts
<1> DEFINE first == <<Event("message_start", nextId)>>
           mid == events \o first
           second == <<Event("message_update", nextId)>>
           now == mid \o second
<1>3. /\ nextId \in Subject
      /\ nextId \notin AboutIn(events, "message_start")
      /\ nextId \notin AboutIn(events, "message_end")
  BY <1>2 DEF Subject
<1>4. /\ Follows(events, first) /\ first \in Seq(Item) /\ mid \in Seq(Item) /\ mid # <<>>
      /\ TurnsIn(mid) = turn /\ TurnEndsIn(mid) = turn - 1
      /\ AboutIn(mid, "message_start") = AboutIn(events, "message_start") \cup {nextId}
      /\ AboutIn(mid, "message_end") = AboutIn(events, "message_end")
      /\ AboutIn(mid, "tool_execution_start") = AboutIn(events, "tool_execution_start")
      /\ AboutIn(mid, "tool_execution_end") = AboutIn(events, "tool_execution_end")
      /\ AtIn(mid, "agent_end") = {}
  <2>1. "message_start" \in Kinds /\ \A k \in {"message_end", "tool_execution_start",
            "tool_execution_end"} : k \in Kinds \ {"message_start"}
    BY DEF Kinds
  <2>2. AllowedAfter(events, Event("message_start", nextId))
    BY <1>2, <1>3 DEF AllowedAfter, Event, InTurn
  <2> QED
    BY <1>2, <1>3, <2>1, <2>2, OneMore
<1> HIDE DEF mid
<1>5. /\ Follows(mid, second) /\ second \in Seq(Item) /\ now \in Seq(Item) /\ now # <<>>
      /\ TurnsIn(now) = turn /\ TurnEndsIn(now) = turn - 1
      /\ AboutIn(now, "message_start") = AboutIn(mid, "message_start")
      /\ AboutIn(now, "message_end") = AboutIn(mid, "message_end")
      /\ AboutIn(now, "tool_execution_start") = AboutIn(mid, "tool_execution_start")
      /\ AboutIn(now, "tool_execution_end") = AboutIn(mid, "tool_execution_end")
      /\ AtIn(now, "agent_end") = {}
  <2>1. "message_update" \in Kinds /\ \A k \in {"message_start", "message_end",
            "tool_execution_start", "tool_execution_end"} : k \in Kinds \ {"message_update"}
    BY DEF Kinds
  <2>2. AllowedAfter(mid, Event("message_update", nextId))
    BY <1>2, <1>3, <1>4 DEF AllowedAfter, Event, OpenIn
  <2> QED
    BY <1>2, <1>3, <1>4, <2>1, <2>2, OneMore
<1>6. out' = first \o second /\ Log' = now /\ Follows(events, out')
  <2>1. Event("message_start", nextId) \in Item /\ Event("message_update", nextId) \in Item
    BY <1>3 DEF Event, Item, Kinds
  <2>2. out' = first \o second
    BY <1>1, <2>1, PairOfEvents
  <2>3. (events \o first) \o second = events \o (first \o second)
    <3> HIDE DEF first, second
    <3> QED
      BY <1>2, <1>4, <1>5, ConcatAssociative
  <2>4. Follows(events, first \o second)
    <3> HIDE DEF first, second
    <3> QED
      BY <1>2, <1>4, <1>5, FollowsConcat DEF mid
  <2> QED
    BY <1>1, <2>2, <2>3, <2>4 DEF Log, mid
<1> HIDE DEF first, second, now
<1>7. TurnsAgree'
  <2>1. pc' \in InTurnLabels /\ pc' # "created"
    BY <1>1 DEF InTurnLabels
  <2> QED
    BY <1>1, <1>2, <1>5, <1>6, <2>1 DEF TurnsAgree
<1>8. MessagesAgree'
  <2>1. OpenIn(now) = {nextId}
    BY <1>2, <1>3, <1>4, <1>5 DEF OpenIn
  <2>2. /\ AboutIn(now, "message_start") \subseteq 1 .. nextId' - 1
        /\ AboutIn(now, "message_end") \subseteq 1 .. nextId' - 1
    <3>1. 1 .. nextId - 1 \subseteq 1 .. nextId' - 1 /\ nextId \in 1 .. nextId' - 1
      BY <1>1, <1>2
    <3> QED
      BY <1>2, <1>4, <1>5, <3>1
  <2> QED
    BY <1>1, <1>2, <1>6, <2>1, <2>2 DEF MessagesAgree
<1>9. ToolsAgree'
  <2>1. RunningIn(Log') = {} /\ Begun' = Begun
    BY <1>2, <1>4, <1>5, <1>6 DEF RunningIn, Begun
  <2>2. CallsBefore(nextId) \subseteq CallsBefore(nextId')
    BY <1>1, <1>2 DEF CallsBefore, Call
  <2>3. AboutIn(Log', "tool_execution_end") = AboutIn(events, "tool_execution_end")
    BY <1>4, <1>5, <1>6
  <2> QED
    BY <1>1, <1>2, <2>1, <2>2, <2>3 DEF ToolsAgree
<1> QED
  BY <1>6, <1>7, <1>8, <1>9

\* The terminal event closes the message that was visible, or publishes it.
LEMMA ResponseAgrees ==
    ASSUME TypeInv, TypeInv', TurnsAgree, MessagesAgree, ToolsAgree,
           NEW reason \in Responses, NEW n \in 0 .. MaxCalls, StreamEnds(reason, n)
    PROVE  /\ TurnsAgree' /\ MessagesAgree' /\ ToolsAgree' /\ Follows(events, out')
<1> DEFINE fresh == loop.assistant = 0
           id == IF fresh THEN nextId ELSE loop.assistant
           now == events \o out'
<1>1. /\ pc = "streaming" /\ pc' = "response" /\ out = <<>> /\ events' = events
      /\ nextId' = (IF fresh THEN nextId + 1 ELSE nextId)
      /\ pendingTools' = pendingTools /\ turn' = turn /\ scenario' = scenario
      /\ out' = IF fresh THEN Published(id) ELSE <<Event("message_end", id)>>
  BY Zenon DEF StreamEnds, Ready, logVars, runVars
<1>2. loop'.assistant = id /\ loop'.calls = [i \in 1 .. n |-> <<id, i>>]
  <2>1. loop' = [loop EXCEPT !.assistant = id, !.calls = [i \in 1 .. n |-> <<id, i>>],
                             !.reason = reason]
    BY Zenon DEF StreamEnds
  <2> QED
    BY <2>1 DEF TypeInv, LoopType, LoopLocals
<1>3. /\ Log = events /\ events \in Seq(Item) /\ events # <<>>
      /\ turn \in Nat /\ turn > 0 /\ TurnsIn(events) = turn
      /\ TurnEndsIn(events) = turn - 1 /\ AtIn(events, "agent_end") = {}
      /\ OpenIn(events) = IF loop.assistant # 0 THEN {loop.assistant} ELSE {}
      /\ fresh => InTurn(events)
      /\ RunningIn(events) = {} /\ pendingTools = {}
      /\ Begun \subseteq CallsBefore(nextId)
      /\ AboutIn(events, "tool_execution_end") \subseteq Begun
      /\ AboutIn(events, "message_start") \subseteq 1 .. nextId - 1
      /\ AboutIn(events, "message_end") \subseteq 1 .. nextId - 1
      /\ nextId \in Nat \ {0} /\ loop.assistant \in Nat /\ loop.assistant < nextId
  BY <1>1, StreamFacts
<1>4. /\ id \in Nat \ {0} /\ nextId' \in Nat /\ id < nextId' /\ nextId <= nextId'
      /\ 1 .. nextId - 1 \subseteq 1 .. nextId' - 1 /\ id \in 1 .. nextId' - 1
  BY <1>1, <1>3
\* Whatever was visible, the message is closed now.
<1>5. /\ Follows(events, out') /\ now # <<>>
      /\ TurnsIn(now) = turn /\ TurnEndsIn(now) = turn - 1
      /\ AboutIn(now, "message_start") = AboutIn(events, "message_start") \cup {id}
      /\ AboutIn(now, "message_end") = AboutIn(events, "message_end") \cup {id}
      /\ AboutIn(now, "tool_execution_start") = AboutIn(events, "tool_execution_start")
      /\ AboutIn(now, "tool_execution_end") = AboutIn(events, "tool_execution_end")
      /\ AtIn(now, "agent_end") = {}
  <2>1. CASE fresh
    <3>1. Grows(events, Published(nextId), 0, 0, {nextId}, FALSE)
      <4>1. nextId \notin 1 .. nextId - 1
        BY <1>3
      <4> QED
        BY <1>3, <2>1, <4>1, GrowsMessage
    <3>2. out' = Published(nextId) /\ id = nextId
      BY <1>1, <2>1
    <3>3. TurnsIn(now) = turn + 0 /\ TurnEndsIn(now) = (turn - 1) + 0
      BY <1>3, <3>1, <3>2 DEF Grows
    <3>4. turn + 0 = turn /\ (turn - 1) + 0 = turn - 1
      BY <1>3
    <3> QED
      BY <1>3, <3>1, <3>2, <3>3, <3>4 DEF Grows
  <2>2. CASE ~fresh
    <3>1. id = loop.assistant /\ out' = <<Event("message_end", id)>> /\ id \in OpenIn(events)
      BY <1>1, <1>3, <2>2
    <3>2. AllowedAfter(events, Event("message_end", id))
      BY <1>3, <3>1 DEF AllowedAfter, Event
    <3>3. "message_end" \in Kinds /\ \A k \in {"message_start", "tool_execution_start",
              "tool_execution_end"} : k \in Kinds \ {"message_end"}
      BY DEF Kinds
    <3>4. id \in Subject
      BY <1>4 DEF Subject
    <3> DEFINE one == <<Event("message_end", id)>>
               more == events \o one
    <3>5. /\ Follows(events, one) /\ more # <<>>
          /\ TurnsIn(more) = turn /\ TurnEndsIn(more) = turn - 1
          /\ AboutIn(more, "message_start") = AboutIn(events, "message_start")
          /\ AboutIn(more, "message_end") = AboutIn(events, "message_end") \cup {id}
          /\ AboutIn(more, "tool_execution_start") = AboutIn(events, "tool_execution_start")
          /\ AboutIn(more, "tool_execution_end") = AboutIn(events, "tool_execution_end")
          /\ AtIn(more, "agent_end") = {}
      <4> HIDE DEF id
      <4> QED
        BY <1>3, <3>2, <3>3, <3>4, OneMore
    <3>6. id \in AboutIn(events, "message_start")
      BY <3>1 DEF OpenIn
    <3> HIDE DEF one, id
    <3> QED
      BY <3>1, <3>5, <3>6 DEF one
  <2> QED
    BY <2>1, <2>2
<1>6. Log' = now
  BY <1>1 DEF Log
<1> HIDE DEF fresh, id, now
<1>7. TurnsAgree'
  <2>1. pc' \in InTurnLabels /\ pc' # "created"
    BY <1>1 DEF InTurnLabels
  <2> QED
    BY <1>1, <1>3, <1>5, <1>6, <2>1 DEF TurnsAgree
<1>8. MessagesAgree'
  <2>1. OpenIn(now) = {}
    <3>1. OpenIn(events) \subseteq {id}
      BY <1>3 DEF id, fresh
    <3> QED
      BY <1>5, <3>1 DEF OpenIn
  <2>2. /\ AboutIn(now, "message_start") \subseteq 1 .. nextId' - 1
        /\ AboutIn(now, "message_end") \subseteq 1 .. nextId' - 1
    BY <1>3, <1>4, <1>5
  <2> QED
    BY <1>1, <1>2, <1>4, <1>6, <2>1, <2>2 DEF MessagesAgree
<1>9. ToolsAgree'
  <2>1. RunningIn(Log') = {} /\ Begun' = Begun
    BY <1>3, <1>5, <1>6 DEF RunningIn, Begun
  <2>2. Begun \subseteq CallsBefore(id) /\ Begun \subseteq CallsBefore(nextId')
    <3>1. Begun \subseteq CallsBefore(id)
      BY <1>1, <1>3 DEF ToolsAgree, id, fresh
    <3>2. CallsBefore(id) \subseteq CallsBefore(nextId')
      BY <1>4 DEF CallsBefore, Call
    <3> QED
      BY <3>1, <3>2
  <2>3. AboutIn(Log', "tool_execution_end") \subseteq Begun
    BY <1>3, <1>5, <1>6
  <2>4. \A i \in 1 .. Len(loop'.calls) : loop'.calls[i] = <<loop'.assistant, i>>
    <3>1. n \in Nat
      BY ScenarioFacts DEF TypeInv, RunType
    <3>2. Len(loop'.calls) = n
      BY <1>2, <3>1
    <3> QED
      BY <1>2, <3>1, <3>2
  <2> QED
    BY <1>1, <1>2, <1>3, <1>4, <2>1, <2>2, <2>3, <2>4 DEF ToolsAgree
<1> QED
  BY <1>5, <1>7, <1>8, <1>9
-----------------------------------------------------------------------------
\* In a batch, with everything published.
LEMMA ToolFacts ==
    ASSUME RunInv, TurnsAgree, MessagesAgree, ToolsAgree, pc = "tools", out = <<>>
    PROVE  /\ Log = events /\ events \in Seq(Item) /\ InTurn(events)
           /\ turn \in Nat /\ turn > 0 /\ TurnsIn(events) = turn
           /\ TurnEndsIn(events) = turn - 1
           /\ RunningIn(events) = {loop.calls[i] : i \in (1 .. batch.announced) \ batch.ended}
           /\ pendingTools = RunningIn(events)
           /\ Begun \subseteq CallsBefore(loop.assistant)
                                \cup {loop.calls[i] : i \in 1 .. batch.announced}
           /\ Begun = AboutIn(events, "tool_execution_start")
           /\ AboutIn(events, "tool_execution_end") \subseteq Begun
           /\ nextId \in Nat \ {0} /\ loop.assistant \in Nat /\ loop.assistant < nextId
           /\ Width \in Nat \ {0} /\ \A i \in 1 .. Width : loop.calls[i] = <<loop.assistant, i>>
           /\ batch.announced \in 0 .. Width /\ batch.answered \in 0 .. Width
           /\ batch.observed \in 0 .. batch.answered
           /\ batch.ended \subseteq 1 .. batch.announced
           /\ batch \in BatchLocals /\ loop \in LoopLocals
           /\ nextId \notin AboutIn(events, "message_start") \cup AboutIn(events, "message_end")
<1>1. TypeInv /\ Log = events /\ events \in Seq(Item)
  BY Published_ DEF RunInv
<1>2. /\ nextId \in Nat \ {0} /\ turn \in Nat /\ loop.assistant \in Nat
      /\ loop.calls \in Seq(Call) /\ batch \in BatchLocals /\ loop \in LoopLocals
      /\ batch.ended \subseteq 1 .. batch.announced /\ batch.observed <= batch.answered
      /\ batch.announced <= Len(loop.calls)
      /\ batch.announced \in Nat /\ batch.answered \in Nat /\ batch.observed \in Nat
  BY <1>1 DEF TypeInv, AgentType, RunType, LoopType, LoopLocals, BatchType, BatchLocals
<1>3. pc \in InTurnLabels /\ pc \notin EndLabels /\ pc \notin {"created", "streaming"}
  BY DEF InTurnLabels, EndLabels, Terminal
<1>4. /\ events # <<>> /\ turn > 0 /\ TurnsIn(events) = turn
      /\ TurnEndsIn(events) = turn - 1 /\ AtIn(events, "agent_end") = {}
  BY <1>1, <1>3 DEF TurnsAgree
<1>5. OpenIn(events) = {} /\ loop.assistant < nextId
  BY <1>1, <1>3 DEF MessagesAgree
<1>6. InTurn(events)
  BY <1>2, <1>4, <1>5 DEF InTurn
<1>7. nextId \notin AboutIn(events, "message_start") \cup AboutIn(events, "message_end")
  <2>1. nextId \notin 1 .. nextId - 1
    BY <1>2
  <2> QED
    BY <1>1, <2>1 DEF MessagesAgree
<1>8. /\ RunningIn(events) = {loop.calls[i] : i \in (1 .. batch.announced) \ batch.ended}
      /\ pendingTools = RunningIn(events)
      /\ Begun \subseteq CallsBefore(loop.assistant)
                           \cup {loop.calls[i] : i \in 1 .. batch.announced}
      /\ Begun = AboutIn(events, "tool_execution_start")
      /\ AboutIn(events, "tool_execution_end") \subseteq Begun
      /\ loop.calls # <<>>
      /\ \A i \in 1 .. Width : loop.calls[i] = <<loop.assistant, i>>
  BY <1>1 DEF ToolsAgree, Begun, Width
<1>9. Width \in Nat \ {0} /\ Width = Len(loop.calls)
  BY <1>2, <1>8, EmptySeq, LenProperties DEF Width
<1>10. batch.answered <= Width
  BY DEF RunInv, Asks, Width
<1>11. /\ batch.announced \in 0 .. Width /\ batch.answered \in 0 .. Width
       /\ batch.observed \in 0 .. batch.answered
  BY <1>2, <1>9, <1>10
<1> QED
  BY <1>1, <1>2, <1>4, <1>5, <1>6, <1>7, <1>8, <1>9, <1>11

\* A step that stays in the batch and publishes no agent_end, turn or message
\* but those of `ids'.
InBatch(ids) ==
    LET now == events \o out'
    IN /\ pc = "tools" /\ pc' = "tools" /\ out = <<>> /\ events' = events
       /\ scenario' = scenario /\ turn' = turn /\ loop' = loop
       /\ Follows(events, out') /\ now # <<>>
       /\ TurnsIn(now) = TurnsIn(events) /\ TurnEndsIn(now) = TurnEndsIn(events)
       /\ AboutIn(now, "message_start") = AboutIn(events, "message_start") \cup ids
       /\ AboutIn(now, "message_end") = AboutIn(events, "message_end") \cup ids
       /\ AtIn(now, "agent_end") = AtIn(events, "agent_end")
       /\ ids \subseteq 1 .. nextId' - 1 /\ nextId' >= nextId

LEMMA BatchStep ==
    ASSUME RunInv, TypeInv', TurnsAgree, MessagesAgree, ToolsAgree,
           NEW ids, InBatch(ids)
    PROVE  /\ TurnsAgree' /\ MessagesAgree' /\ Follows(events, out')
           /\ CallsBefore(nextId) \subseteq CallsBefore(nextId') /\ Log' = events \o out'
<1> DEFINE now == events \o out'
<1>1. /\ pc = "tools" /\ pc' = "tools" /\ out = <<>> /\ events' = events
      /\ scenario' = scenario /\ turn' = turn /\ loop' = loop
      /\ Follows(events, out') /\ now # <<>>
      /\ TurnsIn(now) = TurnsIn(events) /\ TurnEndsIn(now) = TurnEndsIn(events)
      /\ AboutIn(now, "message_start") = AboutIn(events, "message_start") \cup ids
      /\ AboutIn(now, "message_end") = AboutIn(events, "message_end") \cup ids
      /\ AtIn(now, "agent_end") = AtIn(events, "agent_end")
      /\ ids \subseteq 1 .. nextId' - 1 /\ nextId' >= nextId
  BY DEF InBatch
<1>2. Log' = now
  BY <1>1 DEF Log
<1>3. Log = events /\ loop.assistant < nextId /\ loop.assistant \in Nat
  BY <1>1, ToolFacts
<1>4. nextId \in Nat /\ nextId' \in Nat
  BY DEF RunInv, TypeInv, AgentType
<1> HIDE DEF now
<1>5. TurnsAgree'
  BY <1>1, <1>2, <1>3 DEF TurnsAgree, InTurnLabels, EndLabels, Terminal
<1>6. MessagesAgree'
  <2>1. OpenIn(now) = {}
    <3>1. OpenIn(events) = {}
      BY <1>1, <1>3 DEF MessagesAgree
    <3> QED
      BY <1>1, <3>1 DEF OpenIn
  <2>2. 1 .. nextId - 1 \subseteq 1 .. nextId' - 1
    BY <1>1, <1>4, WiderInterval
  <2>3. /\ AboutIn(now, "message_start") \subseteq 1 .. nextId' - 1
        /\ AboutIn(now, "message_end") \subseteq 1 .. nextId' - 1
    BY <1>1, <1>3, <2>2 DEF MessagesAgree
  <2>4. loop'.assistant < nextId'
    BY <1>1, <1>3, <1>4
  <2> QED
    BY <1>1, <1>2, <2>1, <2>3, <2>4 DEF MessagesAgree
<1>7. CallsBefore(nextId) \subseteq CallsBefore(nextId')
  BY <1>1, <1>4 DEF CallsBefore, Call
<1> QED
  BY <1>1, <1>2, <1>5, <1>6, <1>7 DEF now

\* A call is announced once.
LEMMA AnnounceAgrees ==
    ASSUME RunInv, TypeInv', TurnsAgree, MessagesAgree, ToolsAgree, Announce
    PROVE  TurnsAgree' /\ MessagesAgree' /\ ToolsAgree' /\ Follows(events, out')
<1> DEFINE i == batch.announced + 1
           call == loop.calls[i]
           now == events \o out'
<1>1. /\ pc = "tools" /\ pc' = pc /\ out = <<>> /\ events' = events
      /\ nextId' = nextId /\ turn' = turn /\ scenario' = scenario /\ loop' = loop
      /\ i <= Width /\ ~(OneByOne /\ batch.tripped)
      /\ OneByOne => batch.observed = batch.announced
      /\ batch' = [batch EXCEPT !.announced = i]
      /\ pendingTools' = pendingTools \cup {call}
      /\ out' = <<Event("tool_execution_start", call)>>
  BY DEF Announce, Ready, logVars, runVars
<1>2. /\ Log = events /\ events \in Seq(Item) /\ InTurn(events)
      /\ RunningIn(events) = {loop.calls[j] : j \in (1 .. batch.announced) \ batch.ended}
      /\ pendingTools = RunningIn(events)
      /\ Begun \subseteq CallsBefore(loop.assistant)
                           \cup {loop.calls[j] : j \in 1 .. batch.announced}
      /\ Begun = AboutIn(events, "tool_execution_start")
      /\ AboutIn(events, "tool_execution_end") \subseteq Begun
      /\ nextId \in Nat \ {0} /\ loop.assistant \in Nat /\ loop.assistant < nextId
      /\ Width \in Nat \ {0} /\ \A j \in 1 .. Width : loop.calls[j] = <<loop.assistant, j>>
      /\ batch.announced \in 0 .. Width /\ batch.answered \in 0 .. Width
      /\ batch.observed \in 0 .. batch.answered
      /\ batch.ended \subseteq 1 .. batch.announced
      /\ batch \in BatchLocals /\ loop \in LoopLocals
  BY <1>1, ToolFacts
<1>3. /\ i \in 1 .. Width /\ call = <<loop.assistant, i>> /\ call \in Call
      /\ i \notin batch.ended /\ 1 .. i = (1 .. batch.announced) \cup {i}
  <2>1. i \in 1 .. Width /\ i \in Nat /\ 1 .. i = (1 .. batch.announced) \cup {i}
    BY <1>1, <1>2
  <2>2. i \notin batch.ended
    BY <1>2
  <2>3. call = <<loop.assistant, i>>
    BY <1>2, <2>1
  <2>4. <<loop.assistant, i>> \in Call
    BY <1>2, <2>1 DEF Call
  <2> QED
    BY <2>1, <2>2, <2>3, <2>4
<1>4. call \notin Begun
  <2>1. call \notin CallsBefore(loop.assistant)
    BY <1>2, <1>3 DEF CallsBefore
  <2>2. \A j \in 1 .. batch.announced : loop.calls[j] # call
    BY <1>2, <1>3
  <2> QED
    BY <1>2, <2>1, <2>2
<1>5. /\ Follows(events, out') /\ now # <<>>
      /\ TurnsIn(now) = TurnsIn(events) /\ TurnEndsIn(now) = TurnEndsIn(events)
      /\ AboutIn(now, "message_start") = AboutIn(events, "message_start")
      /\ AboutIn(now, "message_end") = AboutIn(events, "message_end")
      /\ AboutIn(now, "tool_execution_start") = Begun \cup {call}
      /\ AboutIn(now, "tool_execution_end") = AboutIn(events, "tool_execution_end")
      /\ AtIn(now, "agent_end") = AtIn(events, "agent_end")
  <2>1. AllowedAfter(events, Event("tool_execution_start", call))
    BY <1>2, <1>4 DEF AllowedAfter, Event, InTurn
  <2>2. call \in Subject /\ "tool_execution_start" \in Kinds
        /\ \A k \in {"message_start", "message_end", "tool_execution_end"} :
              k \in Kinds \ {"tool_execution_start"}
    BY <1>3 DEF Subject, Kinds
  <2> DEFINE one == <<Event("tool_execution_start", call)>>
             more == events \o one
  <2> HIDE DEF call
  <2>3. /\ Follows(events, one) /\ more # <<>>
        /\ TurnsIn(more) = TurnsIn(events) + 0 /\ TurnEndsIn(more) = TurnEndsIn(events) + 0
        /\ TurnsIn(events) \in Nat /\ TurnEndsIn(events) \in Nat
        /\ AboutIn(more, "message_start") = AboutIn(events, "message_start")
        /\ AboutIn(more, "message_end") = AboutIn(events, "message_end")
        /\ AboutIn(more, "tool_execution_start")
             = AboutIn(events, "tool_execution_start") \cup {call}
        /\ AboutIn(more, "tool_execution_end") = AboutIn(events, "tool_execution_end")
        /\ AtIn(more, "agent_end") = AtIn(events, "agent_end")
    BY <1>2, <2>1, <2>2, OneMore
  <2>4. out' = one
    BY <1>1
  <2> HIDE DEF one
  <2>5. TurnsIn(more) = TurnsIn(events) /\ TurnEndsIn(more) = TurnEndsIn(events)
    <3> HIDE DEF more
    <3> QED
      BY <2>3
  <2> QED
    BY <1>2, <2>3, <2>4, <2>5
<1>6. InBatch({})
  BY <1>1, <1>2, <1>5 DEF InBatch
<1>7. /\ TurnsAgree' /\ MessagesAgree' /\ Log' = now
  BY <1>6, BatchStep
<1> HIDE DEF now, call, i
<1>8. /\ batch'.announced = i /\ batch'.ended = batch.ended
      /\ batch'.answered = batch.answered /\ batch'.observed = batch.observed
      /\ batch'.tripped = batch.tripped /\ batch'.mode = batch.mode
  BY <1>1, <1>2 DEF BatchLocals
<1>9. ToolsAgree'
  <2>1. Begun' = Begun \cup {call}
    BY <1>5, <1>7 DEF Begun
  <2>2. RunningIn(Log') = RunningIn(events) \cup {call}
    BY <1>2, <1>4, <1>5, <1>7 DEF RunningIn
  <2>3. RunningIn(Log') = {loop.calls[j] : j \in (1 .. i) \ batch.ended}
    BY <1>2, <1>3, <2>2 DEF call
  <2>4. pendingTools' = RunningIn(Log')
    BY <1>1, <1>2, <2>2
  <2>5. Begun' \subseteq CallsBefore(nextId') /\ AboutIn(Log', "tool_execution_end") \subseteq Begun'
    <3>1. call \in CallsBefore(nextId)
      BY <1>2, <1>3 DEF CallsBefore
    <3>2. Begun \subseteq CallsBefore(nextId)
      BY DEF ToolsAgree
    <3>3. Begun' \subseteq CallsBefore(nextId')
      <4>1. CallsBefore(nextId') = CallsBefore(nextId)
        BY <1>1
      <4> QED
        BY <2>1, <3>1, <3>2, <4>1
    <3>4. AboutIn(Log', "tool_execution_end") \subseteq Begun'
      BY <1>1, <1>2, <1>5, <1>7, <2>1
    <3> QED
      BY <3>3, <3>4
  <2>6. Begun' \subseteq CallsBefore(loop.assistant) \cup {loop.calls[j] : j \in 1 .. i}
    <3>1. call \in {loop.calls[j] : j \in 1 .. i}
      BY <1>3 DEF call
    <3>2. {loop.calls[j] : j \in 1 .. batch.announced} \subseteq {loop.calls[j] : j \in 1 .. i}
      BY <1>3
    <3> QED
      BY <1>2, <2>1, <3>1, <3>2
  <2>7. loop.calls # <<>> /\ \A j \in 1 .. Len(loop.calls) : loop.calls[j] = <<loop.assistant, j>>
    BY <1>1 DEF ToolsAgree
  <2>8. OneByOne => OneAtATime'
    <3> SUFFICES ASSUME OneByOne PROVE OneAtATime'
      OBVIOUS
    <3>1. OneAtATime /\ batch.observed = batch.announced /\ ~batch.tripped
      BY <1>1 DEF ToolsAgree
    <3>2. batch.announced = batch.answered /\ 1 .. batch.announced \subseteq batch.ended
      BY <1>2, <3>1 DEF OneAtATime
    <3> QED
      BY <1>2, <1>8, <3>1, <3>2 DEF OneAtATime, i
  <2>9. ~OneByOne => batch.answered = 0 \/ batch.ended = 1 .. Width
    BY <1>1 DEF ToolsAgree
  <2>10. (OneByOne' <=> OneByOne) /\ Width' = Width
    BY <1>1, <1>8 DEF OneByOne, Width
  <2> QED
    BY <1>1, <1>8, <2>3, <2>4, <2>5, <2>6, <2>7, <2>8, <2>9, <2>10 DEF ToolsAgree
<1> QED
  BY <1>5, <1>7, <1>9

\* A call that was announced ends.
LEMMA EndToolAgrees ==
    ASSUME RunInv, TypeInv', TurnsAgree, MessagesAgree, ToolsAgree,
           NEW i \in 1 .. batch.announced, EndTool(i)
    PROVE  TurnsAgree' /\ MessagesAgree' /\ ToolsAgree' /\ Follows(events, out')
<1> DEFINE call == loop.calls[i]
           now == events \o out'
<1>1. /\ pc = "tools" /\ pc' = pc /\ out = <<>> /\ events' = events
      /\ nextId' = nextId /\ turn' = turn /\ scenario' = scenario /\ loop' = loop
      /\ i \notin batch.ended /\ batch.announced \in {i, Width}
      /\ batch' = [batch EXCEPT !.ended = batch.ended \cup {i}]
      /\ pendingTools' = pendingTools \ {call}
      /\ out' = <<Event("tool_execution_end", call)>>
  BY DEF EndTool, Ready, logVars, runVars
<1>2. /\ Log = events /\ events \in Seq(Item) /\ InTurn(events)
      /\ RunningIn(events) = {loop.calls[j] : j \in (1 .. batch.announced) \ batch.ended}
      /\ pendingTools = RunningIn(events)
      /\ Begun = AboutIn(events, "tool_execution_start")
      /\ AboutIn(events, "tool_execution_end") \subseteq Begun
      /\ nextId \in Nat \ {0} /\ loop.assistant \in Nat
      /\ Width \in Nat \ {0} /\ \A j \in 1 .. Width : loop.calls[j] = <<loop.assistant, j>>
      /\ batch.announced \in 0 .. Width /\ batch.answered \in 0 .. Width
      /\ batch.ended \subseteq 1 .. batch.announced
      /\ batch \in BatchLocals /\ loop \in LoopLocals
  BY <1>1, ToolFacts
<1>3. /\ i \in 1 .. Width /\ call = <<loop.assistant, i>> /\ call \in Call
      /\ call \in RunningIn(events)
  <2>1. i \in 1 .. Width
    BY <1>2
  <2>2. call = <<loop.assistant, i>>
    BY <1>2, <2>1
  <2>3. <<loop.assistant, i>> \in Call
    BY <1>2, <2>1 DEF Call
  <2>4. call \in RunningIn(events)
    BY <1>1, <1>2
  <2> QED
    BY <2>1, <2>2, <2>3, <2>4
<1>4. /\ Follows(events, out') /\ now # <<>>
      /\ TurnsIn(now) = TurnsIn(events) /\ TurnEndsIn(now) = TurnEndsIn(events)
      /\ AboutIn(now, "message_start") = AboutIn(events, "message_start")
      /\ AboutIn(now, "message_end") = AboutIn(events, "message_end")
      /\ AboutIn(now, "tool_execution_start") = Begun
      /\ AboutIn(now, "tool_execution_end") = AboutIn(events, "tool_execution_end") \cup {call}
      /\ AtIn(now, "agent_end") = AtIn(events, "agent_end")
  <2>1. AllowedAfter(events, Event("tool_execution_end", call))
    BY <1>2, <1>3 DEF AllowedAfter, Event, InTurn
  <2>2. call \in Subject /\ "tool_execution_end" \in Kinds
        /\ \A k \in {"message_start", "message_end", "tool_execution_start"} :
              k \in Kinds \ {"tool_execution_end"}
    BY <1>3 DEF Subject, Kinds
  <2> DEFINE one == <<Event("tool_execution_end", call)>>
             more == events \o one
  <2> HIDE DEF call
  <2>3. /\ Follows(events, one) /\ more # <<>>
        /\ TurnsIn(more) = TurnsIn(events) + 0 /\ TurnEndsIn(more) = TurnEndsIn(events) + 0
        /\ TurnsIn(events) \in Nat /\ TurnEndsIn(events) \in Nat
        /\ AboutIn(more, "message_start") = AboutIn(events, "message_start")
        /\ AboutIn(more, "message_end") = AboutIn(events, "message_end")
        /\ AboutIn(more, "tool_execution_start") = AboutIn(events, "tool_execution_start")
        /\ AboutIn(more, "tool_execution_end")
             = AboutIn(events, "tool_execution_end") \cup {call}
        /\ AtIn(more, "agent_end") = AtIn(events, "agent_end")
    BY <1>2, <2>1, <2>2, OneMore
  <2>4. out' = one
    BY <1>1
  <2> HIDE DEF one
  <2>5. TurnsIn(more) = TurnsIn(events) /\ TurnEndsIn(more) = TurnEndsIn(events)
    <3> HIDE DEF more
    <3> QED
      BY <2>3
  <2> QED
    BY <1>2, <2>3, <2>4, <2>5
<1>5. InBatch({})
  BY <1>1, <1>2, <1>4 DEF InBatch
<1>6. /\ TurnsAgree' /\ MessagesAgree' /\ Log' = now
  BY <1>5, BatchStep
<1> HIDE DEF now, call
<1>7. /\ batch'.announced = batch.announced /\ batch'.ended = batch.ended \cup {i}
      /\ batch'.answered = batch.answered /\ batch'.observed = batch.observed
      /\ batch'.tripped = batch.tripped /\ batch'.mode = batch.mode
  BY <1>1, <1>2 DEF BatchLocals
<1>8. ToolsAgree'
  <2>1. Begun' = Begun
    BY <1>4, <1>6 DEF Begun
  <2>2. RunningIn(Log') = RunningIn(events) \ {call}
    BY <1>2, <1>4, <1>6 DEF RunningIn
  <2>3. RunningIn(Log') = {loop.calls[j] : j \in (1 .. batch.announced) \ (batch.ended \cup {i})}
    <3>1. \A j \in (1 .. batch.announced) \ {i} : loop.calls[j] # call
      BY <1>2, <1>3
    <3> QED
      BY <1>2, <2>2, <3>1 DEF call
  <2>4. pendingTools' = RunningIn(Log')
    BY <1>1, <1>2, <2>2
  <2>5. Begun' \subseteq CallsBefore(nextId') /\ AboutIn(Log', "tool_execution_end") \subseteq Begun'
    <3>1. call \in Begun
      BY <1>2, <1>3 DEF RunningIn
    <3> QED
      BY <1>1, <1>2, <1>4, <1>6, <2>1, <3>1 DEF ToolsAgree
  <2>6. /\ loop.calls # <<>> /\ \A j \in 1 .. Len(loop.calls) : loop.calls[j] = <<loop.assistant, j>>
        /\ Begun \subseteq CallsBefore(loop.assistant)
                             \cup {loop.calls[j] : j \in 1 .. batch.announced}
    BY <1>1 DEF ToolsAgree
  <2>7. OneByOne => OneAtATime'
    <3> SUFFICES ASSUME OneByOne PROVE OneAtATime'
      OBVIOUS
    <3>1. OneAtATime
      BY <1>1 DEF ToolsAgree
    <3> QED
      BY <1>7, <3>1 DEF OneAtATime
  <2>8. ~OneByOne => batch.answered = 0
    <3>1. batch.ended = 1 .. Width => FALSE
      BY <1>1, <1>3
    <3> QED
      BY <1>1, <3>1 DEF ToolsAgree
  <2>9. (OneByOne' <=> OneByOne) /\ Width' = Width
    BY <1>1, <1>7 DEF OneByOne, Width
  <2>10. RunningIn(Log') = {loop'.calls[j] : j \in (1 .. batch'.announced) \ batch'.ended}
    BY <1>1, <1>7, <2>3
  <2>11. /\ loop'.calls # <<>>
         /\ \A j \in 1 .. Len(loop'.calls) : loop'.calls[j] = <<loop'.assistant, j>>
         /\ Begun' \subseteq CallsBefore(loop'.assistant)
                               \cup {loop'.calls[j] : j \in 1 .. batch'.announced}
    BY <1>1, <1>7, <2>1, <2>6
  <2>12. pc' = "tools" /\ (~OneByOne => batch'.answered = 0)
    BY <1>1, <1>7, <2>8
  <2> QED
    BY <2>4, <2>5, <2>7, <2>9, <2>10, <2>11, <2>12 DEF ToolsAgree
<1> QED
  BY <1>4, <1>6, <1>8

\* A step of the batch that neither announces nor ends a call.
LEMMA SameTools ==
    ASSUME RunInv, TypeInv', TurnsAgree, MessagesAgree, ToolsAgree,
           NEW ids, InBatch(ids),
           AboutIn(events \o out', "tool_execution_start") = AboutIn(events, "tool_execution_start"),
           AboutIn(events \o out', "tool_execution_end") = AboutIn(events, "tool_execution_end"),
           pendingTools' = pendingTools, batch'.mode = batch.mode,
           batch'.announced = batch.announced, batch'.ended = batch.ended,
           OneByOne => OneAtATime',
           ~OneByOne => batch'.answered = 0 \/ batch'.ended = 1 .. Width
    PROVE  TurnsAgree' /\ MessagesAgree' /\ ToolsAgree' /\ Follows(events, out')
<1> DEFINE now == events \o out'
<1>1. /\ TurnsAgree' /\ MessagesAgree' /\ Follows(events, out')
      /\ CallsBefore(nextId) \subseteq CallsBefore(nextId') /\ Log' = now
  BY BatchStep
<1>2. pc = "tools" /\ pc' = "tools" /\ loop' = loop /\ out = <<>>
  BY DEF InBatch
<1>3. Log = events
  BY <1>2, ToolFacts
<1>4. /\ AboutIn(Log', "tool_execution_start") = AboutIn(Log, "tool_execution_start")
      /\ AboutIn(Log', "tool_execution_end") = AboutIn(Log, "tool_execution_end")
  BY <1>1, <1>3
<1>5. Begun' = Begun /\ RunningIn(Log') = RunningIn(Log)
  BY <1>4 DEF Begun, RunningIn
<1>6. (OneByOne' <=> OneByOne) /\ Width' = Width
  BY <1>2 DEF OneByOne, Width
<1>7. ToolsAgree'
  <2>1. RunningIn(Log') = {loop'.calls[i] : i \in (1 .. batch'.announced) \ batch'.ended}
        /\ pendingTools' = RunningIn(Log')
    BY <1>2, <1>5 DEF ToolsAgree
  <2>2. Begun' \subseteq CallsBefore(nextId') /\ AboutIn(Log', "tool_execution_end") \subseteq Begun'
    BY <1>1, <1>4, <1>5 DEF ToolsAgree
  <2>3. /\ loop'.calls # <<>>
        /\ \A i \in 1 .. Len(loop'.calls) : loop'.calls[i] = <<loop'.assistant, i>>
        /\ Begun' \subseteq CallsBefore(loop'.assistant)
                              \cup {loop'.calls[i] : i \in 1 .. batch'.announced}
    BY <1>2, <1>5 DEF ToolsAgree
  <2> QED
    BY <1>2, <1>6, <2>1, <2>2, <2>3 DEF ToolsAgree
<1> QED
  BY <1>1, <1>7

\* A result is published.
LEMMA ResultInBatch ==
    ASSUME RunInv, TurnsAgree, MessagesAgree, ToolsAgree,
           pc = "tools", pc' = pc, out = <<>>, events' = events, out' = Published(nextId),
           nextId' = nextId + 1, turn' = turn, scenario' = scenario, loop' = loop
    PROVE  /\ InBatch({nextId})
           /\ AboutIn(events \o out', "tool_execution_start") = AboutIn(events, "tool_execution_start")
           /\ AboutIn(events \o out', "tool_execution_end") = AboutIn(events, "tool_execution_end")
<1>1. /\ events \in Seq(Item) /\ InTurn(events) /\ nextId \in Nat \ {0}
      /\ turn \in Nat /\ TurnsIn(events) = turn /\ TurnEndsIn(events) = turn - 1
      /\ nextId \notin AboutIn(events, "message_start") \cup AboutIn(events, "message_end")
  BY ToolFacts
<1>2. Grows(events, Published(nextId), 0, 0, {nextId}, FALSE)
  BY <1>1, GrowsMessage
<1>3. {nextId} \subseteq 1 .. nextId' - 1 /\ nextId' >= nextId
  BY <1>1
<1> DEFINE now == events \o out'
<1>4. TurnsIn(now) = TurnsIn(events) + 0 /\ TurnEndsIn(now) = TurnEndsIn(events) + 0
  BY <1>2 DEF Grows
<1>5. TurnsIn(now) = TurnsIn(events) /\ TurnEndsIn(now) = TurnEndsIn(events)
  <2> HIDE DEF now
  <2> QED
    BY <1>1, <1>4
<1> QED
  BY <1>1, <1>2, <1>3, <1>5 DEF InBatch, Grows, InTurn

LEMMA AnswerAgrees ==
    ASSUME RunInv, TypeInv', TurnsAgree, MessagesAgree, ToolsAgree, Answer
    PROVE  TurnsAgree' /\ MessagesAgree' /\ ToolsAgree' /\ Follows(events, out')
<1> DEFINE i == batch.answered + 1
<1>1. /\ pc = "tools" /\ pc' = pc /\ out = <<>> /\ events' = events /\ out' = Published(nextId)
      /\ nextId' = nextId + 1 /\ turn' = turn /\ scenario' = scenario /\ loop' = loop
      /\ pendingTools' = pendingTools
      /\ batch.observed = batch.answered /\ i <= batch.announced /\ i \in batch.ended
      /\ OneByOne \/ batch.ended = 1 .. Width
  BY Zenon DEF Answer, Ready, logVars, runVars
<1>2. PICK terminate \in BOOLEAN :
         batch' = [batch EXCEPT !.answered = i, !.terminate = batch.terminate /\ terminate]
  BY Zenon DEF Answer
<1>3. /\ batch \in BatchLocals /\ batch.answered \in Nat /\ batch.announced \in Nat
  BY <1>1, ToolFacts
<1>4. /\ batch'.announced = batch.announced /\ batch'.ended = batch.ended
      /\ batch'.answered = i /\ batch'.observed = batch.observed
      /\ batch'.tripped = batch.tripped /\ batch'.mode = batch.mode
  BY <1>2, <1>3 DEF BatchLocals
<1>5. OneByOne => OneAtATime'
  <2> SUFFICES ASSUME OneByOne PROVE OneAtATime'
    OBVIOUS
  <2>1. OneAtATime
    BY <1>1 DEF ToolsAgree
  <2>2. batch.announced = i /\ 1 .. batch.answered \subseteq batch.ended
    BY <1>1, <1>3, <2>1 DEF OneAtATime
  <2>3. 1 .. batch.announced \subseteq batch.ended
    BY <1>1, <1>3, <2>2
  <2> QED
    BY <1>3, <1>4, <2>2, <2>3 DEF OneAtATime
<1>6. ~OneByOne => batch'.answered = 0 \/ batch'.ended = 1 .. Width
  BY <1>1, <1>4
<1> QED
  BY <1>1, <1>4, <1>5, <1>6, ResultInBatch, SameTools

LEMMA SkipAgrees ==
    ASSUME RunInv, TypeInv', TurnsAgree, MessagesAgree, ToolsAgree, SkipCall
    PROVE  TurnsAgree' /\ MessagesAgree' /\ ToolsAgree' /\ Follows(events, out')
<1> DEFINE i == batch.answered + 1
<1>1. /\ pc = "tools" /\ pc' = pc /\ out = <<>> /\ events' = events /\ out' = Published(nextId)
      /\ nextId' = nextId + 1 /\ turn' = turn /\ scenario' = scenario /\ loop' = loop
      /\ pendingTools' = pendingTools /\ OneByOne /\ batch.tripped
      /\ batch' = [batch EXCEPT !.answered = i, !.observed = i]
  BY DEF SkipCall, Ready, logVars, runVars
<1>2. /\ batch \in BatchLocals /\ batch.answered \in Nat /\ batch.announced \in Nat
  BY <1>1, ToolFacts
<1>3. /\ batch'.announced = batch.announced /\ batch'.ended = batch.ended
      /\ batch'.answered = i /\ batch'.tripped = batch.tripped /\ batch'.mode = batch.mode
  BY <1>1, <1>2 DEF BatchLocals
<1>4. OneAtATime'
  <2>1. OneAtATime
    BY <1>1 DEF ToolsAgree
  <2>2. batch.announced <= batch.answered /\ 1 .. batch.announced \subseteq batch.ended
    BY <1>1, <2>1 DEF OneAtATime
  <2> QED
    BY <1>1, <1>2, <1>3, <2>2 DEF OneAtATime
<1> QED
  BY <1>1, <1>3, <1>4, ResultInBatch, SameTools

LEMMA ObserveAgrees ==
    ASSUME RunInv, TypeInv', TurnsAgree, MessagesAgree, ToolsAgree, Observe
    PROVE  TurnsAgree' /\ MessagesAgree' /\ ToolsAgree' /\ Follows(events, out')
<1>1. /\ pc = "tools" /\ pc' = pc /\ out = <<>> /\ events' = events /\ out' = out
      /\ nextId' = nextId /\ turn' = turn /\ scenario' = scenario /\ loop' = loop
      /\ pendingTools' = pendingTools /\ batch.observed < batch.answered
  BY Zenon DEF Observe, Ready, logVars, runVars, agentVars
<1>2. PICK trips \in BOOLEAN :
         batch' = [batch EXCEPT !.observed = batch.observed + 1,
                                !.tripped = batch.tripped \/ trips]
  BY Zenon DEF Observe
<1>3. /\ events \in Seq(Item) /\ InTurn(events) /\ nextId \in Nat \ {0}
      /\ batch \in BatchLocals /\ batch.answered \in Nat /\ batch.observed \in Nat
  BY <1>1, ToolFacts DEF BatchLocals
<1>4. /\ batch'.announced = batch.announced /\ batch'.ended = batch.ended
      /\ batch'.answered = batch.answered /\ batch'.mode = batch.mode
      /\ batch'.tripped = (batch.tripped \/ trips)
  BY <1>2, <1>3 DEF BatchLocals
<1>5. OneByOne => OneAtATime'
  <2> SUFFICES ASSUME OneByOne PROVE OneAtATime'
    OBVIOUS
  <2>1. OneAtATime /\ batch.observed # batch.answered
    BY <1>1, <1>3 DEF ToolsAgree
  <2>2. /\ batch.announced <= batch.answered /\ 1 .. batch.announced \subseteq batch.ended
        /\ ~batch.tripped => batch.announced = batch.answered
    BY <2>1 DEF OneAtATime
  <2> QED
    BY <1>4, <2>2 DEF OneAtATime
<1>6. ~OneByOne => batch'.answered = 0 \/ batch'.ended = 1 .. Width
  BY <1>1, <1>4 DEF ToolsAgree
<1>7. /\ events \o out' = events /\ Follows(events, out')
  BY <1>1, <1>3, GrowsNothing, ConcatEmptySeq DEF Grows
<1>8. InBatch({})
  BY <1>1, <1>3, <1>7 DEF InBatch, InTurn
<1> QED
  BY <1>1, <1>4, <1>5, <1>6, <1>7, <1>8, SameTools

\* When the batch is done no call is running.
LEMMA BatchEnds ==
    ASSUME RunInv, TurnsAgree, MessagesAgree, ToolsAgree, BatchDone
    PROVE  /\ pc = "tools" /\ out = <<>> /\ Idle(events) /\ pendingTools = {}
           /\ OpenIn(events) = {} /\ RunningIn(events) = {}
<1>1. pc = "tools" /\ out = <<>> /\ batch.observed = Width
  BY DEF BatchDone, Ready
<1>2. /\ InTurn(events) /\ pendingTools = RunningIn(events)
      /\ RunningIn(events) = {loop.calls[i] : i \in (1 .. batch.announced) \ batch.ended}
      /\ Width \in Nat \ {0}
      /\ batch.announced \in 0 .. Width /\ batch.answered \in 0 .. Width
      /\ batch.observed \in 0 .. batch.answered
  BY <1>1, ToolFacts
<1>3. batch.answered = Width
  BY <1>1, <1>2
<1>4. 1 .. batch.announced \subseteq batch.ended
  <2>1. CASE OneByOne
    BY <1>1, <1>2, <1>3, <2>1 DEF ToolsAgree, OneAtATime
  <2>2. CASE ~OneByOne
    <3>1. batch.ended = 1 .. Width
      BY <1>1, <1>2, <1>3, <2>2 DEF ToolsAgree
    <3> QED
      BY <1>2, <3>1
  <2> QED
    BY <2>1, <2>2
<1>5. RunningIn(events) = {}
  BY <1>2, <1>4
<1> QED
  BY <1>1, <1>2, <1>5 DEF Idle, InTurn

LEMMA BatchEndsAgree ==
    ASSUME RunInv, TypeInv', TurnsAgree, MessagesAgree, ToolsAgree, ToolsDone \/ BreakerTripped
    PROVE  TurnsAgree' /\ MessagesAgree' /\ ToolsAgree' /\ Follows(events, out')
<1>1. /\ pc = "tools" /\ out = <<>> /\ Idle(events) /\ pendingTools = {}
      /\ OpenIn(events) = {} /\ RunningIn(events) = {} /\ TypeInv
  BY BatchEnds DEF ToolsDone, BreakerTripped, RunInv
<1>2. /\ events \in Seq(Item) /\ turn \in Nat /\ turn > 0 /\ TurnsIn(events) = turn
      /\ TurnEndsIn(events) = turn - 1 /\ nextId \in Nat \ {0} /\ loop \in LoopLocals
  BY <1>1, ToolFacts
<1>3. /\ {} \subseteq 1 .. nextId - 1 /\ nextId >= nextId /\ turn + 0 = turn
  BY <1>2
<1>4. CASE ToolsDone
  <2>1. /\ out' = TurnEnd /\ nextId' = nextId /\ pendingTools' = {} /\ turn' = turn
        /\ loop'.assistant = loop.assistant /\ pc' = "prepare"
        /\ events' = events /\ scenario' = scenario
    BY <1>1, <1>2, <1>4 DEF ToolsDone, agentVars, runVars, logVars, LoopLocals
  <2>2. /\ pc \in InTurnLabels /\ pc \notin EndLabels
        /\ pc' \notin InTurnLabels /\ pc' \notin EndLabels
        /\ pc' \notin {"created", "streaming", "response", "tools"}
    BY <1>1, <2>1 DEF InTurnLabels, EndLabels, Terminal
  <2>3. Grows(events, TurnEnd, 0, 1, {}, FALSE)
    BY <1>1, <1>2, GrowsTurnEnd
  <2>4. Calm(0, 1, {}, FALSE)
    BY <1>3, <2>1, <2>2, <2>3 DEF Calm
  <2> QED
    BY <1>1, <2>1, <2>4, CalmStep
<1>5. CASE BreakerTripped
  <2>1. /\ out' = <<SkippedEvent("breaker")>> \o EndOfRun
        /\ nextId' = nextId /\ pendingTools' = {} /\ turn' = turn
        /\ loop'.assistant = loop.assistant /\ pc' = "Failed"
        /\ events' = events /\ scenario' = scenario
    BY <1>1, <1>5 DEF BreakerTripped, agentVars, runVars, logVars, localVars
  <2>2. /\ pc \in InTurnLabels /\ pc \notin EndLabels
        /\ pc' \notin InTurnLabels /\ pc' \in EndLabels
        /\ pc' \notin {"created", "streaming", "response", "tools"}
    BY <1>1, <2>1 DEF InTurnLabels, EndLabels, Terminal
  <2>3. Grows(events, <<SkippedEvent("breaker")>> \o EndOfRun, 0, 1, {}, TRUE)
    BY <1>1, <1>2, CompactionEvents, GrowsThenEnds
  <2>4. Calm(0, 1, {}, TRUE)
    BY <1>3, <2>1, <2>2, <2>3 DEF Calm
  <2> QED
    BY <1>1, <2>1, <2>4, CalmStep
<1> QED
  BY <1>4, <1>5
-----------------------------------------------------------------------------
\* The run's first events: the prompts' messages, one after the other.
PromptEvents ==
    <<Event("agent_start", 0), Event("turn_start", 1)>>
      \o [i \in 1 .. 2 * Prompts |->
            Event(IF i % 2 = 1 THEN "message_start" ELSE "message_end",
                  Durable + (i + 1) \div 2)]

LEMMA Halves ==
    \A k \in Nat : k > 0 =>
        \E h \in Nat : /\ h > 0 /\ (k + 1) \div 2 = h
                       /\ k = IF k % 2 = 1 THEN 2 * h - 1 ELSE 2 * h
<1> SUFFICES ASSUME NEW k \in Nat, k > 0
             PROVE  \E h \in Nat : /\ h > 0 /\ (k + 1) \div 2 = h
                                   /\ k = IF k % 2 = 1 THEN 2 * h - 1 ELSE 2 * h
  OBVIOUS
<1> DEFINE h == (k + 1) \div 2
<1>1. h \in Nat /\ h > 0
  OBVIOUS
<1>2. k = IF k % 2 = 1 THEN 2 * h - 1 ELSE 2 * h
  OBVIOUS
<1> QED
  BY <1>1, <1>2

LEMMA PromptShape ==
    ASSUME Durable \in Nat, Prompts \in Nat
    PROVE  /\ PromptEvents \in Seq(Item) /\ Len(PromptEvents) = 2 * Prompts + 2
           /\ PromptEvents[1] = Event("agent_start", 0)
           /\ PromptEvents[2] = Event("turn_start", 1)
           /\ \A h \in 1 .. Prompts :
                /\ PromptEvents[2 * h + 1] = Event("message_start", Durable + h)
                /\ PromptEvents[2 * h + 2] = Event("message_end", Durable + h)
           /\ \A i \in 1 .. 2 * Prompts + 2 :
                i \in {1, 2} \/ \E h \in 1 .. Prompts : i \in {2 * h + 1, 2 * h + 2}
<1> DEFINE head == <<Event("agent_start", 0), Event("turn_start", 1)>>
           of(i) == Event(IF i % 2 = 1 THEN "message_start" ELSE "message_end",
                          Durable + (i + 1) \div 2)
           tail == [i \in 1 .. 2 * Prompts |-> of(i)]
<1>1. /\ head \in Seq(Item) /\ Len(head) = 2
      /\ head[1] = Event("agent_start", 0) /\ head[2] = Event("turn_start", 1)
  <2>1. Event("agent_start", 0) \in Item /\ Event("turn_start", 1) \in Item
    BY DEF Event, Item, Kinds, Subject
  <2> QED
    BY <2>1
<1>2. \A i \in 1 .. 2 * Prompts : of(i) \in Item
  <2> SUFFICES ASSUME NEW i \in 1 .. 2 * Prompts PROVE of(i) \in Item
    OBVIOUS
  <2>1. PICK h \in Nat : (i + 1) \div 2 = h
    BY Halves
  <2>2. Durable + (i + 1) \div 2 \in Nat
    BY <2>1
  <2> QED
    BY <2>2 DEF Event, Item, Kinds, Subject
<1>3. tail \in Seq(Item) /\ Len(tail) = 2 * Prompts
  BY <1>2
<1>4. \A h \in 1 .. Prompts : /\ of(2 * h - 1) = Event("message_start", Durable + h)
                              /\ of(2 * h) = Event("message_end", Durable + h)
  <2> SUFFICES ASSUME NEW h \in 1 .. Prompts
               PROVE  /\ of(2 * h - 1) = Event("message_start", Durable + h)
                      /\ of(2 * h) = Event("message_end", Durable + h)
    OBVIOUS
  <2>1. (2 * h - 1) % 2 = 1 /\ ((2 * h - 1) + 1) \div 2 = h
    OBVIOUS
  <2>2. (2 * h) % 2 = 0 /\ (2 * h + 1) \div 2 = h
    OBVIOUS
  <2> QED
    BY <2>1, <2>2
<1>5. \A h \in 1 .. Prompts : 2 * h - 1 \in 1 .. 2 * Prompts /\ 2 * h \in 1 .. 2 * Prompts
  OBVIOUS
<1>6. \A h \in 1 .. Prompts : /\ tail[2 * h - 1] = Event("message_start", Durable + h)
                              /\ tail[2 * h] = Event("message_end", Durable + h)
  BY <1>4, <1>5
<1> HIDE DEF head, tail, of
<1>7. PromptEvents = head \o tail
  BY DEF PromptEvents, head, tail, of
<1>8. /\ head \o tail \in Seq(Item) /\ Len(head \o tail) = 2 + 2 * Prompts
      /\ \A i \in 1 .. 2 + 2 * Prompts :
           (head \o tail)[i] = IF i <= 2 THEN head[i] ELSE tail[i - 2]
  <2>1. head \in Seq(Item) /\ tail \in Seq(Item)
    BY <1>1, <1>3
  <2>2. /\ head \o tail \in Seq(Item) /\ Len(head \o tail) = Len(head) + Len(tail)
        /\ \A i \in 1 .. Len(head) + Len(tail) :
             (head \o tail)[i] = IF i <= Len(head) THEN head[i] ELSE tail[i - Len(head)]
    BY <2>1, ConcatProperties
  <2>3. Len(head) = 2 /\ Len(tail) = 2 * Prompts
    BY <1>1, <1>3
  <2> QED
    BY <2>2, <2>3
<1>9. \A h \in 1 .. Prompts :
         /\ PromptEvents[2 * h + 1] = Event("message_start", Durable + h)
         /\ PromptEvents[2 * h + 2] = Event("message_end", Durable + h)
  <2> SUFFICES ASSUME NEW h \in 1 .. Prompts
               PROVE  /\ PromptEvents[2 * h + 1] = Event("message_start", Durable + h)
                      /\ PromptEvents[2 * h + 2] = Event("message_end", Durable + h)
    OBVIOUS
  <2>1. /\ 2 * h + 1 \in 1 .. 2 + 2 * Prompts /\ 2 * h + 1 > 2 /\ (2 * h + 1) - 2 = 2 * h - 1
        /\ 2 * h + 2 \in 1 .. 2 + 2 * Prompts /\ 2 * h + 2 > 2 /\ (2 * h + 2) - 2 = 2 * h
    OBVIOUS
  <2>2. (head \o tail)[2 * h + 1] = tail[2 * h - 1]
    BY <1>8, <2>1
  <2>3. (head \o tail)[2 * h + 2] = tail[2 * h]
    BY <1>8, <2>1
  <2> QED
    BY <1>6, <1>7, <2>2, <2>3
<1>10. ASSUME NEW i \in 1 .. 2 * Prompts + 2
       PROVE  i \in {1, 2} \/ \E h \in 1 .. Prompts : i \in {2 * h + 1, 2 * h + 2}
  <2>1. CASE i <= 2
    BY <2>1
  <2>2. CASE i > 2
    <3>1. i - 2 \in Nat /\ i - 2 > 0
      BY <2>2
    <3>2. PICK h \in Nat : h > 0 /\ i - 2 \in {2 * h - 1, 2 * h}
      BY <3>1, Halves
    <3>3. h \in 1 .. Prompts /\ i \in {2 * h + 1, 2 * h + 2}
      BY <3>2
    <3> QED
      BY <3>3
  <2> QED
    BY <2>1, <2>2
<1>11. PromptEvents[1] = Event("agent_start", 0) /\ PromptEvents[2] = Event("turn_start", 1)
  BY <1>1, <1>7, <1>8
<1> QED
  BY <1>7, <1>8, <1>9, <1>10, <1>11

\* What any number of these events tell.
LEMMA PromptPrefix ==
    ASSUME Durable \in Nat, Prompts \in Nat, NEW q \in 2 .. 2 * Prompts + 2
    PROVE  LET front == SubSeq(PromptEvents, 1, q)
           IN /\ front \in Seq(Item) /\ front # <<>>
              /\ TurnsIn(front) = 1 /\ TurnEndsIn(front) = 0
              /\ AtIn(front, "agent_end") = {}
              /\ AboutIn(front, "message_start")
                   = {Durable + h : h \in {h \in 1 .. Prompts : 2 * h + 1 <= q}}
              /\ AboutIn(front, "message_end")
                   = {Durable + h : h \in {h \in 1 .. Prompts : 2 * h + 2 <= q}}
              /\ AboutIn(front, "tool_execution_start") = {}
              /\ AboutIn(front, "tool_execution_end") = {}
<1> DEFINE all == PromptEvents
           front == SubSeq(all, 1, q)
<1>1. /\ all \in Seq(Item) /\ Len(all) = 2 * Prompts + 2
      /\ all[1] = Event("agent_start", 0) /\ all[2] = Event("turn_start", 1)
      /\ \A h \in 1 .. Prompts : /\ all[2 * h + 1] = Event("message_start", Durable + h)
                                 /\ all[2 * h + 2] = Event("message_end", Durable + h)
      /\ \A i \in 1 .. 2 * Prompts + 2 :
           i \in {1, 2} \/ \E h \in 1 .. Prompts : i \in {2 * h + 1, 2 * h + 2}
  BY PromptShape
<1> HIDE DEF all
<1>2. /\ front \in Seq(Item) /\ Len(front) = q /\ \A i \in 1 .. q : front[i] = all[i]
  <2>1. q \in Nat /\ q <= Len(all)
    BY <1>1
  <2> QED
    BY <1>1, <2>1, PrefixType
<1> HIDE DEF front
<1>3. front # <<>>
  BY <1>2, NonEmpty
<1>4. /\ 1 \in 1 .. q /\ 2 \in 1 .. q /\ 1 .. q \subseteq 1 .. 2 * Prompts + 2
  OBVIOUS
<1>5. /\ front[1].kind = "agent_start" /\ front[2].kind = "turn_start"
      /\ \A h \in 1 .. Prompts :
           /\ 2 * h + 1 <= q => /\ 2 * h + 1 \in 1 .. q
                                /\ front[2 * h + 1].kind = "message_start"
                                /\ front[2 * h + 1].of = Durable + h
           /\ 2 * h + 2 <= q => /\ 2 * h + 2 \in 1 .. q
                                /\ front[2 * h + 2].kind = "message_end"
                                /\ front[2 * h + 2].of = Durable + h
  <2>1. front[1].kind = "agent_start" /\ front[2].kind = "turn_start"
    BY <1>1, <1>2, <1>4 DEF Event
  <2>2. ASSUME NEW h \in 1 .. Prompts, 2 * h + 1 <= q
        PROVE  /\ 2 * h + 1 \in 1 .. q /\ front[2 * h + 1].kind = "message_start"
               /\ front[2 * h + 1].of = Durable + h
    <3>1. 2 * h + 1 \in 1 .. q
      BY <2>2
    <3>2. front[2 * h + 1] = Event("message_start", Durable + h)
      BY <1>1, <1>2, <3>1
    <3> QED
      BY <3>1, <3>2 DEF Event
  <2>3. ASSUME NEW h \in 1 .. Prompts, 2 * h + 2 <= q
        PROVE  /\ 2 * h + 2 \in 1 .. q /\ front[2 * h + 2].kind = "message_end"
               /\ front[2 * h + 2].of = Durable + h
    <3>1. 2 * h + 2 \in 1 .. q
      BY <2>3
    <3>2. front[2 * h + 2] = Event("message_end", Durable + h)
      BY <1>1, <1>2, <3>1
    <3> QED
      BY <3>1, <3>2 DEF Event
  <2> QED
    BY <2>1, <2>2, <2>3
<1>6. \A i \in 1 .. q : \/ i \in {1, 2}
                        \/ \E h \in 1 .. Prompts : i \in {2 * h + 1, 2 * h + 2}
  BY <1>1, <1>4
<1>7. \A i \in 1 .. q : \/ i = 1 /\ front[i].kind = "agent_start"
                        \/ i = 2 /\ front[i].kind = "turn_start"
                        \/ \E h \in 1 .. Prompts :
                             \/ i = 2 * h + 1 /\ front[i].kind = "message_start"
                             \/ i = 2 * h + 2 /\ front[i].kind = "message_end"
  <2> SUFFICES ASSUME NEW i \in 1 .. q
               PROVE  \/ i = 1 /\ front[i].kind = "agent_start"
                      \/ i = 2 /\ front[i].kind = "turn_start"
                      \/ \E h \in 1 .. Prompts :
                           \/ i = 2 * h + 1 /\ front[i].kind = "message_start"
                           \/ i = 2 * h + 2 /\ front[i].kind = "message_end"
    OBVIOUS
  <2>1. CASE i \in {1, 2}
    BY <1>5, <2>1
  <2>2. CASE \E h \in 1 .. Prompts : i \in {2 * h + 1, 2 * h + 2}
    <3>1. PICK h \in 1 .. Prompts : i \in {2 * h + 1, 2 * h + 2}
      BY <2>2
    <3>2. i <= q
      OBVIOUS
    <3> QED
      BY <1>5, <3>1, <3>2
  <2> QED
    BY <1>6, <2>1, <2>2
<1>8. AtIn(front, "turn_start") = {2} /\ AtIn(front, "turn_end") = {}
      /\ AtIn(front, "agent_end") = {} /\ AtIn(front, "tool_execution_start") = {}
      /\ AtIn(front, "tool_execution_end") = {}
  BY <1>2, <1>4, <1>5, <1>7 DEF AtIn
<1>9. TurnsIn(front) = 1 /\ TurnEndsIn(front) = 0
  BY <1>8, FS_Singleton, FS_EmptySet DEF TurnsIn, TurnEndsIn
<1>10. /\ AboutIn(front, "tool_execution_start") = {}
       /\ AboutIn(front, "tool_execution_end") = {}
  BY <1>8 DEF AboutIn
<1>11. AboutIn(front, "message_start")
         = {Durable + h : h \in {h \in 1 .. Prompts : 2 * h + 1 <= q}}
  <2>1. ASSUME NEW i \in AtIn(front, "message_start")
        PROVE  \E h \in 1 .. Prompts : 2 * h + 1 <= q /\ front[i].of = Durable + h
    <3>1. i \in 1 .. q /\ front[i].kind = "message_start"
      BY <1>2 DEF AtIn
    <3>2. PICK h \in 1 .. Prompts : i = 2 * h + 1
      BY <1>7, <3>1
    <3> QED
      BY <1>5, <3>1, <3>2
  <2>2. ASSUME NEW h \in 1 .. Prompts, 2 * h + 1 <= q
        PROVE  2 * h + 1 \in AtIn(front, "message_start") /\ front[2 * h + 1].of = Durable + h
    BY <1>2, <1>5, <2>2 DEF AtIn
  <2> QED
    BY <2>1, <2>2 DEF AboutIn
<1>12. AboutIn(front, "message_end")
         = {Durable + h : h \in {h \in 1 .. Prompts : 2 * h + 2 <= q}}
  <2>1. ASSUME NEW i \in AtIn(front, "message_end")
        PROVE  \E h \in 1 .. Prompts : 2 * h + 2 <= q /\ front[i].of = Durable + h
    <3>1. i \in 1 .. q /\ front[i].kind = "message_end"
      BY <1>2 DEF AtIn
    <3>2. PICK h \in 1 .. Prompts : i = 2 * h + 2
      BY <1>7, <3>1
    <3> QED
      BY <1>5, <3>1, <3>2
  <2>2. ASSUME NEW h \in 1 .. Prompts, 2 * h + 2 <= q
        PROVE  2 * h + 2 \in AtIn(front, "message_end") /\ front[2 * h + 2].of = Durable + h
    BY <1>2, <1>5, <2>2 DEF AtIn
  <2> QED
    BY <2>1, <2>2 DEF AboutIn
<1> QED
  BY <1>2, <1>3, <1>8, <1>9, <1>10, <1>11, <1>12 DEF front, all

LEMMA PromptsFollow ==
    ASSUME Durable \in Nat, Prompts \in Nat
    PROVE  Follows(<<>>, PromptEvents)
<1> DEFINE all == PromptEvents
           front(q) == SubSeq(all, 1, q)
<1>1. /\ all \in Seq(Item) /\ Len(all) = 2 * Prompts + 2
      /\ all[1] = Event("agent_start", 0) /\ all[2] = Event("turn_start", 1)
      /\ \A h \in 1 .. Prompts : /\ all[2 * h + 1] = Event("message_start", Durable + h)
                                 /\ all[2 * h + 2] = Event("message_end", Durable + h)
      /\ \A i \in 1 .. 2 * Prompts + 2 :
           i \in {1, 2} \/ \E h \in 1 .. Prompts : i \in {2 * h + 1, 2 * h + 2}
  BY PromptShape
<1>2. ASSUME NEW q \in 2 .. 2 * Prompts + 2
      PROVE  /\ front(q) # <<>>
             /\ TurnsIn(front(q)) = 1 /\ TurnEndsIn(front(q)) = 0
             /\ AtIn(front(q), "agent_end") = {}
             /\ AboutIn(front(q), "message_start")
                  = {Durable + h : h \in {h \in 1 .. Prompts : 2 * h + 1 <= q}}
             /\ AboutIn(front(q), "message_end")
                  = {Durable + h : h \in {h \in 1 .. Prompts : 2 * h + 2 <= q}}
  BY PromptPrefix
<1> HIDE DEF all
<1>3. \A q \in 0 .. Len(all) : front(q) \in Seq(Item) /\ <<>> \o front(q) = front(q)
  <2> SUFFICES ASSUME NEW q \in 0 .. Len(all)
               PROVE  front(q) \in Seq(Item) /\ <<>> \o front(q) = front(q)
    OBVIOUS
  <2>1. q \in Nat /\ q <= Len(all)
    BY <1>1
  <2>2. front(q) \in Seq(Item)
    BY <1>1, <2>1, PrefixType
  <2> HIDE DEF front
  <2> QED
    BY <2>2, ConcatEmptySeq
<1> HIDE DEF front
<1> SUFFICES ASSUME NEW i \in 1 .. Len(all)
             PROVE  AllowedAfter(<<>> \o SubSeq(all, 1, i - 1), all[i])
  BY DEF Follows, all
<1>4. i - 1 \in 0 .. Len(all) /\ i \in 1 .. 2 * Prompts + 2
  BY <1>1
<1> SUFFICES AllowedAfter(front(i - 1), all[i])
  BY <1>3, <1>4 DEF front
<1>5. CASE i = 1
  <2>1. front(i - 1) = <<>>
    BY <1>5, SubSeqEmpty DEF front
  <2> QED
    BY <1>1, <1>5, <2>1 DEF AllowedAfter, Event
<1>6. CASE i = 2
  <2>1. /\ front(1) \in Seq(Item) /\ Len(front(1)) = 1 /\ front(1)[1] = all[1]
    BY <1>1, PrefixType DEF front
  <2>2. front(1) # <<>>
    BY <2>1, NonEmpty
  <2>3. front(1)[1].kind = "agent_start" /\ 1 .. Len(front(1)) = {1}
    <3>1. front(1)[1] = Event("agent_start", 0)
      BY <1>1, <2>1
    <3>2. 1 .. Len(front(1)) = {1}
      <4>1. 1 .. 1 = {1}
        OBVIOUS
      <4> QED
        BY <2>1, <4>1
    <3> QED
      BY <3>1, <3>2 DEF Event
  <2>4. /\ AtIn(front(1), "agent_end") = {} /\ AtIn(front(1), "turn_start") = {}
        /\ AtIn(front(1), "turn_end") = {}
    BY <2>3 DEF AtIn
  <2>5. TurnsIn(front(1)) = 0 /\ TurnEndsIn(front(1)) = 0
    BY <2>4, FS_EmptySet DEF TurnsIn, TurnEndsIn
  <2> QED
    BY <1>1, <1>6, <2>2, <2>4, <2>5 DEF AllowedAfter, Event
<1>7. CASE i > 2
  <2> DEFINE q == i - 1
             log == front(q)
  <2>1. q \in 2 .. 2 * Prompts + 2
    BY <1>4, <1>7
  <2>2. /\ log # <<>> /\ TurnsIn(log) = 1 /\ TurnEndsIn(log) = 0
        /\ AtIn(log, "agent_end") = {}
        /\ AboutIn(log, "message_start")
             = {Durable + h : h \in {h \in 1 .. Prompts : 2 * h + 1 <= q}}
        /\ AboutIn(log, "message_end")
             = {Durable + h : h \in {h \in 1 .. Prompts : 2 * h + 2 <= q}}
    BY <1>2, <2>1
  <2>3. PICK h \in 1 .. Prompts : i \in {2 * h + 1, 2 * h + 2}
    <3>1. i \in {1, 2} \/ \E h \in 1 .. Prompts : i \in {2 * h + 1, 2 * h + 2}
      BY <1>1, <1>4
    <3>2. i \notin {1, 2}
      BY <1>7
    <3> QED
      BY <3>1, <3>2
  <2> HIDE DEF log
  <2>4. TurnsIn(log) > TurnEndsIn(log)
    BY <2>2
  <2>5. CASE i = 2 * h + 1
    <3>1. OpenIn(log) = {}
      <4>1. \A k \in 1 .. Prompts : 2 * k + 1 <= q => 2 * k + 2 <= q
        BY <2>1, <2>5
      <4> QED
        BY <2>2, <4>1 DEF OpenIn
    <3>2. Durable + h \notin AboutIn(log, "message_start")
      <4>1. \A k \in 1 .. Prompts : 2 * k + 1 <= q => Durable + k # Durable + h
        BY <2>1, <2>5
      <4> QED
        BY <2>2, <4>1
    <3>3. all[i] = Event("message_start", Durable + h)
      BY <1>1, <2>5
    <3>4. AllowedAfter(log, all[i])
      BY <2>2, <2>4, <3>1, <3>2, <3>3 DEF AllowedAfter, Event
    <3> QED
      BY <3>4 DEF log
  <2>6. CASE i = 2 * h + 2
    <3>1. Durable + h \in OpenIn(log)
      <4>1. 2 * h + 1 <= q /\ \A k \in 1 .. Prompts : 2 * k + 2 <= q => Durable + k # Durable + h
        BY <2>1, <2>6
      <4>2. Durable + h \in AboutIn(log, "message_start")
        BY <2>2, <4>1
      <4>3. Durable + h \notin AboutIn(log, "message_end")
        BY <2>2, <4>1
      <4> QED
        BY <4>2, <4>3 DEF OpenIn
    <3>2. all[i] = Event("message_end", Durable + h)
      BY <1>1, <2>6
    <3>3. AllowedAfter(log, all[i])
      BY <2>2, <2>4, <3>1, <3>2 DEF AllowedAfter, Event
    <3> QED
      BY <3>3 DEF log
  <2> QED
    BY <2>3, <2>5, <2>6
<1> QED
  BY <1>1, <1>5, <1>6, <1>7

\* The run starts with its first turn and its prompts.
LEMMA StartAgrees ==
    ASSUME TypeInv, TypeInv', TurnsAgree, MessagesAgree, ToolsAgree, Start
    PROVE  TurnsAgree' /\ MessagesAgree' /\ ToolsAgree' /\ Follows(events, out')
<1>1. /\ pc = "created" /\ pc' \in {"boundary", "initial_drain"} /\ out = <<>>
      /\ events' = events /\ nextId' = nextId /\ turn' = 1 /\ scenario' = scenario
      /\ loop' = loop /\ pendingTools' = pendingTools /\ out' = PromptEvents
  BY DEF Start, Ready, agentVars, logVars, localVars, PromptEvents
<1>2. /\ Durable \in Nat /\ Prompts \in Nat /\ nextId = Durable + Prompts + 1
      /\ loop.assistant < nextId
  BY <1>1, ScenarioFacts DEF TypeInv, RunType, TurnsAgree, MessagesAgree
<1>3. Log = events /\ events = <<>>
  BY <1>1, Published_ DEF TurnsAgree
<1>4. PromptEvents \in Seq(Item) /\ Len(PromptEvents) = 2 * Prompts + 2
  BY <1>2, PromptShape
<1>5. Log' = PromptEvents
  <2>1. <<>> \o PromptEvents = PromptEvents
    BY <1>4, ConcatEmptySeq
  <2> QED
    BY <1>1, <1>3, <2>1 DEF Log
<1>6. SubSeq(PromptEvents, 1, 2 * Prompts + 2) = PromptEvents
  BY <1>4, SubSeqFull
<1> DEFINE now == PromptEvents
<1>7. /\ now # <<>> /\ TurnsIn(now) = 1 /\ TurnEndsIn(now) = 0
      /\ AtIn(now, "agent_end") = {}
      /\ AboutIn(now, "message_start") = {Durable + h : h \in 1 .. Prompts}
      /\ AboutIn(now, "message_end") = {Durable + h : h \in 1 .. Prompts}
      /\ AboutIn(now, "tool_execution_start") = {}
      /\ AboutIn(now, "tool_execution_end") = {}
  <2> DEFINE q == 2 * Prompts + 2
  <2>1. q \in 2 .. 2 * Prompts + 2
    BY <1>2
  <2>2. {h \in 1 .. Prompts : 2 * h + 1 <= q} = 1 .. Prompts
    BY <1>2
  <2>3. {h \in 1 .. Prompts : 2 * h + 2 <= q} = 1 .. Prompts
    BY <1>2
  <2> QED
    BY <1>2, <1>6, <2>1, <2>2, <2>3, PromptPrefix
<1>8. Follows(events, out')
  BY <1>1, <1>2, <1>3, PromptsFollow
<1> HIDE DEF now
<1>9. TurnsAgree'
  <2>1. pc' \in InTurnLabels /\ pc' # "created"
    BY <1>1 DEF InTurnLabels
  <2> QED
    BY <1>1, <1>5, <1>7, <2>1 DEF TurnsAgree, now
<1>10. MessagesAgree'
  <2>1. {Durable + h : h \in 1 .. Prompts} \subseteq 1 .. nextId' - 1
    BY <1>1, <1>2
  <2> QED
    BY <1>1, <1>2, <1>5, <1>7, <2>1 DEF MessagesAgree, OpenIn, now
<1>11. ToolsAgree'
  <2>1. pendingTools = {}
    <3>1. pendingTools = RunningIn(<<>>) /\ RunningIn(<<>>) = {}
      BY <1>1, <1>3 DEF ToolsAgree
    <3> QED
      BY <3>1
  <2> QED
    BY <1>1, <1>5, <1>7, <2>1 DEF ToolsAgree, Begun, RunningIn, now
<1> QED
  BY <1>8, <1>9, <1>10, <1>11
-----------------------------------------------------------------------------
\* The scenario is fixed, and each place of the loop has its steps.
LEMMA LoopPlaces ==
    ASSUME TurnLoop
    PROVE  /\ scenario' = scenario
           /\ \/ Start \/ TextDelta \/ StreamFails
              \/ \E reason \in Responses, n \in 0 .. MaxCalls : StreamEnds(reason, n)
              \/ Announce \/ \E i \in 1 .. batch.announced : EndTool(i)
              \/ Answer \/ Observe \/ SkipCall \/ ToolsDone \/ BreakerTripped
              \/ pc \notin {"created", "tools", "streaming"}
<1> USE DEF runVars, Ready
<1>1. CASE \/ InitialDrain \/ Inject \/ Injected \/ BelowThreshold \/ AboveThreshold
  BY <1>1 DEF InitialDrain, Inject, Injected, BelowThreshold, AboveThreshold
<1>2. CASE \/ CompactionLimit \/ StartCompaction \/ CompactionFails
           \/ CompactionCancelled \/ CommitReplacement
  BY <1>2 DEF CompactionLimit, StartCompaction, CompactionFails, CompactionCancelled,
              CommitReplacement, RefuseCompaction
<1>3. CASE Request
  BY <1>3 DEF Request
<1>4. CASE Start \/ TextDelta \/ StreamFails
  BY <1>4 DEF Start, TextDelta, StreamFails
<1>5. CASE \E reason \in Responses, n \in 0 .. MaxCalls : StreamEnds(reason, n)
  <2>1. PICK reason \in Responses, n \in 0 .. MaxCalls : StreamEnds(reason, n)
    BY <1>5
  <2>2. scenario' = scenario
    BY <2>1, Zenon DEF StreamEnds
  <2> QED
    BY <1>5, <2>2
<1>6. CASE \/ RetryOverflow \/ ResponseFailed \/ ModelFailed \/ ResponseCancelled
           \/ UnexpectedCalls \/ NoTools
  BY <1>6 DEF RetryOverflow, ResponseFailed, ModelFailed, ResponseCancelled,
              UnexpectedCalls, NoTools
<1>7. CASE UseTools
  BY <1>7 DEF UseTools
<1>8. CASE Announce \/ (\E i \in 1 .. batch.announced : EndTool(i)) \/ SkipCall
           \/ ToolsDone \/ BreakerTripped
  BY <1>8 DEF Announce, EndTool, SkipCall, ToolsDone, BreakerTripped
<1>9. CASE Answer
  BY <1>9, Zenon DEF Answer
<1>10. CASE Observe
  BY <1>10, Zenon DEF Observe
<1>11. CASE \/ HookFails \/ ShouldStop \/ GoOn \/ DrainSteering \/ DrainFollowUp
            \/ AdvanceTurn \/ LastTurn
  BY <1>11 DEF HookFails, ShouldStop, GoOn, DrainSteering, DrainFollowUp, AdvanceTurn,
               LastTurn, Succeed
<1> QED
  BY <1>1, <1>2, <1>3, <1>4, <1>5, <1>6, <1>7, <1>8, <1>9, <1>10, <1>11 DEF TurnLoop

LEMMA LoopAgrees ==
    ASSUME RunInv, TypeInv', TurnsAgree, MessagesAgree, ToolsAgree, Clean', TurnLoop
    PROVE  TurnsAgree' /\ MessagesAgree' /\ ToolsAgree' /\ Follows(events, out')
<1>1. /\ TypeInv /\ out = <<>> /\ events' = events /\ scenario' = scenario
  BY LoopFrame, LoopPlaces DEF RunInv
<1>2. CASE Start \/ TextDelta
  BY <1>1, <1>2, StartAgrees, DeltaAgrees
<1>3. ~StreamFails
  <2>1. StreamFails => pc' = "errored" /\ "stream" \in Faults
    BY DEF StreamFails, Fail
  <2>2. Faults' = Faults
    BY <1>1, SameParameters
  <2> QED
    BY <2>1, <2>2 DEF Clean, Orderly
<1>4. CASE \E reason \in Responses, n \in 0 .. MaxCalls : StreamEnds(reason, n)
  BY <1>1, <1>4, ResponseAgrees
<1>5. CASE \/ Announce \/ \E i \in 1 .. batch.announced : EndTool(i)
           \/ Answer \/ Observe \/ SkipCall \/ ToolsDone \/ BreakerTripped
  BY <1>5, AnnounceAgrees, EndToolAgrees, AnswerAgrees, ObserveAgrees, SkipAgrees,
     BatchEndsAgree
<1>6. CASE pc \notin {"created", "tools", "streaming"}
  <2>1. Request \/ UseTools \/ Calmly
    BY <1>1, <1>6, CalmActions
  <2>2. CASE Request
    BY <1>1, <2>2, RequestAgrees
  <2>3. CASE UseTools
    BY <1>1, <2>3, BatchAgrees
  <2>4. CASE Calmly
    <3>1. PICK turns \in {0, 1}, ends \in {0, 1}, ids \in SUBSET Nat, last \in BOOLEAN :
             Calm(turns, ends, ids, last)
      BY <2>4 DEF Calmly
    <3>2. OpenIn(events) = {} /\ RunningIn(events) = {}
      BY <1>1, <1>6, IdleFacts
    <3> QED
      BY <1>1, <1>6, <3>1, <3>2, CalmStep
  <2> QED
    BY <2>1, <2>2, <2>3, <2>4
<1> QED
  BY <1>2, <1>3, <1>4, <1>5, <1>6, LoopPlaces

\* Publishing an event changes neither the log nor what it tells.
LEMMA EmitAgrees ==
    ASSUME RunInv, TurnsAgree, MessagesAgree, ToolsAgree, OutFollows, Clean', Emit
    PROVE  TurnsAgree' /\ MessagesAgree' /\ ToolsAgree' /\ OutFollows'
<1>1. /\ out # <<>> /\ events' = Append(events, Head(out)) /\ scenario' = scenario
      /\ messages' = messages /\ nextId' = nextId /\ pendingTools' = pendingTools
      /\ turn' = turn /\ loop' = loop /\ batch' = batch /\ settling' = settling
      /\ \/ out' = Tail(out) /\ pc' = pc
         \/ "observer" \in Faults /\ pc' = "errored"
  BY DEF Emit, Fail, agentVars, runVars, localVars
<1>2. out' = Tail(out) /\ pc' = pc
  <2>1. Faults' = Faults
    BY <1>1, SameParameters
  <2> QED
    BY <1>1, <2>1 DEF Clean, Orderly
<1>3. events \in Seq(Item) /\ out \in Seq(Item)
  BY DEF RunInv, TypeInv, LogType
<1>4. Log' = Log
  BY <1>1, <1>2, <1>3, EmitLog DEF Log
<1>5. TurnsAgree'
  <2>1. Durable' = Durable /\ Prompts' = Prompts
    BY <1>1, SameParameters
  <2> QED
    BY <1>1, <1>2, <1>4, <2>1 DEF TurnsAgree
<1>6. MessagesAgree'
  BY <1>1, <1>2, <1>4 DEF MessagesAgree
<1>7. ToolsAgree'
  BY <1>1, <1>2, <1>4 DEF ToolsAgree, Begun, OneAtATime, OneByOne, Width
<1>8. OutFollows'
  <2>1. Orderly' <=> Orderly
    BY <1>1, SameParameters DEF Orderly
  <2>2. Follows(events, out) => Follows(events', out')
    BY <1>1, <1>2, <1>3, FollowsHead
  <2> QED
    BY <2>1, <2>2 DEF OutFollows
<1> QED
  BY <1>5, <1>6, <1>7, <1>8

\* A step of the host tells the log nothing.
LEMMA SameAgrees ==
    ASSUME TurnsAgree, MessagesAgree, ToolsAgree, OutFollows,
           UNCHANGED driverVars
    PROVE  TurnsAgree' /\ MessagesAgree' /\ ToolsAgree' /\ OutFollows'
<1>1. /\ events' = events /\ out' = out /\ scenario' = scenario /\ pc' = pc
      /\ messages' = messages /\ nextId' = nextId /\ pendingTools' = pendingTools
      /\ turn' = turn /\ loop' = loop /\ batch' = batch
  BY DEF driverVars, agentVars, runVars, logVars, localVars
<1>2. /\ Log' = Log /\ Durable' = Durable /\ Prompts' = Prompts /\ Faults' = Faults
  BY <1>1, SameParameters DEF Log
<1>3. TurnsAgree'
  BY <1>1, <1>2 DEF TurnsAgree
<1>4. MessagesAgree'
  BY <1>1, <1>2 DEF MessagesAgree
<1>5. ToolsAgree'
  BY <1>1, <1>2 DEF ToolsAgree, Begun, OneAtATime, OneByOne, Width
<1>6. OutFollows'
  BY <1>1, <1>2 DEF OutFollows, Orderly
<1> QED
  BY <1>3, <1>4, <1>5, <1>6

LEMMA ContractInit == Init => LogAgrees /\ OutFollows
<1> SUFFICES ASSUME Init PROVE LogAgrees /\ OutFollows
  OBVIOUS
<1>1. /\ events = <<>> /\ out = <<>> /\ turn = 0 /\ pc = "created"
      /\ nextId = Durable + Prompts + 1 /\ pendingTools = {} /\ loop.assistant = 0
  BY DEF Init
<1>2. Durable \in Nat /\ Prompts \in Nat
  BY ScenarioFacts DEF Init
<1>3. Log = <<>>
  BY <1>1 DEF Log
<1>4. \A kind : AtIn(<<>>, kind) = {} /\ AboutIn(<<>>, kind) = {}
  BY DEF AtIn, AboutIn
<1>5. TurnsIn(<<>>) = 0 /\ TurnEndsIn(<<>>) = 0
  BY <1>4, FS_EmptySet DEF TurnsIn, TurnEndsIn
<1>6. TurnsAgree
  BY <1>1, <1>3, <1>4, <1>5 DEF TurnsAgree, InTurnLabels
<1>7. MessagesAgree
  BY <1>1, <1>2, <1>3, <1>4 DEF MessagesAgree, OpenIn
<1>8. ToolsAgree
  BY <1>1, <1>3, <1>4 DEF ToolsAgree, RunningIn, Begun
<1>9. OutFollows
  BY <1>1 DEF OutFollows, Follows
<1> QED
  BY <1>6, <1>7, <1>8, <1>9 DEF LogAgrees

LEMMA ContractStep ==
    RunInv /\ RunInv' /\ LogAgrees /\ OutFollows /\ [Next]_vars => LogAgrees' /\ OutFollows'
<1> SUFFICES ASSUME RunInv, RunInv', LogAgrees, OutFollows, [Next]_vars
             PROVE  LogAgrees' /\ OutFollows'
  OBVIOUS
<1>1. ~Clean' => LogAgrees' /\ OutFollows'
  BY DEF LogAgrees, OutFollows, Clean
<1> SUFFICES ASSUME Clean'
             PROVE  TurnsAgree' /\ MessagesAgree' /\ ToolsAgree' /\ OutFollows'
  BY <1>1 DEF LogAgrees
<1> USE DEF RunInv
<1>2. CASE Emit
  <2>1. scenario' = scenario /\ settling' = settling /\ pc' \in {pc, "errored"}
    BY <1>2 DEF Emit, Fail, runVars
  <2>2. Clean
    BY <2>1, SameParameters DEF Clean, Orderly
  <2> QED
    BY <1>2, <2>2, EmitAgrees DEF LogAgrees
<1>3. CASE TurnLoop
  <2>1. scenario' = scenario /\ settling' = settling /\ events' = events /\ pc # "errored"
    BY <1>3, LoopFrame, LoopPlaces
  <2>2. Clean
    BY <2>1, SameParameters DEF Clean, Orderly
  <2>3. TurnsAgree' /\ MessagesAgree' /\ ToolsAgree' /\ Follows(events, out')
    BY <1>3, <2>2, LoopAgrees DEF LogAgrees
  <2> QED
    BY <2>1, <2>3 DEF OutFollows
<1>4. CASE Finish \/ SettleFailure \/ SettleCancellation
           \/ SettleCompactionFailure \/ SettleCompactionCancellation
  <2>1. Clean
    <3>1. CASE Finish
      <4>1. scenario' = scenario /\ settling' = settling /\ pc # "errored"
        BY <3>1 DEF Finish, Terminal, driveVars
      <4> QED
        BY <4>1, SameParameters DEF Clean, Orderly
    <3>2. CASE SettleFailure \/ SettleCancellation
               \/ SettleCompactionFailure \/ SettleCompactionCancellation
      <4>1. scenario' = scenario /\ settling' = TRUE
        BY <3>2 DEF SettleFailure, SettleCancellation, SettleCompactionFailure,
                    SettleCompactionCancellation, Settle, runVars
      <4> QED
        BY <4>1, SameParameters DEF Clean, Orderly
    <3> QED
      BY <1>4, <3>1, <3>2
  <2>2. /\ TurnsAgree /\ MessagesAgree /\ ToolsAgree
    BY <2>1 DEF LogAgrees
  <2>3. /\ out = <<>> /\ pc \notin {"created", "tools", "streaming"}
        /\ events' = events /\ scenario' = scenario /\ Calmly
    BY <1>4, <2>2, CalmEnds
  <2>4. PICK turns \in {0, 1}, ends \in {0, 1}, ids \in SUBSET Nat, last \in BOOLEAN :
           Calm(turns, ends, ids, last)
    BY <2>3 DEF Calmly
  <2>5. OpenIn(events) = {} /\ RunningIn(events) = {}
    BY <2>2, <2>3, IdleFacts
  <2>6. TurnsAgree' /\ MessagesAgree' /\ ToolsAgree' /\ Follows(events, out')
    BY <2>2, <2>3, <2>4, <2>5, CalmStep
  <2> QED
    BY <2>3, <2>6 DEF OutFollows
<1>5. CASE Host \/ UNCHANGED vars
  <2>1. UNCHANGED driverVars
    BY <1>5 DEF Host, Abort, ClearQueues, Steer, FollowUp, vars, driverVars
  <2>2. scenario' = scenario /\ settling' = settling /\ pc' = pc
    BY <2>1 DEF driverVars, runVars, driveVars
  <2>3. Clean
    BY <2>2, SameParameters DEF Clean, Orderly
  <2> QED
    BY <2>1, <2>3, SameAgrees DEF LogAgrees
<1> QED
  BY <1>2, <1>3, <1>4, <1>5 DEF Next, Drive

\* The log and the run agree in every state.
THEOREM ContractInvHolds == Spec => []ContractInv
<1>1. Init => LogAgrees /\ OutFollows
  BY ContractInit
<1>2. RunInv /\ RunInv' /\ LogAgrees /\ OutFollows /\ [Next]_vars => (LogAgrees /\ OutFollows)'
  BY ContractStep
<1>3. Spec => [](LogAgrees /\ OutFollows)
  BY <1>1, <1>2, RunInvHolds, PTL DEF Spec
<1> QED
  BY <1>3, RunInvHolds, PTL DEF ContractInv

\* pending_tool_calls is the set of calls whose start was published and whose
\* end was not, while the run is driven (execute_tool_calls).
THEOREM ToolsAccounted == Spec => []ToolAccounting
<1>1. ContractInv => ToolAccounting
  <2> SUFFICES ASSUME ContractInv, runPhase = "Running", pc # "errored", ~settling
               PROVE  pendingTools = LoggedAbout("tool_execution_start")
                                       \ LoggedAbout("tool_execution_end")
    BY DEF ToolAccounting
  <2>1. pendingTools = RunningIn(Log)
    BY DEF ContractInv, LogAgrees, Clean, ToolsAgree
  <2>2. Log \in Seq(Item)
    BY ConcatProperties DEF ContractInv, RunInv, TypeInv, LogType, Log
  <2>3. DOMAIN Log = 1 .. Len(Log)
    BY <2>2, LenProperties
  <2> QED
    BY <2>1, <2>3 DEF RunningIn, AboutIn, AtIn, LoggedAbout, LoggedAt
<1> QED
  BY <1>1, ContractInvHolds, PTL
-----------------------------------------------------------------------------
\* What the contract allows next is what may follow the log.
LEMMA AllowedIsAllowed ==
    ASSUME Orderly, events \in Seq(Item), NEW e, AllowedAfter(events, e)
    PROVE  Contract!Allowed(e)
<1>1. DOMAIN events = 1 .. Len(events)
  BY LenProperties
<1>2. \A kind : Contract!At(kind) = AtIn(events, kind)
  BY <1>1 DEF Contract!At, AtIn
<1>3. \A kind : Contract!About(kind) = AboutIn(events, kind)
  BY <1>2 DEF Contract!About, AboutIn
<1>4. /\ Contract!At("turn_start") = AtIn(events, "turn_start")
      /\ Contract!At("turn_end") = AtIn(events, "turn_end")
  BY <1>2
<1>5. Contract!Turns = TurnsIn(events)
  BY <1>4, Zenon DEF Contract!Turns, TurnsIn, Contract!Cardinality, Cardinality
<1>6. Contract!InTurn <=> TurnsIn(events) > TurnEndsIn(events)
  BY <1>4, <1>5, Zenon
  DEF Contract!InTurn, TurnEndsIn, Contract!Cardinality, Cardinality
<1>7. /\ Contract!OpenMessages = OpenIn(events) /\ Contract!OpenTools = RunningIn(events)
      /\ Contract!Quiet <=> OpenIn(events) = {}
      /\ Contract!Settled <=> OpenIn(events) = {} /\ RunningIn(events) = {}
  BY <1>3 DEF Contract!OpenMessages, Contract!OpenTools, Contract!Quiet, Contract!Settled,
              OpenIn, RunningIn
<1> QED
  BY <1>2, <1>3, <1>5, <1>6, <1>7 DEF Contract!Allowed, AllowedAfter, Compactions

\* Without failing observers, hooks and sources a run delivers the event grammar
\* that observers are promised, one event at a time (event.rs, RunHandle::emit).
THEOREM RunKeepsContract == Spec => Promised
<1> DEFINE seen == IF Orderly THEN events ELSE <<>>
<1>1. Init => Contract!Init
  BY DEF Init, Contract!Init
<1>2. ContractInv /\ ContractInv' /\ [Next]_vars => [Contract!Deliver]_seen
  <2> SUFFICES ASSUME ContractInv, ContractInv', [Next]_vars, seen' # seen
               PROVE  Contract!Deliver
    OBVIOUS
  <2>1. events \in Seq(Item) /\ out \in Seq(Item)
    BY DEF ContractInv, RunInv, TypeInv, LogType
  <2>2. CASE Emit
    <3>1. /\ out # <<>> /\ events' = Append(events, Head(out)) /\ scenario' = scenario
      BY <2>2 DEF Emit, runVars
    <3>2. (Orderly' <=> Orderly) /\ Orderly
      BY <3>1, SameParameters DEF Orderly
    <3>3. seen = events /\ seen' = events'
      BY <3>2
    <3>4. AllowedAfter(events, Head(out)) /\ Head(out) \in Item
      BY <2>1, <3>1, <3>2, FollowsHead, HeadTailProperties DEF ContractInv, OutFollows
    <3>5. Contract!Allowed(Head(out))
      BY <2>1, <3>2, <3>4, AllowedIsAllowed
    <3>6. events'[Len(events')] = Head(out)
      BY <2>1, <3>1, <3>4, AppendProperties
    <3> QED
      BY <3>1, <3>2, <3>3, <3>5, <3>6 DEF Contract!Deliver
  <2>3. CASE ~Emit
    <3>1. events' = events /\ scenario' = scenario
      <4>1. CASE TurnLoop
        BY <4>1, LoopFrame, LoopPlaces
      <4>2. CASE Finish \/ SettleFailure \/ SettleCancellation
                 \/ SettleCompactionFailure \/ SettleCompactionCancellation
        BY <4>2 DEF Finish, SettleFailure, SettleCancellation, SettleCompactionFailure,
                    SettleCompactionCancellation, Settle, runVars, logVars
      <4>3. CASE Host \/ UNCHANGED vars
        BY <4>3 DEF Host, Abort, ClearQueues, Steer, FollowUp, vars, driverVars,
                    runVars, logVars
      <4> QED
        BY <2>3, <4>1, <4>2, <4>3 DEF Next, Drive
    <3> QED
      BY <3>1, SameParameters DEF Orderly
  <2> QED
    BY <2>2, <2>3
<1> QED
  BY <1>1, <1>2, ContractInvHolds, PTL DEF Spec, Promised, Contract!Spec
-----------------------------------------------------------------------------
(* The transcript is what folding the log's message_end events gives.       *)

Ended(log) == AboutIn(log, "message_end")
\* Messages end in the order of their identifiers.
Rises(log) ==
    \A i, j \in AtIn(log, "message_end") : i < j => log[i].of < log[j].of

\* Messages after the durable ones are in the order of their identifiers, which
\* are below the next one; those that are complete have ended.
Own(durable, m) == m.id > durable /\ m.role # "summary"
Faithful(durable, ms, next, ended) ==
    \A i \in 1 .. Len(ms) : Own(durable, ms[i]) =>
        /\ ms[i].id < next
        /\ Complete(ms[i]) => ms[i].id \in ended
        /\ \A j \in 1 .. Len(ms) : i < j /\ Own(durable, ms[j]) => ms[i].id < ms[j].id

\* The prompts end as soon as the run starts; a message being streamed is the
\* newest one, and what was requested is older.
StoryInv ==
    Orderly =>
        /\ Rises(Log)
        /\ Faithful(Durable, messages, nextId,
                    IF pc = "created" THEN {Durable + h : h \in 1 .. Prompts}
                                      ELSE Ended(Log))
        /\ pc = "streaming" /\ loop.assistant # 0 =>
             /\ nextId = loop.assistant + 1
             /\ Faithful(Durable, Request_, loop.assistant, Ended(Log))
-----------------------------------------------------------------------------
\* Events that end these messages and no others.
Tells(more, ids) == more \in Seq(Item) /\ Rises(more) /\ Ended(more) = ids

LEMMA TellsBoth ==
    ASSUME NEW s, NEW t, NEW a, NEW b, Tells(s, a), Tells(t, b),
           \A x \in a, y \in b : x < y
    PROVE  Tells(s \o t, a \cup b)
<1> DEFINE both == s \o t
<1>1. /\ s \in Seq(Item) /\ t \in Seq(Item)
      /\ both \in Seq(Item) /\ Len(both) = Len(s) + Len(t)
      /\ Len(s) \in Nat /\ Len(t) \in Nat
      /\ \A i \in 1 .. Len(s) + Len(t) :
           both[i] = IF i <= Len(s) THEN s[i] ELSE t[i - Len(s)]
  BY ConcatProperties, LenProperties DEF Tells
<1> HIDE DEF both
<1> DEFINE E(log) == AtIn(log, "message_end")
<1>2. ASSUME NEW i \in E(both)
      PROVE  \/ i \in E(s) /\ both[i] = s[i] /\ i <= Len(s)
             \/ i - Len(s) \in E(t) /\ both[i] = t[i - Len(s)] /\ i > Len(s)
  <2>1. i \in 1 .. Len(s) + Len(t) /\ both[i].kind = "message_end"
    BY <1>1 DEF AtIn
  <2>2. CASE i <= Len(s)
    BY <1>1, <2>1, <2>2 DEF AtIn
  <2>3. CASE i > Len(s)
    <3>1. i - Len(s) \in 1 .. Len(t) /\ ~(i <= Len(s))
      BY <1>1, <2>1, <2>3
    <3> QED
      BY <1>1, <2>1, <2>3, <3>1 DEF AtIn
  <2> QED
    BY <1>1, <2>1, <2>2, <2>3
<1>3. ASSUME NEW i \in E(s)
      PROVE  i \in E(both) /\ both[i] = s[i]
  BY <1>1 DEF AtIn
<1>4. ASSUME NEW i \in E(t)
      PROVE  Len(s) + i \in E(both) /\ both[Len(s) + i] = t[i]
  <2>1. /\ i \in 1 .. Len(t) /\ t[i].kind = "message_end"
        /\ Len(s) + i \in 1 .. Len(s) + Len(t) /\ ~(Len(s) + i <= Len(s))
        /\ (Len(s) + i) - Len(s) = i
    BY <1>1 DEF AtIn
  <2>2. both[Len(s) + i] = t[i]
    BY <1>1, <2>1
  <2> QED
    BY <1>1, <2>1, <2>2 DEF AtIn
<1>5. Ended(both) = a \cup b
  <2>1. a = {s[i].of : i \in E(s)} /\ b = {t[i].of : i \in E(t)}
    BY DEF Tells, Ended, AboutIn
  <2>2. Ended(both) = {both[i].of : i \in E(both)}
    BY DEF Ended, AboutIn
  <2> HIDE DEF E
  <2>3. \A x \in Ended(both) : x \in a \cup b
    BY <1>2, <2>1, <2>2
  <2>4. \A x \in a \cup b : x \in Ended(both)
    BY <1>3, <1>4, <2>1, <2>2
  <2> QED
    BY <2>3, <2>4
<1>6. ASSUME NEW i \in E(both), NEW j \in E(both), i < j
      PROVE  both[i].of < both[j].of
  <2>1. i \in Nat /\ j \in Nat
    BY <1>1 DEF AtIn
  <2>2. CASE j <= Len(s)
    <3>1. i <= Len(s) /\ ~(i > Len(s)) /\ ~(j > Len(s))
      BY <1>1, <1>6, <2>1, <2>2
    <3>2. i \in E(s) /\ j \in E(s) /\ both[i] = s[i] /\ both[j] = s[j]
      BY <1>2, <3>1
    <3>3. s[i].of < s[j].of
      BY <1>6, <3>2 DEF Tells, Rises
    <3> QED
      BY <3>2, <3>3
  <2>3. CASE i > Len(s)
    <3>1. j > Len(s) /\ ~(i <= Len(s)) /\ ~(j <= Len(s)) /\ i - Len(s) < j - Len(s)
      BY <1>1, <1>6, <2>1, <2>3
    <3>2. /\ i - Len(s) \in E(t) /\ j - Len(s) \in E(t)
          /\ both[i] = t[i - Len(s)] /\ both[j] = t[j - Len(s)]
      BY <1>2, <3>1
    <3>3. t[i - Len(s)].of < t[j - Len(s)].of
      BY <3>1, <3>2 DEF Tells, Rises
    <3> QED
      BY <3>2, <3>3
  <2>4. CASE i <= Len(s) /\ j > Len(s)
    <3>1. ~(i > Len(s)) /\ ~(j <= Len(s))
      BY <1>1, <2>1, <2>4
    <3>2. i \in E(s) /\ j - Len(s) \in E(t) /\ both[i] = s[i] /\ both[j] = t[j - Len(s)]
      BY <1>2, <3>1
    <3>3. s[i].of \in a /\ t[j - Len(s)].of \in b
      BY <3>2 DEF Tells, Ended, AboutIn
    <3>4. s[i].of < t[j - Len(s)].of
      BY <3>3
    <3> QED
      BY <3>2, <3>4
  <2> QED
    BY <1>1, <2>1, <2>2, <2>3, <2>4
<1> QED
  BY <1>1, <1>5, <1>6 DEF Tells, Rises, both

LEMMA TellsOne ==
    ASSUME NEW e \in Item
    PROVE  Tells(<<e>>, IF e.kind = "message_end" THEN {e.of} ELSE {}) /\ Tells(<<>>, {})
<1>1. /\ <<e>> \in Seq(Item) /\ Len(<<e>>) = 1 /\ <<e>>[1] = e /\ 1 .. 1 = {1}
      /\ <<>> \in Seq(Item) /\ Len(<<>>) = 0 /\ 1 .. 0 = {}
  OBVIOUS
<1>2. AtIn(<<e>>, "message_end") = IF e.kind = "message_end" THEN {1} ELSE {}
  <2>1. AtIn(<<e>>, "message_end") = {i \in {1} : <<e>>[i].kind = "message_end"}
    BY <1>1 DEF AtIn
  <2> QED
    BY <1>1, <2>1
<1>3. AtIn(<<>>, "message_end") = {}
  BY <1>1 DEF AtIn
<1>4. Ended(<<e>>) = IF e.kind = "message_end" THEN {e.of} ELSE {}
  BY <1>1, <1>2 DEF Ended, AboutIn
<1>5. Rises(<<e>>)
  <2> SUFFICES ASSUME NEW i \in AtIn(<<e>>, "message_end"), NEW j \in AtIn(<<e>>, "message_end"),
                      i < j
               PROVE  FALSE
    BY DEF Rises
  <2>1. i = 1 /\ j = 1
    BY <1>2
  <2> QED
    BY <2>1
<1>6. Tells(<<>>, {})
  BY <1>1, <1>3 DEF Tells, Rises, Ended, AboutIn
<1> QED
  BY <1>1, <1>4, <1>5, <1>6 DEF Tells

\* An event that is no message's end, and more of them.
LEMMA TellsNone ==
    /\ \A kind \in Kinds \ {"message_end"}, of \in Subject : Tells(<<Event(kind, of)>>, {})
    /\ \A s, t : Tells(s, {}) /\ Tells(t, {}) => Tells(s \o t, {})
<1>1. ASSUME NEW kind \in Kinds \ {"message_end"}, NEW of \in Subject
      PROVE  Tells(<<Event(kind, of)>>, {})
  <2>1. Event(kind, of) \in Item /\ Event(kind, of).kind # "message_end"
    BY MakeEvent DEF Event
  <2> QED
    BY <2>1, TellsOne
<1>2. ASSUME NEW s, NEW t, Tells(s, {}), Tells(t, {})
      PROVE  Tells(s \o t, {})
  <2>1. Tells(s \o t, {} \cup {})
    BY <1>2, TellsBoth
  <2> QED
    BY <2>1
<1> QED
  BY <1>1, <1>2

LEMMA TellsPublished ==
    ASSUME NEW id \in Nat
    PROVE  /\ Tells(Published(id), {id})
           /\ Tells(<<Event("message_end", id)>>, {id})
           /\ Tells(<<Event("message_start", id), Event("message_update", id)>>, {})
<1>1. id \in Subject
  BY DEF Subject
<1>2. /\ Event("message_start", id) \in Item /\ Event("message_end", id) \in Item
      /\ Event("message_update", id) \in Item
  BY <1>1, MakeEvent DEF Kinds
<1>3. /\ Tells(<<Event("message_start", id)>>, {}) /\ Tells(<<Event("message_update", id)>>, {})
      /\ Tells(<<Event("message_end", id)>>, {id})
  BY <1>2, TellsOne DEF Event
<1>4. /\ Tells(<<Event("message_start", id)>> \o <<Event("message_end", id)>>, {} \cup {id})
      /\ Tells(<<Event("message_start", id)>> \o <<Event("message_update", id)>>, {} \cup {})
  BY <1>3, TellsBoth
<1>5. {} \cup {id} = {id}
  OBVIOUS
<1> QED
  BY <1>2, <1>3, <1>4, <1>5, PairOfEvents DEF Published

LEMMA TellsEnds ==
    ASSUME turn \in Nat
    PROVE  /\ Tells(TurnEnd, {}) /\ Tells(AgentEnd, {}) /\ Tells(EndOfRun, {})
<1>1. turn \in Subject /\ 0 \in Subject
  BY DEF Subject
<1>2. {"turn_end", "agent_end"} \subseteq Kinds \ {"message_end"}
  BY DEF Kinds
<1>3. Tells(TurnEnd, {}) /\ Tells(AgentEnd, {})
  BY <1>1, <1>2, TellsNone DEF TurnEnd, AgentEnd
<1> QED
  BY <1>3, TellsNone DEF EndOfRun
-----------------------------------------------------------------------------
\* What later steps keep of the transcript.
LEMMA FaithfulGrows ==
    ASSUME NEW d, NEW ms, NEW next \in Int, NEW more \in Int, NEW ended, NEW after,
           \A i \in 1 .. Len(ms) : ms[i].id \in Int,
           Faithful(d, ms, next, ended), next <= more, ended \subseteq after
    PROVE  Faithful(d, ms, more, after)
BY DEF Faithful

LEMMA FaithfulAppend ==
    ASSUME NEW d \in Nat, NEW ms \in Seq(Message), NEW m \in Message,
           NEW next \in Nat, NEW more \in Nat, NEW ended, NEW after,
           Faithful(d, ms, next, ended), next <= m.id, m.id < more,
           ended \subseteq after, Complete(m) => m.id \in after
    PROVE  Faithful(d, Append(ms, m), more, after)
<1> DEFINE all == Append(ms, m)
<1>1. /\ all \in Seq(Message) /\ Len(all) = Len(ms) + 1 /\ Len(ms) \in Nat
      /\ \A i \in 1 .. Len(ms) : all[i] = ms[i]
      /\ all[Len(ms) + 1] = m
  BY AppendProperties, LenProperties
<1>2. /\ m.id \in Nat /\ \A i \in 1 .. Len(ms) : ms[i].id \in Nat
  <2>1. \A i \in 1 .. Len(ms) : ms[i] \in Message
    OBVIOUS
  <2> QED
    BY <2>1 DEF Message
<1> HIDE DEF all
<1> SUFFICES ASSUME NEW i \in 1 .. Len(all), Own(d, all[i])
             PROVE  /\ all[i].id < more
                    /\ Complete(all[i]) => all[i].id \in after
                    /\ \A j \in 1 .. Len(all) :
                         i < j /\ Own(d, all[j]) => all[i].id < all[j].id
  BY DEF Faithful, all
<1>3. CASE i = Len(ms) + 1
  <2>1. \A j \in 1 .. Len(all) : ~(i < j)
    BY <1>1, <1>3
  <2> QED
    BY <1>1, <1>3, <2>1
<1>4. CASE i # Len(ms) + 1
  <2>1. i \in 1 .. Len(ms) /\ all[i] = ms[i]
    BY <1>1, <1>4
  <2>2. /\ ms[i].id < next
        /\ Complete(ms[i]) => ms[i].id \in ended
        /\ \A j \in 1 .. Len(ms) : i < j /\ Own(d, ms[j]) => ms[i].id < ms[j].id
    BY <2>1 DEF Faithful
  <2>3. ASSUME NEW j \in 1 .. Len(all), i < j, Own(d, all[j])
        PROVE  all[i].id < all[j].id
    <3>1. CASE j = Len(ms) + 1
      <4>1. all[j] = m /\ all[i].id = ms[i].id /\ all[j].id = m.id
        BY <1>1, <2>1, <3>1
      <4>2. ms[i].id < m.id
        BY <1>2, <2>1, <2>2
      <4> QED
        BY <4>1, <4>2
    <3>2. CASE j # Len(ms) + 1
      <4>1. j \in 1 .. Len(ms) /\ all[j] = ms[j]
        BY <1>1, <3>2
      <4> QED
        BY <2>1, <2>2, <2>3, <4>1
    <3> QED
      BY <3>1, <3>2
  <2>4. ms[i].id < more
    BY <1>2, <2>1, <2>2
  <2>5. Complete(all[i]) => all[i].id \in after
    BY <2>1, <2>2
  <2> QED
    BY <2>1, <2>3, <2>4, <2>5
<1> QED
  BY <1>1, <1>3, <1>4

\* Parts of a transcript, the ones a retry and a compaction keep.
LEMMA FaithfulPart ==
    ASSUME NEW d, NEW ms, NEW part, NEW shift, NEW next, NEW ended,
           Faithful(d, ms, next, ended),
           Len(part) \in Nat, shift \in Int,
           \A i \in 1 .. Len(part) : Own(d, part[i]) =>
               i + shift \in 1 .. Len(ms) /\ part[i] = ms[i + shift]
    PROVE  Faithful(d, part, next, ended)
<1> SUFFICES ASSUME NEW i \in 1 .. Len(part), Own(d, part[i])
             PROVE  /\ part[i].id < next
                    /\ Complete(part[i]) => part[i].id \in ended
                    /\ \A j \in 1 .. Len(part) :
                         i < j /\ Own(d, part[j]) => part[i].id < part[j].id
  BY DEF Faithful
<1>1. i + shift \in 1 .. Len(ms) /\ part[i] = ms[i + shift]
  OBVIOUS
<1>2. /\ part[i].id < next
      /\ Complete(part[i]) => part[i].id \in ended
      /\ \A j \in 1 .. Len(ms) :
           i + shift < j /\ Own(d, ms[j]) => part[i].id < ms[j].id
  BY <1>1 DEF Faithful
<1>3. ASSUME NEW j \in 1 .. Len(part), i < j, Own(d, part[j])
      PROVE  part[i].id < part[j].id
  <2>1. j + shift \in 1 .. Len(ms) /\ part[j] = ms[j + shift] /\ i + shift < j + shift
    BY <1>3
  <2> QED
    BY <1>2, <1>3, <2>1
<1> QED
  BY <1>2, <1>3

LEMMA FaithfulPrefix ==
    ASSUME NEW d, NEW ms \in Seq(Message), NEW n \in 0 .. Len(ms), NEW next, NEW ended,
           Faithful(d, ms, next, ended)
    PROVE  Faithful(d, SubSeq(ms, 1, n), next, ended)
<1> DEFINE part == SubSeq(ms, 1, n)
<1>1. Len(part) = n /\ n \in Nat /\ \A i \in 1 .. n : part[i] = ms[i]
  BY PrefixType
<1>2. \A i \in 1 .. n : i + 0 \in 1 .. Len(ms) /\ part[i] = ms[i + 0]
  BY <1>1
<1>3. Len(part) \in Nat /\ 0 \in Int
  BY <1>1
<1> HIDE DEF part
<1>4. \A i \in 1 .. Len(part) : Own(d, part[i]) =>
         i + 0 \in 1 .. Len(ms) /\ part[i] = ms[i + 0]
  BY <1>1, <1>2
<1>5. Faithful(d, part, next, ended)
  BY <1>3, <1>4, FaithfulPart
<1> QED
  BY <1>5 DEF part

LEMMA FaithfulReplacement ==
    ASSUME NEW d \in Nat, NEW ms \in Seq(Message), NEW k \in 0 .. Len(ms),
           NEW id \in Nat \ {0}, NEW next \in Int, NEW ended,
           Faithful(d, ms, next, ended)
    PROVE  Faithful(d, <<Summary(id)>> \o After(ms, k), next, ended)
<1> DEFINE head == <<Summary(id)>>
           tail == After(ms, k)
           part == head \o tail
<1>1. Summary(id) \in Message /\ Summary(id).role = "summary"
  BY MakeMessage DEF Summary
<1>2. head \in Seq(Message) /\ Len(head) = 1 /\ head[1] = Summary(id)
  BY <1>1
<1>3. /\ tail \in Seq(Message) /\ Len(tail) = Len(ms) - k /\ Len(ms) \in Nat
      /\ \A i \in 1 .. Len(ms) - k : tail[i] = ms[k + i]
  <2>1. tail \in Seq(Message)
    BY AfterType
  <2>2. \A i \in k + 1 .. Len(ms) : ms[i] \in Message
    OBVIOUS
  <2>3. /\ Len(tail) = IF k + 1 <= Len(ms) THEN Len(ms) - (k + 1) + 1 ELSE 0
        /\ \A i \in 1 .. Len(ms) - (k + 1) + 1 : tail[i] = ms[(k + 1) + i - 1]
    BY <2>2, SubSeqProperties DEF After
  <2>4. /\ Len(ms) \in Nat /\ Len(ms) - (k + 1) + 1 = Len(ms) - k
        /\ \A i \in 1 .. Len(ms) - k : (k + 1) + i - 1 = k + i
        /\ ~(k + 1 <= Len(ms)) => Len(ms) - k = 0
    OBVIOUS
  <2>5. Len(tail) = Len(ms) - k
    BY <2>3, <2>4
  <2>6. ASSUME NEW i \in 1 .. Len(ms) - k PROVE tail[i] = ms[k + i]
    BY <2>3, <2>4
  <2> HIDE DEF tail
  <2> QED
    BY <2>1, <2>4, <2>5, <2>6
<1> HIDE DEF head, tail
<1>4. /\ Len(part) = 1 + (Len(ms) - k)
      /\ \A i \in 1 .. 1 + (Len(ms) - k) : part[i] = IF i <= 1 THEN head[i] ELSE tail[i - 1]
  <2>1. /\ Len(part) = Len(head) + Len(tail)
        /\ \A i \in 1 .. Len(head) + Len(tail) :
             part[i] = IF i <= Len(head) THEN head[i] ELSE tail[i - Len(head)]
    BY <1>2, <1>3, ConcatProperties
  <2> QED
    BY <1>2, <1>3, <2>1
<1> HIDE DEF part
<1>5. ASSUME NEW i \in 1 .. Len(part), Own(d, part[i])
      PROVE  i + (k - 1) \in 1 .. Len(ms) /\ part[i] = ms[i + (k - 1)]
  <2>1. i # 1
    <3>1. part[1] = Summary(id)
      <4>1. 1 \in 1 .. 1 + (Len(ms) - k)
        BY <1>3
      <4> QED
        BY <1>2, <1>4, <4>1
    <3> QED
      BY <1>1, <1>5, <3>1 DEF Own
  <2>2. i - 1 \in 1 .. Len(ms) - k /\ k + (i - 1) = i + (k - 1)
    BY <1>3, <1>4, <2>1
  <2>3. part[i] = tail[i - 1] /\ tail[i - 1] = ms[k + (i - 1)]
    BY <1>3, <1>4, <2>1, <2>2
  <2> QED
    BY <1>3, <2>2, <2>3
<1>6. Len(part) \in Nat /\ k - 1 \in Int
  BY <1>3, <1>4
<1>7. Faithful(d, part, next, ended)
  BY <1>5, <1>6, FaithfulPart
<1> QED
  BY <1>7 DEF part, head, tail
-----------------------------------------------------------------------------
\* A step that ends no message, and one that publishes a new message whole.
Quietly ==
    /\ Tells(out', {}) /\ nextId' >= nextId
    /\ \/ messages' = messages
       \/ \E n \in 0 .. Len(messages) : messages' = SubSeq(messages, 1, n)
       \/ \E k \in 0 .. Len(messages) : messages' = <<Summary(nextId)>> \o After(messages, k)
Speaking ==
    /\ Tells(out', {nextId}) /\ nextId' = nextId + 1
    /\ \E m \in Message : m.id = nextId /\ messages' = Append(messages, m)
Onward ==
    /\ out = <<>> /\ events' = events /\ scenario' = scenario
    /\ pc # "created" /\ pc' # "created"
    /\ pc' = "streaming" => loop'.assistant = 0

\* The log after a step that found everything published.
LEMMA LogGrows ==
    ASSUME TypeInv, TypeInv', Rises(Log), out = <<>>, events' = events,
           NEW ids, Tells(out', ids), \A x \in Ended(Log), y \in ids : x < y
    PROVE  Rises(Log') /\ Ended(Log') = Ended(Log) \cup ids
<1>1. Log = events /\ events \in Seq(Item)
  BY Published_
<1>2. Tells(events, Ended(Log))
  BY <1>1 DEF Tells
<1>3. Tells(events \o out', Ended(Log) \cup ids)
  BY <1>2, TellsBoth
<1>4. Log' = events \o out'
  BY DEF Log
<1> QED
  BY <1>3, <1>4 DEF Tells

LEMMA QuietStory ==
    ASSUME TypeInv, TypeInv', StoryInv, Orderly, Onward, Quietly
    PROVE  StoryInv'
<1>1. /\ Rises(Log) /\ Faithful(Durable, messages, nextId, Ended(Log))
      /\ out = <<>> /\ events' = events /\ Durable' = Durable /\ Durable \in Nat
  <2>1. Durable' = Durable /\ Durable \in Nat
    BY SameParameters, ScenarioFacts DEF Onward, TypeInv, RunType
  <2> QED
    BY <2>1 DEF StoryInv, Onward
<1>2. Rises(Log') /\ Ended(Log') = Ended(Log)
  <2>1. Tells(out', {})
    BY DEF Quietly
  <2>2. Rises(Log') /\ Ended(Log') = Ended(Log) \cup {}
    BY <1>1, <2>1, LogGrows
  <2> QED
    BY <2>2
<1>3. /\ messages \in Seq(Message) /\ messages' \in Seq(Message)
      /\ nextId \in Nat \ {0} /\ nextId' \in Nat /\ nextId <= nextId'
  BY DEF TypeInv, AgentType, Quietly
<1>4. Faithful(Durable, messages', nextId, Ended(Log))
  <2>1. CASE messages' = messages
    BY <1>1, <2>1
  <2>2. CASE \E n \in 0 .. Len(messages) : messages' = SubSeq(messages, 1, n)
    BY <1>1, <1>3, <2>2, FaithfulPrefix
  <2>3. CASE \E k \in 0 .. Len(messages) :
               messages' = <<Summary(nextId)>> \o After(messages, k)
    <3>1. PICK k \in 0 .. Len(messages) :
             messages' = <<Summary(nextId)>> \o After(messages, k)
      BY <2>3
    <3>2. nextId \in Int
      BY <1>3
    <3>3. Faithful(Durable, <<Summary(nextId)>> \o After(messages, k), nextId, Ended(Log))
      BY <1>1, <1>3, <3>2, FaithfulReplacement
    <3> QED
      BY <3>1, <3>3
  <2> QED
    BY <2>1, <2>2, <2>3 DEF Quietly
<1>5. Faithful(Durable, messages', nextId', Ended(Log'))
  <2>1. \A i \in 1 .. Len(messages') : messages'[i].id \in Int
    <3>1. \A i \in 1 .. Len(messages') : messages'[i] \in Message
      BY <1>3
    <3> QED
      BY <3>1 DEF Message
  <2>2. nextId \in Int /\ nextId' \in Int /\ Ended(Log) \subseteq Ended(Log')
    BY <1>2, <1>3
  <2> QED
    BY <1>3, <1>4, <2>1, <2>2, FaithfulGrows
<1> QED
  BY <1>1, <1>2, <1>5 DEF StoryInv, Onward

LEMMA SpeakingStory ==
    ASSUME TypeInv, TypeInv', StoryInv, Orderly, MessagesAgree, Onward, Speaking
    PROVE  StoryInv'
<1>1. /\ Rises(Log) /\ Faithful(Durable, messages, nextId, Ended(Log))
      /\ out = <<>> /\ events' = events /\ Durable' = Durable /\ Durable \in Nat
  <2>1. Durable' = Durable /\ Durable \in Nat
    BY SameParameters, ScenarioFacts DEF Onward, TypeInv, RunType
  <2> QED
    BY <2>1 DEF StoryInv, Onward
<1>2. /\ messages \in Seq(Message) /\ nextId \in Nat \ {0} /\ nextId' = nextId + 1
      /\ Ended(Log) \subseteq 1 .. nextId - 1
  BY DEF TypeInv, AgentType, Speaking, MessagesAgree, Ended
<1>3. Rises(Log') /\ Ended(Log') = Ended(Log) \cup {nextId}
  <2>1. \A x \in Ended(Log), y \in {nextId} : x < y
    BY <1>2
  <2> QED
    BY <1>1, <2>1, LogGrows DEF Speaking
<1>4. PICK m \in Message : m.id = nextId /\ messages' = Append(messages, m)
  BY DEF Speaking
<1>5. Faithful(Durable, messages', nextId', Ended(Log'))
  <2>1. /\ nextId <= m.id /\ m.id < nextId' /\ m.id \in Ended(Log')
        /\ nextId \in Nat /\ nextId' \in Nat /\ Ended(Log) \subseteq Ended(Log')
    BY <1>2, <1>3, <1>4
  <2> QED
    BY <1>1, <1>2, <1>4, <2>1, FaithfulAppend
<1> QED
  BY <1>1, <1>3, <1>5 DEF StoryInv, Onward

\* The first delta starts a message that has not ended, the newest one.
LEMMA DeltaStory ==
    ASSUME TypeInv, TypeInv', StoryInv, Orderly, Asks, TextDelta
    PROVE  StoryInv'
<1>1. /\ pc = "streaming" /\ pc' = "streaming" /\ out = <<>> /\ events' = events
      /\ scenario' = scenario /\ loop.assistant = 0
      /\ messages' = Append(messages, Assistant(nextId, "None", <<>>))
      /\ nextId' = nextId + 1
      /\ out' = <<Event("message_start", nextId), Event("message_update", nextId)>>
  BY DEF TextDelta, Ready, runVars, logVars
<1>2. loop'.assistant = nextId /\ loop'.requestCount = loop.requestCount
  BY DEF TextDelta, TypeInv, LoopType, LoopLocals
<1>3. /\ messages \in Seq(Message) /\ nextId \in Nat \ {0}
      /\ loop.requestCount \in Nat /\ loop.requestCount <= Len(messages)
  BY <1>1 DEF TypeInv, AgentType, LoopType, LoopLocals
<1>4. /\ Rises(Log) /\ Faithful(Durable, messages, nextId, Ended(Log))
      /\ Durable' = Durable /\ Durable \in Nat
  <2>1. Durable' = Durable /\ Durable \in Nat
    BY <1>1, SameParameters, ScenarioFacts DEF TypeInv, RunType
  <2> QED
    BY <1>1, <2>1 DEF StoryInv
<1>5. Rises(Log') /\ Ended(Log') = Ended(Log)
  <2>1. Tells(out', {})
    BY <1>1, <1>3, TellsPublished
  <2>2. Rises(Log') /\ Ended(Log') = Ended(Log) \cup {}
    BY <1>1, <1>4, <2>1, LogGrows
  <2> QED
    BY <2>2
<1> DEFINE m == Assistant(nextId, "None", <<>>)
<1>6. m \in Message /\ m.id = nextId /\ ~Complete(m)
  <2>1. <<>> \in Seq(Call) /\ "None" \in StopReasons \cup {"None"}
    OBVIOUS
  <2> QED
    BY <1>3, <2>1, MakeMessage DEF Assistant, Complete
<1>7. Faithful(Durable, messages', nextId', Ended(Log'))
  <2> HIDE DEF m
  <2>1. /\ nextId <= m.id /\ m.id < nextId + 1 /\ nextId \in Nat /\ nextId + 1 \in Nat
        /\ Ended(Log) \subseteq Ended(Log') /\ messages' = Append(messages, m)
    BY <1>1, <1>3, <1>5, <1>6 DEF m
  <2>2. Faithful(Durable, Append(messages, m), nextId + 1, Ended(Log'))
    BY <1>3, <1>4, <1>6, <2>1, FaithfulAppend
  <2> QED
    BY <1>1, <2>1, <2>2
<1>8. Request_' = messages
  <2>1. messages = Request_
    BY <1>1 DEF Asks
  <2>2. Len(messages) = loop.requestCount
    BY <1>3, <2>1, PrefixType DEF Request_
  <2>3. SubSeq(Append(messages, m), 1, Len(messages)) = messages
    <3> HIDE DEF m
    <3> QED
      BY <1>3, <1>6, AppendPrefix
  <2> QED
    BY <1>1, <1>2, <2>2, <2>3 DEF Request_
<1>9. nextId' = loop'.assistant + 1 /\ Faithful(Durable, Request_', loop'.assistant, Ended(Log'))
  BY <1>1, <1>2, <1>4, <1>5, <1>8
<1> QED
  BY <1>1, <1>4, <1>5, <1>7, <1>9 DEF StoryInv

\* The end of a response ends the message it showed, or one it has not.
LEMMA StreamStory ==
    ASSUME TypeInv, TypeInv', StoryInv, Orderly, Asks, MessagesAgree,
           NEW reason \in Responses, NEW n \in 0 .. MaxCalls, StreamEnds(reason, n)
    PROVE  StoryInv'
<1> DEFINE fresh == loop.assistant = 0
           id == IF fresh THEN nextId ELSE loop.assistant
           calls == [i \in 1 .. n |-> <<id, i>>]
           m == Assistant(id, Stop(reason), calls)
<1>1. /\ pc = "streaming" /\ pc' = "response" /\ out = <<>> /\ events' = events
      /\ scenario' = scenario
  BY Zenon DEF StreamEnds, Ready, runVars, logVars
<1>2. /\ messages' = IF fresh THEN Append(messages, m) ELSE Replaced(messages, m)
      /\ nextId' = IF fresh THEN nextId + 1 ELSE nextId
      /\ out' = IF fresh THEN Published(id) ELSE <<Event("message_end", id)>>
  BY Zenon DEF StreamEnds
<1>3. /\ messages \in Seq(Message) /\ nextId \in Nat \ {0} /\ loop.assistant \in Nat
      /\ loop.requestCount \in Nat /\ loop.requestCount <= Len(messages)
  BY <1>1 DEF TypeInv, AgentType, LoopType, LoopLocals
<1>4. m \in Message /\ m.id = id /\ id \in Nat \ {0}
  <2>1. id \in Nat \ {0}
    BY <1>3
  <2>2. Stop(reason) \in StopReasons \cup {"None"}
    BY ScenarioFacts DEF TypeInv, RunType, Stop, StopReasons
  <2>3. calls \in Seq(Call)
    <3>1. n \in Nat /\ \A i \in 1 .. n : <<id, i>> \in Call
      <4>1. MaxCalls \in Nat
        BY ScenarioFacts DEF TypeInv, RunType
      <4> QED
        BY <2>1, <4>1 DEF Call
    <3> HIDE DEF id
    <3> QED
      BY <3>1
  <2> HIDE DEF id, calls
  <2> QED
    BY <2>1, <2>2, <2>3, MakeMessage DEF Assistant
<1> HIDE DEF m
<1>5. /\ Rises(Log) /\ Faithful(Durable, messages, nextId, Ended(Log))
      /\ Durable' = Durable /\ Durable \in Nat
  <2>1. Durable' = Durable /\ Durable \in Nat
    BY <1>1, SameParameters, ScenarioFacts DEF TypeInv, RunType
  <2> QED
    BY <1>1, <2>1 DEF StoryInv
<1>6. CASE fresh
  <2>1. Onward
    BY <1>1 DEF Onward
  <2>2. Speaking
    <3>1. messages' = Append(messages, m) /\ nextId' = nextId + 1 /\ out' = Published(nextId)
      BY <1>2, <1>6
    <3>2. Tells(out', {nextId})
      BY <1>3, <3>1, TellsPublished
    <3>3. m.id = nextId
      BY <1>4, <1>6
    <3> QED
      BY <1>4, <3>1, <3>2, <3>3 DEF Speaking
  <2> QED
    BY <2>1, <2>2, SpeakingStory
<1>7. CASE ~fresh
  <2> DEFINE a == loop.assistant
  <2>1. /\ id = a /\ nextId' = nextId /\ messages' = Replaced(messages, m)
        /\ out' = <<Event("message_end", a)>> /\ m.id = a
    BY <1>2, <1>4, <1>7
  <2>2. nextId = a + 1 /\ Faithful(Durable, Request_, a, Ended(Log))
    BY <1>1, <1>7 DEF StoryInv
  <2>3. Ended(Log) \subseteq 1 .. nextId - 1 /\ a \notin Ended(Log)
    BY <1>1, <1>7 DEF MessagesAgree, Ended, OpenIn
  <2>4. Rises(Log') /\ Ended(Log') = Ended(Log) \cup {a}
    <3>1. \A x \in Ended(Log), y \in {a} : x < y
      BY <1>3, <2>2, <2>3
    <3>2. Tells(out', {a})
      BY <1>3, <2>1, TellsPublished
    <3> QED
      BY <1>1, <1>5, <3>1, <3>2, LogGrows
  <2>5. Request_ \in Seq(Message)
    BY <1>3, PrefixType DEF Request_
  <2>6. messages' = Append(Request_, m)
    <3> DEFINE partial == Assistant(loop.assistant, "None", <<>>)
    <3>1. messages = Append(Request_, partial)
      BY <1>1, <1>7 DEF Asks
    <3>2. partial \in Message
      <4>1. <<>> \in Seq(Call) /\ "None" \in StopReasons \cup {"None"} /\ a \in Nat \ {0}
        BY <1>3, <1>7
      <4> QED
        BY <4>1, MakeMessage
    <3> HIDE DEF partial
    <3>3. Replaced(Append(Request_, partial), m) = Append(Request_, m)
      BY <1>4, <2>5, <3>2, ReplacedLast
    <3> QED
      BY <2>1, <3>1, <3>3
  <2>7. Faithful(Durable, Append(Request_, m), nextId, Ended(Log'))
    <3>1. /\ a <= m.id /\ m.id < nextId /\ a \in Nat /\ nextId \in Nat
          /\ Ended(Log) \subseteq Ended(Log') /\ m.id \in Ended(Log')
      BY <1>3, <2>1, <2>2, <2>4
    <3> QED
      BY <1>4, <1>5, <2>2, <2>5, <3>1, FaithfulAppend
  <2> QED
    BY <1>1, <1>5, <2>1, <2>4, <2>6, <2>7 DEF StoryInv
<1> QED
  BY <1>6, <1>7

\* The prompts' messages end one after the other.
LEMMA StartStory ==
    ASSUME TypeInv, TypeInv', StoryInv, Orderly, TurnsAgree, Start
    PROVE  StoryInv'
<1>1. /\ pc = "created" /\ pc' \in {"boundary", "initial_drain"} /\ out = <<>>
      /\ events' = events /\ nextId' = nextId /\ scenario' = scenario
      /\ messages' = messages /\ out' = PromptEvents
  BY DEF Start, Ready, agentVars, logVars, PromptEvents
<1>2. Durable \in Nat /\ Prompts \in Nat /\ Durable' = Durable
  BY <1>1, SameParameters, ScenarioFacts DEF TypeInv, RunType
<1>3. Log' = PromptEvents
  <2>1. Log = events /\ events = <<>>
    BY <1>1, Published_ DEF TurnsAgree
  <2>2. PromptEvents \in Seq(Item)
    BY <1>2, PromptShape
  <2>3. <<>> \o PromptEvents = PromptEvents
    BY <2>2, ConcatEmptySeq
  <2> QED
    BY <1>1, <2>1, <2>3 DEF Log
<1>4. Ended(PromptEvents) = {Durable + h : h \in 1 .. Prompts}
  <2> DEFINE q == 2 * Prompts + 2
  <2>1. q \in 2 .. 2 * Prompts + 2
    BY <1>2
  <2>2. {h \in 1 .. Prompts : 2 * h + 2 <= q} = 1 .. Prompts
    BY <1>2
  <2>3. SubSeq(PromptEvents, 1, q) = PromptEvents
    BY <1>2, PromptShape, SubSeqFull
  <2>4. AboutIn(SubSeq(PromptEvents, 1, q), "message_end")
          = {Durable + h : h \in {h \in 1 .. Prompts : 2 * h + 2 <= q}}
    BY <1>2, <2>1, PromptPrefix
  <2> HIDE DEF q
  <2> QED
    BY <2>2, <2>3, <2>4 DEF Ended
<1>5. Rises(PromptEvents)
  <2>1. /\ Len(PromptEvents) = 2 * Prompts + 2
        /\ PromptEvents[1] = Event("agent_start", 0) /\ PromptEvents[2] = Event("turn_start", 1)
        /\ \A h \in 1 .. Prompts :
             /\ PromptEvents[2 * h + 1] = Event("message_start", Durable + h)
             /\ PromptEvents[2 * h + 2] = Event("message_end", Durable + h)
        /\ \A i \in 1 .. 2 * Prompts + 2 :
             i \in {1, 2} \/ \E h \in 1 .. Prompts : i \in {2 * h + 1, 2 * h + 2}
    BY <1>2, PromptShape
  <2>2. ASSUME NEW i \in AtIn(PromptEvents, "message_end")
        PROVE  \E h \in 1 .. Prompts : i = 2 * h + 2 /\ PromptEvents[i].of = Durable + h
    <3>1. i \in 1 .. 2 * Prompts + 2 /\ PromptEvents[i].kind = "message_end"
      BY <2>1 DEF AtIn
    <3>2. i \notin {1, 2}
      BY <2>1, <3>1 DEF Event
    <3>3. PICK h \in 1 .. Prompts : i \in {2 * h + 1, 2 * h + 2}
      BY <2>1, <3>1, <3>2
    <3>4. i # 2 * h + 1
      <4>1. PromptEvents[2 * h + 1] = Event("message_start", Durable + h)
        BY <2>1
      <4>2. PromptEvents[2 * h + 1].kind = "message_start"
        BY <4>1 DEF Event
      <4> QED
        BY <3>1, <4>2
    <3>5. i = 2 * h + 2 /\ PromptEvents[2 * h + 2] = Event("message_end", Durable + h)
      BY <2>1, <3>3, <3>4
    <3>6. PromptEvents[2 * h + 2].of = Durable + h
      BY <3>5 DEF Event
    <3> QED
      BY <3>5, <3>6
  <2> SUFFICES ASSUME NEW i \in AtIn(PromptEvents, "message_end"),
                      NEW j \in AtIn(PromptEvents, "message_end"), i < j
               PROVE  PromptEvents[i].of < PromptEvents[j].of
    BY DEF Rises
  <2>3. PICK g \in 1 .. Prompts : i = 2 * g + 2 /\ PromptEvents[i].of = Durable + g
    BY <2>2
  <2>4. PICK h \in 1 .. Prompts : j = 2 * h + 2 /\ PromptEvents[j].of = Durable + h
    BY <2>2
  <2>5. Durable + g < Durable + h
    BY <1>2, <2>3, <2>4
  <2> QED
    BY <2>3, <2>4, <2>5
<1>6. Faithful(Durable, messages, nextId, {Durable + h : h \in 1 .. Prompts})
  BY <1>1 DEF StoryInv
<1> QED
  BY <1>1, <1>2, <1>3, <1>4, <1>5, <1>6 DEF StoryInv
-----------------------------------------------------------------------------
\* Every other step of the loop publishes a message whole or ends none.
LEMMA LoopSpeaks ==
    ASSUME TypeInv, TypeInv', TurnLoop
    PROVE  \/ Start \/ TextDelta \/ StreamFails
           \/ \E reason \in Responses, n \in 0 .. MaxCalls : StreamEnds(reason, n)
           \/ Onward /\ (Quietly \/ Speaking)
<1>1. /\ out = <<>> /\ events' = events /\ scenario' = scenario
  BY LoopFrame, LoopPlaces
<1>2. /\ messages \in Seq(Message) /\ nextId \in Nat \ {0} /\ turn \in Nat
      /\ loop \in LoopLocals /\ nextId >= nextId
  BY DEF TypeInv, AgentType, RunType, LoopType
<1>3. Tells(<<>>, {}) /\ Tells(TurnEnd, {}) /\ Tells(AgentEnd, {}) /\ Tells(EndOfRun, {})
  <2>1. Event("agent_end", 0) \in Item
    BY MakeEvent DEF Kinds, Subject
  <2> QED
    BY <1>2, <2>1, TellsOne, TellsEnds
<1>4. \A kind \in Kinds \ {"message_end"}, of \in Subject : Tells(<<Event(kind, of)>>, {})
  BY TellsNone
<1>5. /\ {"automatic_compaction_start", "automatic_compaction_end",
          "provider_request_skipped", "turn_start", "tool_execution_start",
          "tool_execution_end"} \subseteq Kinds \ {"message_end"}
      /\ {loop.compacting, "compaction", "breaker", "overflow", turn + 1} \subseteq Subject
      /\ Call \subseteq Subject
  BY <1>2 DEF Kinds, Subject, LoopLocals
<1>6. /\ Tells(<<CompactionEnd>>, {}) /\ Tells(<<CompactionStart>>, {})
      /\ Tells(<<SkippedEvent("compaction")>>, {}) /\ Tells(<<SkippedEvent("breaker")>>, {})
      /\ Tells(<<Event("automatic_compaction_end", "overflow")>>, {})
      /\ Tells(<<Event("turn_start", turn + 1)>>, {})
  BY <1>4, <1>5 DEF CompactionEnd, CompactionStart, SkippedEvent
<1>7. Tells(<<CompactionStart, SkippedEvent("compaction")>>, {})
  <2>1. CompactionStart \in Item /\ SkippedEvent("compaction") \in Item
    BY <1>5, MakeEvent DEF CompactionStart, SkippedEvent, Kinds
  <2> QED
    BY <1>6, <2>1, TellsNone, PairOfEvents
<1>8. /\ Tells(<<SkippedEvent("breaker")>> \o EndOfRun, {})
      /\ Tells(<<Event("automatic_compaction_end", "overflow")>> \o EndOfRun, {})
  BY <1>3, <1>6, TellsNone
<1> USE DEF Ready, agentVars, runVars, logVars, localVars
<1>9. CASE \/ InitialDrain \/ Injected \/ BelowThreshold \/ AboveThreshold \/ ModelFailed
           \/ UnexpectedCalls \/ HookFails \/ GoOn \/ DrainSteering \/ DrainFollowUp
  <2>1. CASE InitialDrain \/ Injected \/ BelowThreshold \/ AboveThreshold \/ ModelFailed
    BY <1>1, <1>2, <1>3, <2>1 DEF InitialDrain, Injected, BelowThreshold, AboveThreshold,
       ModelFailed, Onward, Quietly
  <2>2. CASE UnexpectedCalls \/ HookFails \/ GoOn \/ DrainSteering \/ DrainFollowUp
    BY <1>1, <1>2, <1>3, <2>2 DEF UnexpectedCalls, HookFails, GoOn, DrainSteering,
       DrainFollowUp, Fail, Onward, Quietly
  <2> QED
    BY <1>9, <2>1, <2>2
<1>10. CASE Request
  <2>1. loop'.assistant = 0
    BY <1>2, <1>10 DEF Request, LoopLocals
  <2> QED
    BY <1>1, <1>2, <1>3, <1>10, <2>1 DEF Request, Fail, Onward, Quietly
<1>11. CASE UseTools
  <2>1. /\ pc = "response" /\ pc' = "tools" /\ out' = <<>> /\ messages' = messages
        /\ nextId' = nextId
    BY <1>1, <1>11, Zenon DEF UseTools
  <2> QED
    BY <1>1, <1>2, <1>3, <2>1 DEF Onward, Quietly
<1>12. CASE Observe
  <2>1. /\ pc = "tools" /\ pc' = "tools" /\ out' = <<>> /\ messages' = messages
        /\ nextId' = nextId
    BY <1>1, <1>12, Zenon DEF Observe
  <2> QED
    BY <1>1, <1>2, <1>3, <2>1 DEF Onward, Quietly
<1>13. CASE RetryOverflow
  <2>1. loop.requestCount \in 0 .. Len(messages)
    BY <1>2, <1>13 DEF RetryOverflow, TypeInv, LoopType, LoopLocals
  <2> QED
    BY <1>1, <1>2, <1>3, <1>13, <2>1 DEF RetryOverflow, Onward, Quietly
<1>14. CASE CompactionLimit \/ StartCompaction \/ CompactionFails \/ CompactionCancelled
  BY <1>1, <1>2, <1>6, <1>7, <1>14 DEF CompactionLimit, StartCompaction, CompactionFails,
     CompactionCancelled, RefuseCompaction, Fail, Onward, Quietly
<1>15. CASE CommitReplacement
  <2>1. /\ pc = "compacting" /\ pc' = "request" /\ out' = <<CompactionEnd>>
        /\ nextId' = nextId + 1 /\ messages' \in Replacements
    BY <1>15 DEF CommitReplacement
  <2>2. \E k \in 0 .. Len(messages) : messages' = <<Summary(nextId)>> \o After(messages, k)
    BY <2>1 DEF Replacements
  <2>3. nextId' >= nextId
    BY <1>2, <2>1
  <2> QED
    BY <1>1, <1>6, <2>1, <2>2, <2>3 DEF Onward, Quietly
<1>16. CASE ResponseFailed \/ ResponseCancelled \/ NoTools
  BY <1>1, <1>2, <1>3, <1>8, <1>16 DEF ResponseFailed, ResponseCancelled, NoTools,
     Onward, Quietly
<1>17. CASE ToolsDone \/ BreakerTripped \/ ShouldStop \/ LastTurn \/ AdvanceTurn
  BY <1>1, <1>2, <1>3, <1>6, <1>8, <1>17 DEF ToolsDone, BreakerTripped, BatchDone, ShouldStop,
     LastTurn, AdvanceTurn, Succeed, Onward, Quietly
<1>18. CASE Announce
  <2>1. batch.announced + 1 \in 1 .. Len(loop.calls)
    BY <1>18 DEF Announce, Width, TypeInv, BatchType, BatchLocals
  <2>2. loop.calls[batch.announced + 1] \in Subject
    BY <1>2, <1>5, <2>1 DEF LoopLocals
  <2>3. Tells(<<Event("tool_execution_start", loop.calls[batch.announced + 1])>>, {})
    BY <1>4, <1>5, <2>2
  <2> QED
    BY <1>1, <1>2, <1>18, <2>3 DEF Announce, Onward, Quietly
<1>19. CASE \E i \in 1 .. batch.announced : EndTool(i)
  <2>1. PICK i \in 1 .. batch.announced : EndTool(i)
    BY <1>19
  <2>2. i \in 1 .. Len(loop.calls)
    BY <1>2, <2>1 DEF EndTool, TypeInv, BatchType, BatchLocals, LoopLocals
  <2>3. loop.calls[i] \in Subject
    BY <1>2, <1>5, <2>2 DEF LoopLocals
  <2>4. Tells(<<Event("tool_execution_end", loop.calls[i])>>, {})
    BY <1>4, <1>5, <2>3
  <2> QED
    BY <1>1, <1>2, <2>1, <2>4 DEF EndTool, Onward, Quietly
<1>20. CASE Inject
  <2>1. Head(loop.queued) \in Nat
    BY <1>2, <1>20, HeadTailProperties DEF Inject, LoopLocals
  <2> DEFINE m == User(nextId, Head(loop.queued))
  <2>2. m \in Message /\ m.id = nextId
    BY <1>2, <2>1, MakeMessage DEF User
  <2> HIDE DEF m
  <2>3. Tells(Published(nextId), {nextId})
    BY <1>2, TellsPublished
  <2>4. /\ pc = "inject" /\ pc' = "inject" /\ messages' = Append(messages, m)
        /\ nextId' = nextId + 1 /\ out' = Published(nextId)
    BY <1>20 DEF Inject, m
  <2> QED
    BY <1>1, <2>2, <2>3, <2>4 DEF Onward, Speaking
<1>21. CASE Answer \/ SkipCall
  <2> DEFINE i == batch.answered + 1
             m == ToolResult(nextId, loop.calls[i])
  <2>1. /\ pc = "tools" /\ pc' = "tools" /\ messages' = Append(messages, m)
        /\ nextId' = nextId + 1 /\ out' = Published(nextId)
    <3>1. CASE Answer
      BY <3>1, Zenon DEF Answer
    <3>2. CASE SkipCall
      BY <3>2, Zenon DEF SkipCall
    <3> QED
      BY <1>21, <3>1, <3>2
  <2>2. i \in 1 .. Len(loop.calls)
    <3>1. CASE Answer
      <4>1. i <= batch.announced
        BY <3>1, Zenon DEF Answer
      <4> QED
        BY <1>2, <2>1, <4>1 DEF TypeInv, BatchType, BatchLocals, LoopLocals
    <3>2. CASE SkipCall
      BY <3>2 DEF SkipCall, Width, TypeInv, BatchType, BatchLocals
    <3> QED
      BY <1>21, <3>1, <3>2
  <2>3. m \in Message /\ m.id = nextId
    <3>1. loop.calls[i] \in Call
      BY <1>2, <2>2 DEF LoopLocals
    <3> QED
      BY <1>2, <3>1, MakeMessage DEF ToolResult
  <2> HIDE DEF m, i
  <2>4. Tells(Published(nextId), {nextId})
    BY <1>2, TellsPublished
  <2> QED
    BY <1>1, <2>1, <2>3, <2>4 DEF Onward, Speaking
<1> QED
  BY <1>9, <1>10, <1>11, <1>12, <1>13, <1>14, <1>15, <1>16, <1>17, <1>18, <1>19, <1>20, <1>21
  DEF TurnLoop

\* A settlement adds a message to the transcript and to the log, or neither.
LEMMA EndSpeaks ==
    ASSUME TypeInv, \/ Finish \/ SettleFailure \/ SettleCancellation
                    \/ SettleCompactionFailure \/ SettleCompactionCancellation
    PROVE  Onward /\ (Quietly \/ Speaking)
<1>1. /\ messages \in Seq(Message) /\ nextId \in Nat \ {0} /\ nextId >= nextId /\ turn \in Nat
  BY DEF TypeInv, AgentType, RunType
<1>2. CASE Finish
  <2>1. /\ pc \in Terminal /\ pc' = "settled" /\ out = <<>> /\ out' = <<>>
        /\ events' = events /\ scenario' = scenario
        /\ messages' = messages /\ nextId' = nextId
    BY <1>2 DEF Finish, logVars
  <2>2. Tells(<<>>, {})
    <3>1. Event("agent_end", 0) \in Item
      BY MakeEvent DEF Kinds, Subject
    <3> QED
      BY <3>1, TellsOne
  <2> QED
    BY <1>1, <2>1, <2>2 DEF Onward, Quietly, Terminal
<1>3. CASE \/ SettleFailure \/ SettleCancellation
           \/ SettleCompactionFailure \/ SettleCompactionCancellation
  <2>1. \E outcome \in {"Failed", "Cancelled"} :
           /\ Ready("errored")
           /\ \/ Settle(outcome, <<>>)
              \/ \E stop \in StopReasons : Settle(outcome, <<Assistant(nextId, stop, <<>>)>>)
    <3>1. {"Error", "Aborted"} \subseteq StopReasons
      BY DEF StopReasons
    <3>2. CASE SettleFailure
      BY <3>1, <3>2 DEF SettleFailure
    <3>3. CASE SettleCancellation
      <4>1. CASE Aborted(LastMessage)
        BY <3>3, <4>1 DEF SettleCancellation
      <4>2. CASE ~Aborted(LastMessage)
        BY <3>1, <3>3, <4>2 DEF SettleCancellation
      <4> QED
        BY <4>1, <4>2
    <3>4. CASE SettleCompactionFailure \/ SettleCompactionCancellation
      BY <3>4 DEF SettleCompactionFailure, SettleCompactionCancellation
    <3> QED
      BY <1>3, <3>2, <3>3, <3>4
  <2>2. PICK outcome \in {"Failed", "Cancelled"} :
           /\ Ready("errored")
           /\ \/ Settle(outcome, <<>>)
              \/ \E stop \in StopReasons : Settle(outcome, <<Assistant(nextId, stop, <<>>)>>)
    BY <2>1
  <2>3. Onward
    BY <2>2 DEF Ready, Settle, Onward, logVars, runVars
  <2>4. Tells(EndOfRun, {}) /\ EndOfRun \in Seq(Item)
    BY <1>1, TellsEnds, MakeEvent
  <2>5. CASE Settle(outcome, <<>>)
    <3>1. <<>> \o EndOfRun = EndOfRun /\ messages \o <<>> = messages /\ Len(<<>>) = 0
      BY <1>1, <2>4, ConcatEmptySeq
    <3>2. /\ messages' = messages \o <<>> /\ nextId' = nextId + Len(<<>>)
          /\ out' = <<>> \o EndOfRun
      BY <2>5 DEF Settle
    <3>3. messages' = messages /\ nextId' = nextId /\ out' = EndOfRun
      BY <1>1, <3>1, <3>2
    <3> QED
      BY <1>1, <2>3, <2>4, <3>3 DEF Quietly
  <2>6. CASE \E stop \in StopReasons : Settle(outcome, <<Assistant(nextId, stop, <<>>)>>)
    <3>1. PICK stop \in StopReasons : Settle(outcome, <<Assistant(nextId, stop, <<>>)>>)
      BY <2>6
    <3> DEFINE m == Assistant(nextId, stop, <<>>)
    <3>2. m \in Message /\ m.id = nextId
      <4>1. <<>> \in Seq(Call)
        OBVIOUS
      <4> QED
        BY <1>1, <4>1, MakeMessage DEF Assistant
    <3>3. /\ messages' = messages \o <<m>> /\ nextId' = nextId + Len(<<m>>)
          /\ out' = Published(nextId) \o EndOfRun
      BY <3>1 DEF Settle
    <3> HIDE DEF m
    <3>4. messages \o <<m>> = Append(messages, m) /\ Len(<<m>>) = 1
      BY <1>1, <3>2, AppendIsConcat
    <3>5. Tells(Published(nextId) \o EndOfRun, {nextId} \cup {})
      <4>1. Tells(Published(nextId), {nextId})
        BY <1>1, TellsPublished
      <4> QED
        BY <2>4, <4>1, TellsBoth
    <3>6. {nextId} \cup {} = {nextId}
      OBVIOUS
    <3> QED
      BY <2>3, <3>2, <3>3, <3>4, <3>5, <3>6 DEF Speaking
  <2> QED
    BY <2>2, <2>5, <2>6
<1> QED
  BY <1>2, <1>3

\* Publishing an event and the host's calls change neither log nor transcript.
LEMMA EmitStory ==
    ASSUME TypeInv, StoryInv, Orderly, Emit \/ UNCHANGED driverVars
    PROVE  StoryInv'
<1>1. /\ Log' = Log /\ messages' = messages /\ nextId' = nextId /\ loop' = loop
      /\ pc' = pc /\ scenario' = scenario
  <2>1. CASE Emit
    <3>1. /\ out # <<>> /\ events' = Append(events, Head(out)) /\ scenario' = scenario
          /\ messages' = messages /\ nextId' = nextId /\ loop' = loop
          /\ \/ out' = Tail(out) /\ pc' = pc
             \/ "observer" \in Faults /\ pc' = "errored"
      BY <2>1 DEF Emit, Fail, agentVars, runVars, localVars
    <3>2. out' = Tail(out) /\ pc' = pc
      BY <3>1 DEF Orderly
    <3>3. events \in Seq(Item) /\ out \in Seq(Item)
      BY DEF TypeInv, LogType
    <3> QED
      BY <3>1, <3>2, <3>3, EmitLog DEF Log
  <2>2. CASE UNCHANGED driverVars
    BY <2>2 DEF driverVars, agentVars, runVars, logVars, localVars, Log
  <2> QED
    BY <2>1, <2>2
<1>2. Durable' = Durable /\ Prompts' = Prompts /\ Request_' = Request_
  BY <1>1, SameParameters DEF Request_
<1> QED
  BY <1>1, <1>2 DEF StoryInv

LEMMA StoryInit == Init => StoryInv
<1> SUFFICES ASSUME Init PROVE StoryInv
  OBVIOUS
<1>1. /\ events = <<>> /\ out = <<>> /\ pc = "created" /\ nextId = Durable + Prompts + 1
      /\ Durable \in Nat /\ Prompts \in Nat
      /\ messages = [i \in 1 .. Durable + Prompts |->
                       IF i > Durable \/ i % 2 = 1 THEN User(i, 0)
                                                   ELSE Assistant(i, "Stop", <<>>)]
  BY ScenarioFacts DEF Init
<1>2. Rises(Log)
  <2>1. Log = <<>> /\ AtIn(<<>>, "message_end") = {}
    BY <1>1 DEF Log, AtIn
  <2> QED
    BY <2>1 DEF Rises
<1>3. Len(messages) = Durable + Prompts /\ \A i \in 1 .. Durable + Prompts : messages[i].id = i
  BY <1>1 DEF User, Assistant
<1>4. Faithful(Durable, messages, nextId, {Durable + h : h \in 1 .. Prompts})
  <2> SUFFICES ASSUME NEW i \in 1 .. Len(messages), Own(Durable, messages[i])
               PROVE  /\ messages[i].id < nextId
                      /\ messages[i].id \in {Durable + h : h \in 1 .. Prompts}
                      /\ \A j \in 1 .. Len(messages) :
                           i < j => messages[i].id < messages[j].id
    BY DEF Faithful
  <2>1. messages[i].id = i /\ i > Durable /\ i \in 1 .. Durable + Prompts
    BY <1>3 DEF Own
  <2>2. i - Durable \in 1 .. Prompts /\ i = Durable + (i - Durable)
    BY <1>1, <2>1
  <2>3. i < nextId
    BY <1>1, <2>1
  <2> QED
    BY <1>3, <2>1, <2>2, <2>3
<1> QED
  BY <1>1, <1>2, <1>4 DEF StoryInv

LEMMA StoryStep ==
    ContractInv /\ ContractInv' /\ StoryInv /\ [Next]_vars => StoryInv'
<1> SUFFICES ASSUME ContractInv, ContractInv', StoryInv, [Next]_vars, Orderly'
             PROVE  StoryInv'
  BY DEF StoryInv
<1>1. scenario' = scenario
  <2>1. CASE TurnLoop
    BY <2>1, LoopPlaces
  <2>2. CASE \/ Finish \/ SettleFailure \/ SettleCancellation
             \/ SettleCompactionFailure \/ SettleCompactionCancellation
    BY <2>2, EndSpeaks DEF ContractInv, RunInv, Onward
  <2>3. CASE Emit \/ Host \/ UNCHANGED vars
    BY <2>3 DEF Emit, Host, Abort, ClearQueues, Steer, FollowUp, vars, driverVars, runVars
  <2> QED
    BY <2>1, <2>2, <2>3 DEF Next, Drive
<1>2. /\ Orderly /\ TypeInv /\ TypeInv' /\ Asks
      /\ TurnsAgree /\ MessagesAgree
  <2>1. Orderly
    BY <1>1, SameParameters DEF Orderly
  <2> QED
    BY <2>1 DEF ContractInv, RunInv, LogAgrees, Clean
<1>3. CASE TurnLoop
  <2>1. ~StreamFails
    BY <1>2 DEF StreamFails, Orderly
  <2>2. CASE \E reason \in Responses, n \in 0 .. MaxCalls : StreamEnds(reason, n)
    BY <1>2, <2>2, StreamStory
  <2> QED
    BY <1>2, <1>3, <2>1, <2>2, LoopSpeaks, StartStory, DeltaStory, QuietStory, SpeakingStory
<1>4. CASE \/ Finish \/ SettleFailure \/ SettleCancellation
           \/ SettleCompactionFailure \/ SettleCompactionCancellation
  BY <1>2, <1>4, EndSpeaks, QuietStory, SpeakingStory
<1>5. CASE Emit \/ Host \/ UNCHANGED vars
  <2>1. Emit \/ UNCHANGED driverVars
    BY <1>5 DEF Host, Abort, ClearQueues, Steer, FollowUp, vars, driverVars
  <2> QED
    BY <1>2, <2>1, EmitStory
<1> QED
  BY <1>3, <1>4, <1>5 DEF Next, Drive

\* What the invariants say of the messages that ended.
LEMMA StoryImplied == ContractInv /\ StoryInv => TranscriptFollowsLog
<1> SUFFICES ASSUME ContractInv, StoryInv, Orderly, pc \notin {"created", "errored"},
                    NEW i \in OfRun, NEW j \in OfRun,
                    Complete(messages[i]), Complete(messages[j])
             PROVE  /\ Cardinality(EndedAt(messages[i].id)) = 1
                    /\ i < j => \A k \in EndedAt(messages[i].id),
                                   l \in EndedAt(messages[j].id) : k < l
  BY DEF TranscriptFollowsLog
<1>1. /\ messages \in Seq(Message) /\ Log \in Seq(Item)
      /\ nextId \in Nat /\ Ended(Log) \subseteq 1 .. nextId - 1
      /\ Rises(Log) /\ Faithful(Durable, messages, nextId, Ended(Log))
  <2>1. TypeInv /\ MessagesAgree
    BY DEF ContractInv, RunInv, LogAgrees, Clean
  <2>2. Log \in Seq(Item)
    BY <2>1, ConcatProperties DEF TypeInv, LogType, Log
  <2> QED
    BY <2>1, <2>2 DEF TypeInv, AgentType, MessagesAgree, Ended, StoryInv
<1>2. /\ DOMAIN messages = 1 .. Len(messages) /\ DOMAIN Log = 1 .. Len(Log)
  BY <1>1, LenProperties
<1>3. \A id : EndedAt(id) = {k \in AtIn(Log, "message_end") : Log[k].of = id}
  BY <1>2 DEF EndedAt, LoggedAt, AtIn
<1>4. \A k \in AtIn(Log, "message_end") : k \in Nat /\ Log[k].of \in Nat
  <2> SUFFICES ASSUME NEW k \in AtIn(Log, "message_end") PROVE k \in Nat /\ Log[k].of \in Nat
    OBVIOUS
  <2>1. Log[k].of \in Ended(Log)
    BY DEF Ended, AboutIn
  <2> QED
    BY <1>1, <2>1 DEF AtIn
<1>5. /\ i \in 1 .. Len(messages) /\ Own(Durable, messages[i]) /\ messages[i].id \in Ended(Log)
      /\ j \in 1 .. Len(messages) /\ Own(Durable, messages[j])
      /\ i < j => messages[i].id < messages[j].id
  BY <1>1, <1>2 DEF OfRun, Own, Faithful
<1>6. Cardinality(EndedAt(messages[i].id)) = 1
  <2>1. PICK k \in AtIn(Log, "message_end") : messages[i].id = Log[k].of
    BY <1>5 DEF Ended, AboutIn
  <2>2. ASSUME NEW l \in AtIn(Log, "message_end"), Log[l].of = messages[i].id
        PROVE  l = k
    BY <1>1, <1>4, <2>1, <2>2 DEF Rises
  <2>3. EndedAt(messages[i].id) = {k}
    BY <1>3, <2>1, <2>2
  <2> QED
    BY <2>3, FS_Singleton
<1>7. ASSUME i < j, NEW k \in EndedAt(messages[i].id), NEW l \in EndedAt(messages[j].id)
      PROVE  k < l
  <2>1. /\ k \in AtIn(Log, "message_end") /\ Log[k].of = messages[i].id
        /\ l \in AtIn(Log, "message_end") /\ Log[l].of = messages[j].id
    BY <1>3, <1>7
  <2>2. Log[k].of < Log[l].of
    BY <1>5, <1>7, <2>1
  <2>3. k # l /\ ~(l < k)
    BY <1>1, <1>4, <2>1, <2>2 DEF Rises
  <2> QED
    BY <1>4, <2>1, <2>3
<1> QED
  BY <1>6, <1>7

\* Each message a run completes ends once in its log, in the order of the
\* transcript, whatever is retried, compacted or aborted (consume_assistant_stream,
\* inject_queued_messages, append_tool_result), and log, transcript and pending
\* calls agree until the agent_end that closes the log.
THEOREM LogCompleteness == Spec => []LogIsComplete
<1>1. Spec => []StoryInv
  <2>1. Init => StoryInv
    BY StoryInit
  <2>2. ContractInv /\ ContractInv' /\ StoryInv /\ [Next]_vars => StoryInv'
    BY StoryStep
  <2> QED
    BY <2>1, <2>2, ContractInvHolds, PTL DEF Spec
<1>2. ContractInv /\ StoryInv => TranscriptFollowsLog
  BY StoryImplied
<1> QED
  BY <1>1, <1>2, ContractInvHolds, RunTypes, RunEnds, ToolsAccounted, PTL DEF LogIsComplete
=============================================================================
