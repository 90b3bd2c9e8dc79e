-------------------------- MODULE ToolBatchProofs --------------------------
(* A tool batch: no wakeup of the task that drives it is lost, and it is    *)
(* published whole and in order, for any number of calls, any tools, any    *)
(* progress callbacks and a cancellation at any moment.                     *)
EXTENDS ToolBatch, FiniteSetTheorems, SequenceTheorems, TLAPS

(***************************************************************************)
(* Wakeups.                                                                *)
(***************************************************************************)
\* A host waits for cancellation in the run's task only once the run itself
\* holds a waiter: its wait is then never taken for the run's registration.
RunFirst == \A h \in Holders : h = {} \/ TheRun \in h

LEMMA WakeInit == ASSUME RunFirst PROVE Init => WakeInv
  BY DEF RunFirst, Init, WakeInv, HasUpdates, AbortWakes, Cancelled, Registered, Watching, Polling, TheRun

\* Publishing, preparing and answering calls, and settling after a poll.
LEMMA OutsidePollStep ==
  ASSUME WakeInv,
         \/ Publish \/ Announce \/ PrepareImmediate \/ PrepareExecution
         \/ Launch \/ AllowOnePoll \/ UpdatesDone \/ KeepRunning
         \/ SettleSibling \/ SiblingsDone
         \/ \E label \in {"sibling", "settle"} : Flush(label)
         \/ EndSibling \/ EndCall \/ AbortPending \/ AllAborted
         \/ AppendResult \/ Answer \/ Observe \/ SkipCall
  PROVE  WakeInv'
  <1>1. CASE Publish
    BY <1>1 DEF Publish, WakeInv, HasUpdates, AbortWakes, Cancelled, planVars, pollVars, queueVars,
                tokenVars, Registered, Watching, Polling
  <1>2. CASE Announce \/ PrepareImmediate \/ PrepareExecution
    BY <1>2 DEF Announce, PrepareImmediate, PrepareExecution, Ready,
                AfterPreparation, WakeInv, HasUpdates, AbortWakes, Cancelled, queueVars, tokenVars,
                Registered, Watching, Polling
  <1>3. CASE Launch
    BY <1>3 DEF Launch, Ready, WakeInv, HasUpdates, AbortWakes, Cancelled, tokenVars, Registered,
                Watching, Polling
  <1>4. CASE AllowOnePoll \/ UpdatesDone \/ KeepRunning
    BY <1>4 DEF AllowOnePoll, UpdatesDone, KeepRunning, Ready, WakeInv, HasUpdates,
                AbortWakes, Cancelled, queueVars, tokenVars, Registered, Watching, Polling
  <1>5. CASE SettleSibling
    BY <1>5 DEF SettleSibling, ReadyPoll, PendingPoll, TakeUpdates, Ready,
                WakeInv, HasUpdates, AbortWakes, Cancelled, Registered, Watching, Polling
  <1>6. CASE SiblingsDone
    BY <1>6 DEF SiblingsDone, AfterSettling, Ready, WakeInv, HasUpdates, AbortWakes, Cancelled,
                queueVars, tokenVars, Registered, Watching, Polling
  <1>7. CASE \E label \in {"sibling", "settle"} : Flush(label)
    BY <1>7 DEF Flush, TakeUpdates, Ready, WakeInv, HasUpdates, AbortWakes, Cancelled, tokenVars,
                Registered, Watching, Polling
  <1>8. CASE EndSibling \/ EndCall \/ AllAborted
    BY <1>8 DEF EndSibling, EndCall, AllAborted, AfterSettling, Ready, WakeInv, HasUpdates,
                AbortWakes, Cancelled, queueVars, tokenVars, Registered, Watching, Polling
  <1>9. CASE AbortPending
    BY <1>9 DEF AbortPending, Ready, WakeInv, HasUpdates, AbortWakes, Cancelled, tokenVars,
                Registered, Watching, Polling
  <1>10. CASE AppendResult \/ Answer \/ Observe \/ SkipCall
    BY <1>10 DEF AppendResult, Answer, Observe, SkipCall, AfterResult, Ready,
                 WakeInv, HasUpdates, AbortWakes, Cancelled, queueVars, tokenVars, Registered,
                 Watching, Polling
  <1> QED BY <1>1, <1>2, <1>3, <1>4, <1>5, <1>6, <1>7, <1>8, <1>9, <1>10

\* One poll: the waker is registered with the queue, then with the token, and
\* both are looked at again before a future is polled.
LEMMA PollStep ==
  ASSUME WakeInv,
         \/ Take \/ RegisterForUpdates \/ RegisterForCancellation \/ Recheck
         \/ PassOver \/ PollReady \/ PollPending \/ AfterPoll \/ EndOfPoll
         \/ Resume
  PROVE  WakeInv'
  <1> USE DEF WakeInv, AbortWakes, Cancelled, Registered, Watching, Polling, HasUpdates
  <1>1. CASE Take
    BY <1>1 DEF Take, Check, FoundUpdates, GiveUp, ReportCancelled, TakeUpdates,
                Ready, queueVars
  <1>2. CASE RegisterForUpdates
    BY <1>2 DEF RegisterForUpdates, Ready, tokenVars
  <1>3. CASE RegisterForCancellation
    BY <1>3 DEF RegisterForCancellation, Ready, queueVars
  <1>4. CASE Recheck
    BY <1>4 DEF Recheck, FoundUpdates, GiveUp, ReportCancelled, TakeUpdates,
                Ready, queueVars, tokenVars
  <1>5. CASE PassOver
    BY <1>5 DEF PassOver, Ready, queueVars, tokenVars
  <1>6. CASE PollReady
    <2>1. TheRun \notin Call
      BY BatchAssumption DEF TheRun, Call
    <2> QED BY <1>6, <2>1 DEF PollReady, ReadyPoll, TakeUpdates, Ready
  <1>7. CASE PollPending
    <2>1. TheRun \notin Call
      BY BatchAssumption DEF TheRun, Call
    <2> QED BY <1>7, <2>1 DEF PollPending, PendingPoll, Ready, queueVars
  <1>8. CASE AfterPoll \/ EndOfPoll
    BY <1>8 DEF AfterPoll, EndOfPoll, FoundUpdates, GiveUp, ReportCancelled,
                TakeUpdates, Ready, queueVars, tokenVars
  <1>9. CASE Resume
    BY <1>9 DEF Resume, queueVars, tokenVars
  <1> QED BY <1>1, <1>2, <1>3, <1>4, <1>5, <1>6, <1>7, <1>8, <1>9

\* The tools' threads and the host.
LEMMA OutsideStep == ASSUME WakeInv, Outside PROVE WakeInv'
  <1> USE DEF WakeInv, AbortWakes, Cancelled, Registered, Watching, Polling, HasUpdates
  <1>1. CASE \E c \in Call : Callback(c)
    <2>1. woken \/ registered => woken'
      BY <1>1, Zenon DEF Callback
    <2>2. UNCHANGED <<pc, registered, token, waiters>>
      BY <1>1 DEF Callback
    <2> QED BY <2>1, <2>2
  <1>2. CASE \E c \in Call : Advance(c)
    <2>1. woken => woken'
      BY <1>2, Zenon DEF Advance
    <2>2. UNCHANGED <<pc, queue, extra, registered, token, waiters>>
      BY <1>2 DEF Advance, queueVars
    <2> QED BY <2>1, <2>2
  <1>3. CASE CancelFlag \/ CancelWake
    BY <1>3 DEF CancelFlag, CancelWake, queueVars
  <1>4. CASE HostLeaves
    <2>1. TheHost # TheRun
      BY BatchAssumption DEF TheHost, TheRun
    <2> QED BY <1>4, <2>1 DEF HostLeaves, queueVars
  <1>5. CASE \E c \in Call : CallbackAgain(c)
    <2>1. woken \/ registered => woken'
      BY <1>5, Zenon DEF CallbackAgain
    <2>2. UNCHANGED <<pc, registered, token, waiters>>
      BY <1>5 DEF CallbackAgain
    <2> QED BY <2>1, <2>2
  <1> QED BY <1>1, <1>2, <1>3, <1>4, <1>5 DEF Outside

LEMMA WakeStep == WakeInv /\ [Next]_vars => WakeInv'
  <1> SUFFICES ASSUME WakeInv, [Next]_vars PROVE WakeInv'
    OBVIOUS
  <1>1. CASE Drive
    BY <1>1, OutsidePollStep, PollStep DEF Drive
  <1>2. CASE Outside
    BY <1>2, OutsideStep
  <1>3. CASE UNCHANGED vars
    BY <1>3 DEF vars, queueVars, tokenVars, WakeInv, HasUpdates, AbortWakes, Cancelled,
                Registered, Watching, Polling
  <1> QED BY <1>1, <1>2, <1>3 DEF Next

\* The waker invariant: a run that may park has its waker with the queue and,
\* until it is cancelled, its own waiter in the token (next_tool_step,
\* next_parallel_step, register_waker), whatever tools and threads do.
THEOREM WakeInvHolds == ASSUME RunFirst PROVE Spec => []WakeInv
  <1>1. Init => WakeInv
    BY WakeInit
  <1>2. WakeInv /\ [Next]_vars => WakeInv'
    BY WakeStep
  <1> QED BY <1>1, <1>2, PTL DEF Spec

\* A cancel() that has returned has woken the run that waits for its tools, so
\* a cancellation-unaware tool cannot leave it busy (register_waker).
THEOREM CancelWakesRun == ASSUME RunFirst PROVE Spec => []AbortWakes
  <1>1. WakeInv => AbortWakes
    BY DEF WakeInv
  <1> QED BY <1>1, WakeInvHolds, PTL

\* A progress callback from any thread wakes the run that waits for its tools,
\* so no update stays in the queue until a tool settles (PendingToolUpdates).
THEOREM CallbackWakesRun == ASSUME RunFirst PROVE Spec => []UpdateWakes
  <1>1. WakeInv => UpdateWakes
    BY DEF WakeInv, UpdateWakes, Polling
  <1> QED BY <1>1, WakeInvHolds, PTL

(***************************************************************************)
(* Sequences: how often an event occurs, and who is in a list of calls.    *)
(***************************************************************************)
Told(s, e) == {i \in DOMAIN s : s[i] = e}
Count(s, e) == Cardinality(Told(s, e))
Members(s) == {s[i] : i \in DOMAIN s}
Distinct(s) == \A i, j \in DOMAIN s : s[i] = s[j] => i = j
Once(b) == IF b THEN 1 ELSE 0

\* The positions of an event are finitely many, and none means it is absent.
LEMMA CountKnown ==
  ASSUME NEW S, NEW s \in Seq(S), NEW e
  PROVE  /\ IsFiniteSet(Told(s, e))
         /\ Count(s, e) \in Nat
         /\ Count(s, e) = 0 <=> e \notin Members(s)
  <1>1. IsFiniteSet(1 .. Len(s))
    BY FS_Interval
  <1>2. IsFiniteSet(Told(s, e))
    BY <1>1, FS_Subset, DOMAIN s = 1 .. Len(s) DEF Told
  <1>3. Count(s, e) \in Nat
    BY <1>2, FS_CardinalityType DEF Count
  <1>4. Count(s, e) = 0 <=> Told(s, e) = {}
    BY <1>2, FS_EmptySet DEF Count
  <1>5. Told(s, e) = {} <=> e \notin Members(s)
    BY DEF Told, Members
  <1> QED BY <1>2, <1>3, <1>4, <1>5

LEMMA CountSingle ==
  ASSUME NEW x, NEW e
  PROVE  /\ Count(<<x>>, e) = Once(x = e)
         /\ Count(<<>>, e) = 0
  <1>1. Told(<<x>>, e) = IF x = e THEN {1} ELSE {}
    BY DEF Told
  <1>2. Told(<<>>, e) = {}
    BY DEF Told
  <1> QED BY <1>1, <1>2, FS_Singleton, FS_EmptySet DEF Count, Once

\* What is appended is counted on top of what was there.
LEMMA CountConcat ==
  ASSUME NEW S, NEW s \in Seq(S), NEW t \in Seq(S), NEW e
  PROVE  Count(s \o t, e) = Count(s, e) + Count(t, e)
  <1> DEFINE Moved == {i \in DOMAIN (s \o t) : i > Len(s) /\ (s \o t)[i] = e}
             shift == [i \in Told(t, e) |-> Len(s) + i]
  <1>1. /\ IsFiniteSet(Told(s, e)) /\ Count(s, e) \in Nat
        /\ IsFiniteSet(Told(t, e)) /\ Count(t, e) \in Nat
    BY CountKnown
  <1>2. shift \in Bijection(Told(t, e), Moved)
    <2>1. \A i \in Told(t, e) : Len(s) + i \in Moved
      BY DEF Told
    <2>2. \A i, j \in Told(t, e) : Len(s) + i = Len(s) + j => i = j
      BY DEF Told
    <2>3. \A k \in Moved : k - Len(s) \in Told(t, e) /\ Len(s) + (k - Len(s)) = k
      BY DEF Told
    <2>4. shift \in [Told(t, e) -> Moved]
      BY <2>1
    <2>5. shift \in Injection(Told(t, e), Moved)
      BY <2>2, <2>4 DEF Injection, IsInjective
    <2>6. shift \in Surjection(Told(t, e), Moved)
      <3>1. \A k \in Moved : \E i \in Told(t, e) : shift[i] = k
        BY <2>3
      <3> QED BY <3>1, <2>4 DEF Surjection
    <2> QED BY <2>5, <2>6 DEF Bijection
  <1>3. IsFiniteSet(Moved) /\ Cardinality(Moved) = Count(t, e)
    BY <1>1, <1>2, FS_Bijection DEF ExistsBijection, Count
  <1>4. Told(s \o t, e) = Told(s, e) \cup Moved
    BY DEF Told
  <1>5. Told(s, e) \cap Moved = {}
    BY DEF Told
  <1>6. Cardinality(Told(s, e) \cup Moved) = Count(s, e) + Count(t, e)
    <2> HIDE DEF Moved, shift
    <2>1. Cardinality({}) = 0
      BY FS_EmptySet
    <2>2. Cardinality(Told(s, e) \cup Moved)
            = Cardinality(Told(s, e)) + Cardinality(Moved) - Cardinality(Told(s, e) \cap Moved)
      BY <1>1, <1>3, FS_Union
    <2>3. Cardinality(Told(s, e) \cap Moved) = 0
      BY <1>5, <2>1
    <2> QED BY <1>1, <1>3, <2>2, <2>3 DEF Count
  <1> QED BY <1>4, <1>6 DEF Count

\* A list of distinct calls without its head, with one more, without one.
LEMMA MembersTail ==
  ASSUME NEW S, NEW s \in Seq(S), s # <<>>
  PROVE  /\ Members(s) = Members(Tail(s)) \cup {Head(s)}
         /\ Tail(s) \in Seq(S) /\ Head(s) \in S
         /\ Distinct(s) => Distinct(Tail(s)) /\ Head(s) \notin Members(Tail(s))
  <1>1. Len(s) \in Nat \ {0} /\ DOMAIN s = 1 .. Len(s) /\ Head(s) = s[1]
    OBVIOUS
  <1>2. DOMAIN Tail(s) = 1 .. Len(s) - 1 /\ \A i \in 1 .. Len(s) - 1 : Tail(s)[i] = s[i + 1]
    OBVIOUS
  <1>3. Members(Tail(s)) \cup {Head(s)} \subseteq Members(s)
    BY <1>1, <1>2 DEF Members
  <1>4. Members(s) \subseteq Members(Tail(s)) \cup {Head(s)}
    <2> SUFFICES ASSUME NEW i \in 1 .. Len(s), i # 1 PROVE s[i] \in Members(Tail(s))
      BY <1>1 DEF Members
    <2>1. i - 1 \in 1 .. Len(s) - 1 /\ Tail(s)[i - 1] = s[i]
      BY <1>1, <1>2
    <2> QED BY <2>1, <1>2 DEF Members
  <1>5. Distinct(s) => Distinct(Tail(s)) /\ Head(s) \notin Members(Tail(s))
    BY <1>1, <1>2 DEF Distinct, Members
  <1> QED BY <1>3, <1>4, <1>5

LEMMA MembersAppend ==
  ASSUME NEW S, NEW s \in Seq(S), NEW x \in S
  PROVE  /\ Members(Append(s, x)) = Members(s) \cup {x}
         /\ Append(s, x) \in Seq(S)
         /\ Distinct(s) /\ x \notin Members(s) => Distinct(Append(s, x))
  <1>1. /\ DOMAIN s = 1 .. Len(s) /\ DOMAIN Append(s, x) = 1 .. Len(s) + 1
        /\ Append(s, x)[Len(s) + 1] = x /\ Len(s) \in Nat
        /\ \A i \in 1 .. Len(s) : Append(s, x)[i] = s[i]
    OBVIOUS
  <1>2. Members(Append(s, x)) = Members(s) \cup {x}
    BY <1>1 DEF Members
  <1>3. Distinct(s) /\ x \notin Members(s) => Distinct(Append(s, x))
    BY <1>1 DEF Members, Distinct
  <1> QED BY <1>2, <1>3

LEMMA MembersSwapRemove ==
  ASSUME NEW S, NEW s \in Seq(S), NEW i \in 1 .. Len(s)
  PROVE  /\ Members(s) = Members(SwapRemove(s, i)) \cup {s[i]}
         /\ SwapRemove(s, i) \in Seq(S)
         /\ Distinct(s) => /\ Distinct(SwapRemove(s, i))
                           /\ s[i] \notin Members(SwapRemove(s, i))
  <1> DEFINE t == SwapRemove(s, i)
  <1>1. /\ Len(s) \in Nat \ {0} /\ DOMAIN s = 1 .. Len(s)
        /\ \A j \in 1 .. Len(s) : s[j] \in S
    OBVIOUS
  <1>2. /\ DOMAIN t = 1 .. Len(s) - 1
        /\ \A j \in 1 .. Len(s) - 1 : t[j] = IF j = i THEN s[Len(s)] ELSE s[j]
    BY <1>1 DEF SwapRemove
  <1>3. t \in [1 .. Len(s) - 1 -> S]
    BY <1>1 DEF SwapRemove
  <1>4. t \in Seq(S)
    <2>1. Len(s) - 1 \in Nat
      BY <1>1
    <2> HIDE DEF t
    <2> QED BY <1>3, <2>1, SeqDef
  <1>5. Members(t) \cup {s[i]} \subseteq Members(s)
    BY <1>1, <1>2 DEF Members
  <1>6. Members(s) \subseteq Members(t) \cup {s[i]}
    <2> SUFFICES ASSUME NEW j \in 1 .. Len(s), j # i PROVE s[j] \in Members(t)
      BY <1>1 DEF Members
    <2>1. CASE j = Len(s)
      <3>1. i \in 1 .. Len(s) - 1 /\ t[i] = s[j]
        BY <2>1, <1>1, <1>2
      <3> QED BY <3>1, <1>2 DEF Members
    <2>2. CASE j # Len(s)
      <3> HIDE DEF t
      <3>1. j \in 1 .. Len(s) - 1
        <4>1. Len(s) \in Nat /\ j \in Nat /\ 1 <= j /\ j <= Len(s)
          BY <1>1
        <4> QED BY <4>1, <2>2
      <3>2. t[j] = s[j]
        BY <3>1, <1>2
      <3> QED BY <3>1, <3>2, <1>2 DEF Members
    <2> QED BY <2>1, <2>2
  <1>7. Distinct(s) => Distinct(t) /\ s[i] \notin Members(t)
    BY <1>1, <1>2 DEF Distinct, Members
  <1> HIDE DEF t
  <1>8. Members(s) = Members(t) \cup {s[i]}
    BY <1>5, <1>6
  <1> QED BY <1>4, <1>7, <1>8 DEF t

LEMMA MembersKnown ==
  /\ Members(<<>>) = {} /\ Distinct(<<>>)
  /\ \A x : Members(<<x>>) = {x} /\ Distinct(<<x>>)
  BY DEF Members, Distinct

(***************************************************************************)
(* Every variable holds a value of its type.                               *)
(***************************************************************************)
LEMMA TypeInit == Init => TypeOK
  <1> SUFFICES ASSUME Init PROVE TypeOK
    OBVIOUS
  <1>1. 1 \in Call /\ TheRun \notin Call /\ waiters \subseteq {TheRun, TheHost}
    BY BatchAssumption DEF Init, Call, TheRun, TheHost
  <1>2. MaxUpdates \in Nat /\ 0 \in 0 .. MaxUpdates
    BY BatchAssumption
  <1>3. completion \in [Call -> Completions] /\ stage \in [Call -> Stages]
    BY DEF Init, Completions, Stages
  <1>4. accepted \in [Call -> 0 .. MaxUpdates]
    BY <1>2 DEF Init
  <1>5. <<>> \in Seq(Events) /\ <<>> \in Seq(Call)
    OBVIOUS
  <1>6. /\ log \in Seq(Events) /\ out \in Seq(Events) /\ queue \in Seq(Events)
        /\ prepared \in Seq(Call) /\ pending \in Seq(Call) /\ todo \in Seq(Call)
    BY <1>5 DEF Init
  <1>7. /\ pc \in Labels /\ mode \in Modes /\ current \in Call /\ settling \in Call
        /\ index \in Nat \ {0}
        /\ updated \subseteq Call /\ allowed \subseteq Call
        /\ closed \subseteq Call /\ extra \subseteq Call
        /\ registered \in BOOLEAN /\ woken \in BOOLEAN
        /\ token \in {"live", "flagged", "cancelled"} /\ polled \subseteq Call
    <2>1. pc \in Labels /\ mode \in Modes /\ index \in Nat \ {0}
      BY DEF Init, Labels
    <2>2. current \in Call /\ settling \in Call
      BY <1>1 DEF Init
    <2>3. /\ updated \subseteq Call /\ allowed \subseteq Call
          /\ closed \subseteq Call /\ extra \subseteq Call
          /\ registered \in BOOLEAN /\ woken \in BOOLEAN
          /\ token \in {"live", "flagged", "cancelled"} /\ polled \subseteq Call
      BY Zenon DEF Init
    <2> QED BY <2>1, <2>2, <2>3
  <1> QED BY <1>1, <1>3, <1>4, <1>6, <1>7 DEF TypeOK

LEMMA CallIs == /\ Call = 1 .. Width /\ Width \in Nat \ {0} /\ Call \subseteq Nat
                /\ \A kind \in {"start", "update", "end", "result"}, c \in Call :
                       /\ Event(kind, c) \in Events
                       /\ <<Event(kind, c)>> \in Seq(Events)
  BY BatchAssumption DEF Call, Events, Event

\* What a poll finds keeps the types.
LEMMA FindTypes ==
  ASSUME TypeOK,
         FoundUpdates \/ GiveUp \/ ReportCancelled
  PROVE  /\ out' \in Seq(Events) /\ queue' \in Seq(Events)
         /\ pc' \in Labels /\ settling' \in Call
         /\ pending' \in Seq(Call) /\ todo' \in Seq(Call)
         /\ completion' \in [Call -> Completions] /\ index' \in Nat \ {0}
         /\ updated' \subseteq Call /\ allowed' \subseteq Call
         /\ closed' \subseteq Call /\ extra' \subseteq Call
         /\ registered' \in BOOLEAN
         /\ accepted' \in [Call -> 0 .. MaxUpdates]
  <1>1. \A i \in DOMAIN queue : queue[i] \in Events
    BY DEF TypeOK
  <1>2. CallsOf(queue) \subseteq Call
    BY <1>1 DEF CallsOf, Events
  <1>3. CASE FoundUpdates
    BY <1>2, <1>3 DEF FoundUpdates, TakeUpdates, TypeOK, Labels
  <1>4. CASE GiveUp
    BY <1>4 DEF GiveUp, TakeUpdates, TypeOK, Labels, Completions
  <1>5. CASE ReportCancelled
    BY <1>5 DEF ReportCancelled, TakeUpdates, TypeOK, Labels
  <1> QED BY <1>3, <1>4, <1>5

\* A poll of a future, ready or not.
LEMMA FutureTypes ==
  ASSUME TypeOK, NEW c \in Call, ReadyPoll(c) \/ PendingPoll(c)
  PROVE  /\ stage' \in [Call -> Stages] /\ polled' \subseteq Call
         /\ token' \in {"live", "flagged", "cancelled"} /\ woken' \in BOOLEAN
         /\ waiters' \subseteq Call \cup {TheRun, TheHost}
         /\ allowed \ {c} \subseteq Call /\ Spend(c) \subseteq Call
  <1>1. CASE ReadyPoll(c)
    BY <1>1 DEF ReadyPoll, TypeOK, Stages, Spend
  <1>2. CASE PendingPoll(c)
    <2>1. waiters' \in {waiters \cup {c}, waiters \ {c}, waiters}
      BY <1>2, Zenon DEF PendingPoll
    <2>2. stage' \in [Call -> Stages]
      BY <1>2 DEF PendingPoll, TypeOK, Stages
    <2>3. polled' \subseteq Call /\ UNCHANGED <<token, woken>>
      BY <1>2 DEF PendingPoll, TypeOK
    <2> QED BY <2>1, <2>2, <2>3 DEF TypeOK, Spend
  <1> QED BY <1>1, <1>2

LEMMA TypeOfPlanning ==
  ASSUME TypeOK,
         \/ Publish \/ Announce \/ PrepareImmediate \/ PrepareExecution
         \/ Launch \/ AllowOnePoll
  PROVE  TypeOK'
  <1>1. CASE Publish
    BY <1>1 DEF Publish, TypeOK, planVars, pollVars, queueVars, tokenVars, toolVars
  <1>2. CASE Announce
    <2>1. out' \in Seq(Events)
      BY <1>2, CallIs DEF Announce, TypeOK
    <2> QED BY <1>2, <2>1 DEF Announce, TypeOK, Labels, planVars, pollVars, queueVars, tokenVars, toolVars
  <1>3. CASE PrepareImmediate
    <2>1. out' \in Seq(Events)
      BY <1>3, CallIs DEF PrepareImmediate, TypeOK
    <2>2. pc' \in Labels /\ current' \in Call
      BY <1>3, CallIs DEF PrepareImmediate, AfterPreparation, Step, TypeOK, Labels
    <2>3. completion' \in [Call -> Completions]
      BY <1>3 DEF PrepareImmediate, TypeOK, Completions
    <2> QED BY <1>3, <2>1, <2>2, <2>3 DEF PrepareImmediate, TypeOK, pollVars, queueVars, tokenVars, toolVars
  <1>4. CASE PrepareExecution
    <2>1. pc' \in Labels /\ current' \in Call
      BY <1>4, CallIs DEF PrepareExecution, AfterPreparation, Step, TypeOK, Labels
    <2>2. prepared' \in Seq(Call)
      BY <1>4 DEF PrepareExecution, TypeOK
    <2> QED BY <1>4, <2>1, <2>2 DEF PrepareExecution, TypeOK, logVars, pollVars, queueVars, tokenVars, toolVars
  <1>5. CASE Launch
    <2>1. pc' \in Labels
      BY <1>5 DEF Launch, Labels
    <2>2. current' \in Call
      BY <1>5, CallIs DEF Launch, TypeOK
    <2>3. stage' \in [Call -> Stages]
      BY <1>5 DEF Launch, TypeOK, Stages
    <2> QED BY <1>5, <2>1, <2>2, <2>3 DEF Launch, TypeOK, logVars, queueVars, tokenVars
  <1>6. CASE AllowOnePoll
    BY <1>6 DEF AllowOnePoll, TypeOK, Labels, logVars, planVars, queueVars, tokenVars, toolVars
  <1> QED BY <1>1, <1>2, <1>3, <1>4, <1>5, <1>6

LEMMA TypeOfPolling ==
  ASSUME TypeOK,
         \/ Take \/ RegisterForUpdates \/ RegisterForCancellation \/ Recheck
         \/ PassOver \/ PollReady \/ PollPending \/ AfterPoll \/ EndOfPoll
         \/ Resume
  PROVE  TypeOK'
  <1>1. CASE Take
    <2>1. log' \in Seq(Events) /\ mode' \in Modes /\ current' \in Call /\ prepared' \in Seq(Call)
          /\ woken' \in BOOLEAN /\ token' \in {"live", "flagged", "cancelled"}
          /\ waiters' \subseteq Call \cup {TheRun, TheHost}
          /\ stage' \in [Call -> Stages] /\ polled' \subseteq Call
      BY <1>1 DEF Take, TypeOK, toolVars
    <2>2. CASE FoundUpdates \/ GiveUp \/ ReportCancelled
      BY <2>1, <2>2, FindTypes DEF TypeOK
    <2>3. CASE pc' = "register" /\ UNCHANGED <<out, completion, settling, pollVars, queueVars>>
      BY <2>1, <2>3 DEF TypeOK, Labels, pollVars, queueVars
    <2> QED BY <1>1, <2>2, <2>3, Zenon DEF Take, Check
  <1>2. CASE RegisterForUpdates
    BY <1>2 DEF RegisterForUpdates, TypeOK, Labels, logVars, planVars, pollVars, tokenVars, toolVars
  <1>3. CASE RegisterForCancellation
    BY <1>3 DEF RegisterForCancellation, TypeOK, Labels, logVars, planVars, pollVars, queueVars, toolVars
  <1>4. CASE Recheck \/ AfterPoll \/ EndOfPoll
    <2>1. log' \in Seq(Events) /\ mode' \in Modes /\ current' \in Call /\ prepared' \in Seq(Call)
          /\ woken' \in BOOLEAN /\ token' \in {"live", "flagged", "cancelled"}
          /\ waiters' \subseteq Call \cup {TheRun, TheHost}
          /\ stage' \in [Call -> Stages] /\ polled' \subseteq Call
      BY <1>4 DEF Recheck, AfterPoll, EndOfPoll, TypeOK, tokenVars, toolVars
    <2>2. CASE FoundUpdates \/ GiveUp \/ ReportCancelled
      BY <2>1, <2>2, FindTypes DEF TypeOK
    <2>3. CASE /\ pc' \in {"poll", "parked"} /\ index' \in {1, index}
               /\ UNCHANGED <<out, completion, settling, pending, updated, todo,
                              allowed, queueVars>>
      BY <2>1, <2>3 DEF TypeOK, Labels, queueVars
    <2> QED BY <1>4, <2>2, <2>3 DEF Recheck, AfterPoll, EndOfPoll, pollVars
  <1>5. CASE PassOver
    BY <1>5 DEF PassOver, TypeOK, logVars, planVars, queueVars, tokenVars, toolVars
  <1>6. CASE PollReady
    <2> PICK c \in Call :
             /\ Ready("poll") /\ index <= Len(pending) /\ c = pending[index]
             /\ MayPoll(c) /\ ReadyPoll(c)
             /\ allowed' = Spend(c)
             /\ pending' = SwapRemove(pending, index)
             /\ closed' = closed \cup {c}
             /\ TakeUpdates
             /\ completion' = [completion EXCEPT ![c] = "executed"]
             /\ settling' = c
             /\ pc' = "settle"
             /\ UNCHANGED <<log, mode, current, prepared, index, updated, todo>>
      BY <1>6, Zenon DEF PollReady
    <2>1. pending' \in Seq(Call)
      BY MembersSwapRemove DEF TypeOK
    <2>2. /\ out' \in Seq(Events) /\ queue' \in Seq(Events) /\ extra' \subseteq Call
          /\ UNCHANGED <<registered, accepted>>
      BY DEF TakeUpdates, TypeOK
    <2>3. completion' \in [Call -> Completions]
      BY DEF TypeOK, Completions
    <2> QED BY <2>1, <2>2, <2>3, FutureTypes DEF TypeOK, Labels
  <1>7. CASE PollPending
    <2> PICK c \in Call :
             /\ Ready("poll") /\ PendingPoll(c)
             /\ allowed' = Spend(c)
             /\ index' = index + 1
             /\ pc' = "polled"
             /\ UNCHANGED <<logVars, planVars, pending, updated, todo, queueVars>>
      BY <1>7, Zenon DEF PollPending
    <2> QED BY FutureTypes DEF TypeOK, Labels, logVars, planVars, queueVars
  <1>8. CASE Resume
    BY <1>8 DEF Resume, TypeOK, Labels, logVars, planVars, pollVars, queueVars, tokenVars, toolVars
  <1> QED BY <1>1, <1>2, <1>3, <1>4, <1>5, <1>6, <1>7, <1>8

LEMMA TypeOfSettling ==
  ASSUME TypeOK,
         \/ UpdatesDone \/ KeepRunning \/ SettleSibling \/ SiblingsDone
         \/ \E label \in {"sibling", "settle"} : Flush(label)
         \/ EndSibling \/ EndCall \/ AbortPending \/ AllAborted
         \/ AppendResult \/ Answer \/ Observe \/ SkipCall
  PROVE  TypeOK'
  <1>1. CASE UpdatesDone
    <2>1. pc' \in Labels /\ todo' \in Seq(Call) /\ pending' \in Seq(Call)
      <3>1. CASE mode = "parallel" /\ Cancelled
        <4>1. todo' = pending /\ pending' = <<>> /\ pc' = "siblings"
          BY <1>1, <3>1, Zenon DEF UpdatesDone
        <4> QED BY <4>1 DEF TypeOK, Labels
      <3>2. CASE ~(mode = "parallel" /\ Cancelled)
        <4>1. todo' = todo /\ pending' = pending /\ pc' = "take"
          BY <1>1, <3>2, Zenon DEF UpdatesDone
        <4> QED BY <4>1 DEF TypeOK, Labels
      <3> QED BY <3>1, <3>2
    <2>2. allowed' \subseteq Call
      BY <1>1 DEF UpdatesDone, TypeOK
    <2> QED BY <1>1, <2>1, <2>2 DEF UpdatesDone, TypeOK, logVars, planVars, queueVars, tokenVars, toolVars
  <1>2. CASE KeepRunning
    <2>1. pending' \in Seq(Call) /\ todo' \in Seq(Call)
      BY <1>2, MembersTail, MembersAppend DEF KeepRunning, TypeOK
    <2> QED BY <1>2, <2>1 DEF KeepRunning, TypeOK, logVars, planVars, queueVars, tokenVars, toolVars
  <1>3. CASE SettleSibling
    <2> PICK c \in Call :
             /\ todo # <<>>
             /\ ReadyPoll(c) \/ PendingPoll(c)
             /\ \/ completion' = [completion EXCEPT ![c] = "executed"]
                \/ completion' = [completion EXCEPT ![c] = "aborted"]
             /\ closed' = closed \cup {c}
             /\ TakeUpdates
             /\ todo' = Tail(todo)
             /\ settling' = c
             /\ pc' = "sibling"
             /\ UNCHANGED <<log, mode, current, prepared, pending, index, updated, allowed>>
      BY <1>3, Zenon DEF SettleSibling
    <2>1. todo' \in Seq(Call)
      BY MembersTail DEF TypeOK
    <2>2. /\ out' \in Seq(Events) /\ queue' \in Seq(Events) /\ extra' \subseteq Call
          /\ UNCHANGED <<registered, accepted>>
      BY DEF TakeUpdates, TypeOK
    <2>3. completion' \in [Call -> Completions]
      BY DEF TypeOK, Completions
    <2> QED BY <2>1, <2>2, <2>3, FutureTypes DEF TypeOK, Labels
  <1>4. CASE SiblingsDone
    <2>1. \A i \in DOMAIN pending : pending[i] \in Call
      BY DEF TypeOK
    <2>2. allowed' \subseteq Call
      BY <1>4, <2>1 DEF SiblingsDone, TypeOK
    <2>3. pc' \in Labels /\ current' \in Call
      BY <1>4, CallIs DEF SiblingsDone, AfterSettling, NextCurrent, TypeOK, Labels
    <2> QED BY <1>4, <2>2, <2>3 DEF SiblingsDone, TypeOK, logVars, queueVars, tokenVars, toolVars
  <1>5. CASE \E label \in {"sibling", "settle"} : Flush(label)
    BY <1>5 DEF Flush, TakeUpdates, TypeOK, planVars, pollVars, tokenVars, toolVars
  <1>6. CASE EndSibling \/ EndCall
    <2>1. out' \in Seq(Events)
      <3>1. settling \in Call /\ out' = <<Event("end", settling)>>
        BY <1>6, Zenon DEF EndSibling, EndCall, TypeOK
      <3> QED BY <3>1, CallIs
    <2>2. pc' \in Labels /\ current' \in Call
      <3>1. /\ pc' \in {"siblings", "answer", "append", "take"}
            /\ current' \in {current, 1}
        BY <1>6 DEF EndSibling, EndCall, AfterSettling, NextCurrent, planVars
      <3> QED BY <3>1, CallIs DEF TypeOK, Labels
    <2>3. stage' \in [Call -> Stages]
      BY <1>6 DEF EndSibling, EndCall, TypeOK, Stages
    <2> QED BY <1>6, <2>1, <2>2, <2>3 DEF EndSibling, EndCall, TypeOK, planVars, pollVars, queueVars, tokenVars
  <1>7. CASE AbortPending
    <2> DEFINE c == Head(pending)
    <2>1. c \in Call /\ pending' \in Seq(Call)
      BY <1>7, MembersTail DEF AbortPending, TypeOK
    <2>2. /\ out' = <<Event("end", c)>> /\ closed' = closed \cup {c}
          /\ completion' = [completion EXCEPT ![c] = "aborted"]
          /\ stage' = [stage EXCEPT ![c] = "gone"]
      BY <1>7 DEF AbortPending
    <2>3. UNCHANGED <<log, pc, mode, current, prepared, settling, index, updated,
                      todo, allowed, queue, extra, registered, accepted,
                      tokenVars, polled>>
      BY <1>7 DEF AbortPending
    <2> HIDE DEF c
    <2>4. out' \in Seq(Events)
      BY <2>1, <2>2, CallIs
    <2> QED BY <2>1, <2>2, <2>3, <2>4 DEF TypeOK, Stages, Completions, tokenVars
  <1>8. CASE AllAborted
    <2>1. pc' \in Labels /\ current' \in Call
      BY <1>8, CallIs DEF AllAborted, Labels
    <2> QED BY <1>8, <2>1 DEF AllAborted, TypeOK, logVars, pollVars, queueVars, tokenVars, toolVars
  <1>9. CASE AppendResult \/ Answer \/ SkipCall
    <2>1. out' \in Seq(Events)
      <3>1. current \in Call /\ out' = <<Event("result", current)>>
        BY <1>9, Zenon DEF AppendResult, Answer, SkipCall, TypeOK
      <3> QED BY <3>1, CallIs
    <2>2. pc' \in Labels /\ current' \in Call
      <3>1. /\ pc' \in {"append", "skip", "done", "observe"}
            /\ current' = current \/ (current < Width /\ current' = current + 1)
        BY <1>9 DEF AppendResult, Answer, SkipCall, Ready, planVars
      <3> QED BY <3>1, CallIs DEF TypeOK, Labels
    <2>3. completion' \in [Call -> Completions]
      BY <1>9 DEF AppendResult, Answer, SkipCall, TypeOK, Completions, planVars
    <2> QED BY <1>9, <2>1, <2>2, <2>3 DEF AppendResult, Answer, SkipCall, TypeOK, planVars, pollVars, queueVars, tokenVars, toolVars
  <1>10. CASE Observe
    <2>1. pc' \in Labels /\ current' \in Call
      BY <1>10, CallIs DEF Observe, AfterResult, Step, TypeOK, Labels
    <2> QED BY <1>10, <2>1 DEF Observe, TypeOK, logVars, pollVars, queueVars, tokenVars, toolVars
  <1> QED BY <1>1, <1>2, <1>3, <1>4, <1>5, <1>6, <1>7, <1>8, <1>9, <1>10

LEMMA TypeOfOutside == ASSUME TypeOK, Outside PROVE TypeOK'
  <1>1. ASSUME NEW c \in Call, Callback(c) PROVE TypeOK'
    <2>1. queue' \in Seq(Events)
      BY <1>1, CallIs DEF Callback, TypeOK
    <2>2. accepted' \in [Call -> 0 .. MaxUpdates]
      BY <1>1, BatchAssumption DEF Callback, TypeOK
    <2>3. woken' \in BOOLEAN
      BY <1>1 DEF Callback, TypeOK
    <2> QED BY <1>1, <2>1, <2>2, <2>3 DEF Callback, TypeOK, logVars, planVars, pollVars, toolVars
  <1>2. ASSUME NEW c \in Call, Advance(c) PROVE TypeOK'
    <2>1. woken' \in BOOLEAN
      BY <1>2 DEF Advance, TypeOK
    <2>2. stage' \in [Call -> Stages]
      BY <1>2 DEF Advance, TypeOK, Stages
    <2> QED BY <1>2, <2>1, <2>2 DEF Advance, TypeOK, logVars, planVars, pollVars, queueVars
  <1>3. CASE CancelFlag \/ CancelWake \/ HostLeaves
    BY <1>3 DEF CancelFlag, CancelWake, HostLeaves, TypeOK, logVars, planVars, pollVars, queueVars, toolVars
  <1>4. ASSUME NEW c \in Call, CallbackAgain(c) PROVE TypeOK'
    <2>1. woken' \in BOOLEAN /\ extra' \subseteq Call
      BY <1>4 DEF CallbackAgain, TypeOK
    <2> QED BY <1>4, <2>1 DEF CallbackAgain, TypeOK, logVars, planVars, pollVars, toolVars
  <1> QED BY <1>1, <1>2, <1>3, <1>4 DEF Outside

LEMMA TypeStep == TypeOK /\ [Next]_vars => TypeOK'
  <1> SUFFICES ASSUME TypeOK, [Next]_vars PROVE TypeOK'
    OBVIOUS
  <1>1. CASE Drive
    BY <1>1, TypeOfPlanning, TypeOfPolling, TypeOfSettling DEF Drive
  <1>2. CASE Outside
    BY <1>2, TypeOfOutside
  <1>3. CASE UNCHANGED vars
    BY <1>3 DEF vars, logVars, planVars, pollVars, queueVars, tokenVars, toolVars, TypeOK
  <1> QED BY <1>1, <1>2, <1>3 DEF Next

(***************************************************************************)
(* The batch as a ledger.  `Said' is what was decided to be published; a   *)
(* call is announced, ended and answered in it exactly when the place of   *)
(* the task says so, and an accepted update is in it or in the queue.      *)
(***************************************************************************)
Said == log \o out

\* In a sequential batch, from the preparation of a call to its end.
InCall == {"launch", "launched", "take", "register", "watch", "recheck",
           "poll", "polled", "parked", "updates", "settle"}

Announced(c) ==
    CASE pc = "announce" -> c < current
      [] pc = "append"   -> TRUE
      [] pc = "skip"     -> c < current /\ completion[c] # "skipped"
      [] pc = "done"     -> completion[c] # "skipped"
      [] OTHER           -> c <= current

\* Announced calls whose end is still to be published.
Held ==
    IF mode = "sequential"
    THEN IF pc \in InCall \cup {"prepare"} THEN {current} ELSE {}
    ELSE Members(prepared) \cup Members(pending) \cup Members(todo)
         \cup (IF pc \in {"settle", "sibling"} THEN {settling} ELSE {})
         \cup (IF pc = "prepare" THEN {current} ELSE {})

Ended(c) == Announced(c) /\ c \notin Held

Answered(c) ==
    \/ pc = "done"
    \/ pc = "append" /\ c < current
    \/ /\ mode = "sequential" /\ pc \notin {"append", "done"}
       /\ c < current \/ (pc = "observe" /\ c = current)

Ledger ==
    \A c \in Call :
        /\ Count(Said, Event("start", c)) = Once(Announced(c))
        /\ Count(Said, Event("end", c)) = Once(Ended(c))
        /\ Count(Said, Event("result", c)) = Once(Answered(c))
        /\ Count(Said, Event("update", c)) + Count(queue, Event("update", c))
               = accepted[c]

\* CallOrder and ResultsInOrder of what was said, published or not.
Follows(e, f) == Rank(e.kind) < Rank(f.kind) \/ (e.kind = "update" /\ f.kind = "update")
Ranked(s) ==
    \A i, j \in DOMAIN s : i < j /\ s[i].call = s[j].call => Follows(s[i], s[j])
Precedes(s, e, f) == \A i, j \in DOMAIN s : s[i] = e /\ s[j] = f => i < j
InOrder ==
    /\ Ranked(Said)
    /\ \A c, d \in Call :
          /\ c < d => Precedes(Said, Event("result", c), Event("result", d))
          /\ mode = "parallel" => Precedes(Said, Event("end", c), Event("result", d))
          /\ mode = "sequential" /\ c < d =>
                 Precedes(Said, Event("result", c), Event("start", d))

LEMMA PrecedesConcat ==
  ASSUME NEW S, NEW s \in Seq(S), NEW t \in Seq(S), NEW e, NEW f,
         Precedes(s, e, f),
         e \notin Members(t) \/ f \notin Members(s) \cup Members(t)
  PROVE  Precedes(s \o t, e, f)
  <1>1. /\ DOMAIN (s \o t) = 1 .. Len(s) + Len(t) /\ Len(s) \in Nat /\ Len(t) \in Nat
        /\ DOMAIN s = 1 .. Len(s) /\ DOMAIN t = 1 .. Len(t)
        /\ \A i \in 1 .. Len(s) : (s \o t)[i] = s[i]
        /\ \A i \in Len(s) + 1 .. Len(s) + Len(t) : (s \o t)[i] = t[i - Len(s)]
    OBVIOUS
  <1> SUFFICES ASSUME NEW i \in 1 .. Len(s) + Len(t), NEW j \in 1 .. Len(s) + Len(t),
                      (s \o t)[i] = e, (s \o t)[j] = f
               PROVE  i < j
    BY <1>1 DEF Precedes
  <1>2. \A k \in 1 .. Len(s) + Len(t) : k \notin 1 .. Len(s) =>
           /\ k \in Len(s) + 1 .. Len(s) + Len(t) /\ k - Len(s) \in 1 .. Len(t)
           /\ (s \o t)[k] \in Members(t)
    BY <1>1 DEF Members
  <1>3. \A k \in 1 .. Len(s) : (s \o t)[k] = s[k] /\ s[k] \in Members(s)
    BY <1>1 DEF Members
  <1>4. CASE i \in 1 .. Len(s) /\ j \in 1 .. Len(s)
    BY <1>1, <1>3, <1>4 DEF Precedes
  <1>5. CASE i \in 1 .. Len(s) /\ j \notin 1 .. Len(s)
    BY <1>1, <1>2, <1>5
  <1>6. CASE i \notin 1 .. Len(s)
    <2>1. e \in Members(t)
      BY <1>2, <1>6
    <2>2. f \in Members(s) \cup Members(t)
      BY <1>2, <1>3
    <2> QED BY <2>1, <2>2
  <1> QED BY <1>4, <1>5, <1>6

LEMMA RankedConcat ==
  ASSUME NEW S, NEW s \in Seq(S), NEW t \in Seq(S), Ranked(s), Ranked(t),
         \A x \in Members(s), y \in Members(t) : x.call = y.call => Follows(x, y)
  PROVE  Ranked(s \o t)
  <1>1. /\ DOMAIN (s \o t) = 1 .. Len(s) + Len(t) /\ Len(s) \in Nat /\ Len(t) \in Nat
        /\ DOMAIN s = 1 .. Len(s) /\ DOMAIN t = 1 .. Len(t)
        /\ \A i \in 1 .. Len(s) : (s \o t)[i] = s[i]
        /\ \A i \in Len(s) + 1 .. Len(s) + Len(t) : (s \o t)[i] = t[i - Len(s)]
    OBVIOUS
  <1> SUFFICES ASSUME NEW i \in 1 .. Len(s) + Len(t), NEW j \in 1 .. Len(s) + Len(t),
                      i < j, (s \o t)[i].call = (s \o t)[j].call
               PROVE  Follows((s \o t)[i], (s \o t)[j])
    BY <1>1 DEF Ranked
  <1>2. \A k \in 1 .. Len(s) + Len(t) : k \notin 1 .. Len(s) =>
           /\ k - Len(s) \in 1 .. Len(t)
           /\ (s \o t)[k] = t[k - Len(s)]
           /\ (s \o t)[k] \in Members(t)
    BY <1>1 DEF Members
  <1>3. \A k \in 1 .. Len(s) : (s \o t)[k] = s[k] /\ s[k] \in Members(s)
    BY <1>1 DEF Members
  <1>4. CASE i \in 1 .. Len(s) /\ j \in 1 .. Len(s)
    BY <1>1, <1>3, <1>4 DEF Ranked
  <1>5. CASE i \in 1 .. Len(s) /\ j \notin 1 .. Len(s)
    BY <1>2, <1>3, <1>5
  <1>6. CASE i \notin 1 .. Len(s)
    <2>1. j \notin 1 .. Len(s)
      BY <1>6, <1>1
    <2>2. i - Len(s) < j - Len(s)
      BY <1>1
    <2> QED BY <1>1, <1>2, <1>6, <2>1, <2>2 DEF Ranked
  <1> QED BY <1>4, <1>5, <1>6

\* What a step says of the calls: nothing, or one more mark of one call.
Marks(kind, c) ==
    \A d \in Call :
        /\ Announced(d)' <=> Announced(d) \/ (kind = "start" /\ d = c)
        /\ Ended(d)' <=> Ended(d) \/ (kind = "end" /\ d = c)
        /\ Answered(d)' <=> Answered(d) \/ (kind = "result" /\ d = c)

\* The ledger tells which events were said.
LEMMA LedgerSays ==
  ASSUME TypeOK, Ledger, NEW c \in Call
  PROVE  /\ Event("start", c) \in Members(Said) <=> Announced(c)
         /\ Event("end", c) \in Members(Said) <=> Ended(c)
         /\ Event("result", c) \in Members(Said) <=> Answered(c)
         /\ Event("update", c) \in Members(Said) \cup Members(queue) => accepted[c] # 0
  <1>1. Said \in Seq(Events) /\ queue \in Seq(Events)
    BY DEF TypeOK, Said
  <1>2. \A e : /\ Count(Said, e) \in Nat /\ Count(queue, e) \in Nat
               /\ Count(Said, e) = 0 <=> e \notin Members(Said)
               /\ Count(queue, e) = 0 <=> e \notin Members(queue)
    BY <1>1, CountKnown
  <1>3. /\ Count(Said, Event("start", c)) = Once(Announced(c))
        /\ Count(Said, Event("end", c)) = Once(Ended(c))
        /\ Count(Said, Event("result", c)) = Once(Answered(c))
        /\ Count(Said, Event("update", c)) + Count(queue, Event("update", c)) = accepted[c]
    BY DEF Ledger
  <1> QED BY <1>2, <1>3 DEF Once

\* Events are their kind and call.
LEMMA EventIs ==
  ASSUME NEW k, NEW l, NEW c, NEW d
  PROVE  /\ Event(k, c) = Event(l, d) <=> k = l /\ c = d
         /\ Event(k, c).kind = k /\ Event(k, c).call = c
  BY DEF Event

LEMMA Balance ==
  ASSUME NEW said \in Nat, NEW more \in Nat, NEW queued \in Nat, NEW left \in Nat,
         NEW had \in Nat, NEW has \in Nat,
         more + left - has = queued - had, said + queued = had
  PROVE  (said + more) + left = has
  OBVIOUS

\* The ledger after something was appended to what was said.
LEMMA LedgerGrows ==
  ASSUME TypeOK, Ledger, TypeOK', NEW t \in Seq(Events), Said' = Said \o t,
         \A c \in Call :
            /\ Count(t, Event("start", c)) = Once(Announced(c)') - Once(Announced(c))
            /\ Count(t, Event("end", c)) = Once(Ended(c)') - Once(Ended(c))
            /\ Count(t, Event("result", c)) = Once(Answered(c)') - Once(Answered(c))
            /\ Count(t, Event("update", c)) + Count(queue', Event("update", c)) - accepted'[c]
                  = Count(queue, Event("update", c)) - accepted[c]
  PROVE  Ledger'
  <1>1. Said \in Seq(Events) /\ queue \in Seq(Events) /\ queue' \in Seq(Events)
    BY DEF TypeOK, Said
  <1>2. \A e : /\ Count(Said \o t, e) = Count(Said, e) + Count(t, e)
               /\ Count(Said, e) \in Nat /\ Count(t, e) \in Nat
               /\ Count(queue, e) \in Nat /\ Count(queue', e) \in Nat
    BY <1>1, CountConcat, CountKnown
  <1> SUFFICES ASSUME NEW c \in Call
               PROVE  /\ Count(Said', Event("start", c)) = Once(Announced(c)')
                      /\ Count(Said', Event("end", c)) = Once(Ended(c)')
                      /\ Count(Said', Event("result", c)) = Once(Answered(c)')
                      /\ Count(Said', Event("update", c)) + Count(queue', Event("update", c))
                             = accepted'[c]
    BY DEF Ledger, Event, Once, Count, Told
  <1>3. accepted[c] \in Nat /\ accepted'[c] \in Nat
    BY BatchAssumption DEF TypeOK
  <1>4. /\ Once(Announced(c)) \in Nat /\ Once(Ended(c)) \in Nat /\ Once(Answered(c)) \in Nat
        /\ Once(Announced(c)') \in Nat /\ Once(Ended(c)') \in Nat /\ Once(Answered(c)') \in Nat
    BY DEF Once
  <1>5. /\ Count(Said, Event("start", c)) = Once(Announced(c))
        /\ Count(Said, Event("end", c)) = Once(Ended(c))
        /\ Count(Said, Event("result", c)) = Once(Answered(c))
        /\ Count(Said, Event("update", c)) + Count(queue, Event("update", c)) = accepted[c]
    BY DEF Ledger
  <1>6. \A e : Count(Said', e) = Count(Said, e) + Count(t, e)
    BY <1>2
  <1>7. Count(Said', Event("start", c)) = Once(Announced(c)')
    BY <1>2, <1>4, <1>5, <1>6
  <1>8. Count(Said', Event("end", c)) = Once(Ended(c)')
    BY <1>2, <1>4, <1>5, <1>6
  <1>9. Count(Said', Event("result", c)) = Once(Answered(c)')
    BY <1>2, <1>4, <1>5, <1>6
  <1>10. Count(Said', Event("update", c)) + Count(queue', Event("update", c)) = accepted'[c]
    <2> DEFINE u == Event("update", c)
    <2>1. Count(t, u) + Count(queue', u) - accepted'[c] = Count(queue, u) - accepted[c]
      OBVIOUS
    <2>2. Count(Said, u) + Count(queue, u) = accepted[c]
      BY <1>5
    <2>3. Count(Said', u) = Count(Said, u) + Count(t, u)
      BY <1>6
    <2>4. /\ Count(Said, u) \in Nat /\ Count(t, u) \in Nat
          /\ Count(queue, u) \in Nat /\ Count(queue', u) \in Nat
      BY <1>2
    <2> DEFINE said == Count(Said, u)
               more == Count(t, u)
               queued == Count(queue, u)
               left == Count(queue', u)
               had == accepted[c]
               has == accepted'[c]
    <2>5. /\ said \in Nat /\ more \in Nat /\ queued \in Nat /\ left \in Nat
          /\ had \in Nat /\ has \in Nat
          /\ more + left - has = queued - had
          /\ said + queued = had
          /\ Count(Said', u) = said + more
      BY <1>3, <2>1, <2>2, <2>3, <2>4
    <2> HIDE DEF said, more, queued, left, had, has
    <2>6. (said + more) + left = has
      BY <2>5, Balance
    <2> QED BY <2>5, <2>6 DEF u, said, more, left, has
  <1> QED BY <1>7, <1>8, <1>9, <1>10

\* Nothing is said.
LEMMA Silent ==
  ASSUME TypeOK, Ledger, InOrder, TypeOK', Said' = Said, mode' = mode,
         UNCHANGED <<queue, accepted>>, Marks("none", 0)
  PROVE  Ledger' /\ InOrder'
  <1>1. Ledger'
    BY DEF Ledger, Marks, Once, Count, Told
  <1>2. InOrder'
    BY DEF InOrder, Ranked, Precedes, Event
  <1> QED BY <1>1, <1>2

\* One event of a call is said, at its turn.
LEMMA Speak ==
  ASSUME TypeOK, Ledger, InOrder, TypeOK', mode' = mode,
         NEW kind \in {"start", "end", "result"}, NEW c \in Call,
         out = <<>>, log' = log, out' = <<Event(kind, c)>>,
         UNCHANGED <<queue, accepted>>, Marks(kind, c),
         kind = "start" => ~Announced(c) /\ ~Ended(c) /\ ~Answered(c) /\ accepted[c] = 0,
         kind = "end" => ~Ended(c) /\ ~Answered(c),
         kind = "end" /\ mode = "parallel" => \A d \in Call : ~Answered(d),
         kind = "result" => ~Answered(c),
         kind = "result" =>
             \A d \in Call : c < d => /\ ~Answered(d)
                                      /\ mode = "sequential" => ~Announced(d)
  PROVE  Ledger' /\ InOrder'
  <1> DEFINE e == Event(kind, c)
  <1>1. Said \in Seq(Events) /\ <<e>> \in Seq(Events)
    BY CallIs DEF TypeOK, Said
  <1>2. Said' = Said \o <<e>>
    BY <1>1 DEF Said, TypeOK
  <1>3. \A k, d : Count(<<e>>, Event(k, d)) = Once(k = kind /\ d = c)
    BY CountSingle, EventIs DEF Once
  <1>4. \A d \in Call :
            /\ Count(<<e>>, Event("start", d)) = Once(Announced(d)') - Once(Announced(d))
            /\ Count(<<e>>, Event("end", d)) = Once(Ended(d)') - Once(Ended(d))
            /\ Count(<<e>>, Event("result", d)) = Once(Answered(d)') - Once(Answered(d))
            /\ Count(<<e>>, Event("update", d)) = 0
    <2> SUFFICES ASSUME NEW d \in Call
                 PROVE  /\ Once(kind = "start" /\ d = c) = Once(Announced(d)') - Once(Announced(d))
                        /\ Once(kind = "end" /\ d = c) = Once(Ended(d)') - Once(Ended(d))
                        /\ Once(kind = "result" /\ d = c) = Once(Answered(d)') - Once(Answered(d))
      BY <1>3 DEF Once
    <2>1. /\ Announced(d)' <=> Announced(d) \/ (kind = "start" /\ d = c)
          /\ Ended(d)' <=> Ended(d) \/ (kind = "end" /\ d = c)
          /\ Answered(d)' <=> Answered(d) \/ (kind = "result" /\ d = c)
      BY DEF Marks
    <2>2. kind = "start" /\ d = c => ~Announced(d)
      OBVIOUS
    <2>3. kind = "end" /\ d = c => ~Ended(d)
      OBVIOUS
    <2>4. kind = "result" /\ d = c => ~Answered(d)
      OBVIOUS
    <2> QED BY <2>1, <2>2, <2>3, <2>4 DEF Once
  <1>5. \A d \in Call : /\ Count(queue', Event("update", d)) = Count(queue, Event("update", d))
                        /\ Count(queue, Event("update", d)) \in Nat
                        /\ accepted'[d] = accepted[d] /\ accepted[d] \in Nat
    BY BatchAssumption, CountKnown DEF TypeOK
  <1>6. Ledger'
    <2> HIDE DEF e
    <2>1. \A d \in Call :
             Count(<<e>>, Event("update", d)) + Count(queue', Event("update", d)) - accepted'[d]
                = Count(queue, Event("update", d)) - accepted[d]
      BY <1>4, <1>5
    <2> QED BY <1>1, <1>2, <1>4, <2>1, LedgerGrows
  <1>7. Members(<<e>>) = {e} /\ Ranked(<<e>>)
    <2>1. Ranked(<<e>>)
      BY DEF Ranked
    <2> QED BY <2>1, MembersKnown
  <1>8. Ranked(Said')
    <2>1. \A x \in Members(Said), y \in Members(<<e>>) : x.call = y.call => Follows(x, y)
      <3> SUFFICES ASSUME NEW x \in Members(Said), x.call = c PROVE Follows(x, e)
        BY <1>7, EventIs
      <3>1. x \in Events
        BY <1>1 DEF Members
      <3>2. x = Event(x.kind, c) /\ x.kind \in {"start", "update", "end", "result"}
        BY <3>1 DEF Events, Event
      <3>3. /\ x.kind = "start" => Announced(c)
            /\ x.kind = "end" => Ended(c)
            /\ x.kind = "result" => Answered(c)
            /\ x.kind = "update" => accepted[c] # 0
        BY <3>2, LedgerSays
      <3>4. CASE kind = "start"
        BY <3>2, <3>3, <3>4
      <3>5. CASE kind = "end"
        <4>1. x.kind \in {"start", "update"}
          BY <3>2, <3>3, <3>5
        <4> QED BY <4>1, <3>5, EventIs DEF Follows, Rank
      <3>6. CASE kind = "result"
        <4>1. x.kind \in {"start", "update", "end"}
          BY <3>2, <3>3, <3>6
        <4> QED BY <4>1, <3>6, EventIs DEF Follows, Rank
      <3> QED BY <3>4, <3>5, <3>6
    <2> HIDE DEF e
    <2> QED BY <1>1, <1>2, <1>7, <2>1, RankedConcat DEF InOrder
  <1>9. \A f, g : /\ Precedes(Said, f, g)
                  /\ f # e \/ (g # e /\ g \notin Members(Said))
                  => Precedes(Said', f, g)
    <2> HIDE DEF e
    <2> QED BY <1>1, <1>2, <1>7, PrecedesConcat
  <1>10. \A a, d \in Call :
            /\ a < d => Precedes(Said', Event("result", a), Event("result", d))
            /\ mode = "parallel" => Precedes(Said', Event("end", a), Event("result", d))
            /\ mode = "sequential" /\ a < d =>
                   Precedes(Said', Event("result", a), Event("start", d))
    <2> SUFFICES ASSUME NEW a \in Call, NEW d \in Call
                 PROVE  /\ a < d => Precedes(Said', Event("result", a), Event("result", d))
                        /\ mode = "parallel" => Precedes(Said', Event("end", a), Event("result", d))
                        /\ mode = "sequential" /\ a < d =>
                               Precedes(Said', Event("result", a), Event("start", d))
      OBVIOUS
    <2>1. a < d => Precedes(Said', Event("result", a), Event("result", d))
      <3>1. ASSUME a < d, Event("result", a) = e
            PROVE  Event("result", d) # e /\ Event("result", d) \notin Members(Said)
        <4>1. kind = "result" /\ a = c
          BY <3>1, EventIs
        <4>2. a # d
          BY <3>1, CallIs
        <4> QED BY <4>1, <4>2, <3>1, EventIs, LedgerSays
      <3>2. a < d => Precedes(Said, Event("result", a), Event("result", d))
        BY DEF InOrder
      <3> QED BY <3>1, <3>2, <1>9
    <2>2. mode = "parallel" => Precedes(Said', Event("end", a), Event("result", d))
      <3>1. ASSUME mode = "parallel", Event("end", a) = e
            PROVE  Event("result", d) # e /\ Event("result", d) \notin Members(Said)
        <4>1. kind = "end" /\ a = c
          BY <3>1, EventIs
        <4> QED BY <4>1, <3>1, EventIs, LedgerSays
      <3>2. mode = "parallel" => Precedes(Said, Event("end", a), Event("result", d))
        BY DEF InOrder
      <3> QED BY <3>1, <3>2, <1>9
    <2>3. mode = "sequential" /\ a < d => Precedes(Said', Event("result", a), Event("start", d))
      <3>1. ASSUME mode = "sequential", a < d, Event("result", a) = e
            PROVE  Event("start", d) # e /\ Event("start", d) \notin Members(Said)
        <4>1. kind = "result" /\ a = c
          BY <3>1, EventIs
        <4> QED BY <4>1, <3>1, EventIs, LedgerSays
      <3>2. mode = "sequential" /\ a < d => Precedes(Said, Event("result", a), Event("start", d))
        BY DEF InOrder
      <3> QED BY <3>1, <3>2, <1>9
    <2> QED BY <2>1, <2>2, <2>3
  <1>11. InOrder'
    BY <1>8, <1>10 DEF InOrder, Event, Precedes, Ranked
  <1> QED BY <1>6, <1>11

\* The updates in the queue are said: their calls have not ended.
LEMMA Relay ==
  ASSUME TypeOK, Ledger, InOrder, TypeOK', mode' = mode,
         out = <<>>, log' = log, TakeUpdates, Marks("none", 0),
         \A i \in DOMAIN queue : queue[i].kind = "update",
         \A c \in Call : Event("update", c) \in Members(queue) => ~Ended(c) /\ ~Answered(c)
  PROVE  Ledger' /\ InOrder'
  <1>1. Said \in Seq(Events) /\ queue \in Seq(Events)
    BY DEF TypeOK, Said
  <1>2. Said' = Said \o queue /\ queue' = <<>> /\ accepted' = accepted
    BY <1>1 DEF Said, TypeOK, TakeUpdates
  <1>3. \A y \in Members(queue) : y \in Events /\ y.kind = "update" /\ y = Event("update", y.call)
    <2> SUFFICES ASSUME NEW y \in Members(queue)
                 PROVE  y \in Events /\ y.kind = "update" /\ y = Event("update", y.call)
      OBVIOUS
    <2>1. PICK i \in DOMAIN queue : y = queue[i]
      BY DEF Members
    <2>2. y \in Events /\ y.kind = "update"
      BY <1>1, <2>1
    <2> QED BY <2>2 DEF Events, Event
  <1>4. \A k, d : k # "update" => Event(k, d) \notin Members(queue)
    BY <1>3, EventIs
  <1>5. \A k, d : k # "update" => Count(queue, Event(k, d)) = 0
    BY <1>1, <1>4, CountKnown
  <1>6. \A d \in Call : /\ Count(queue, Event("update", d)) \in Nat /\ accepted[d] \in Nat
                        /\ Count(queue', Event("update", d)) = 0
    <2>1. \A d \in Call : accepted[d] \in Nat
      BY BatchAssumption DEF TypeOK
    <2>2. \A e : Count(queue, e) \in Nat
      BY <1>1, CountKnown
    <2>3. \A e : Count(queue', e) = 0
      BY <1>2, CountSingle
    <2> QED BY <2>1, <2>2, <2>3
  <1>7. \A d \in Call :
           /\ Once(Announced(d)') = Once(Announced(d))
           /\ Once(Ended(d)') = Once(Ended(d))
           /\ Once(Answered(d)') = Once(Answered(d))
           /\ Once(Announced(d)) \in Nat /\ Once(Ended(d)) \in Nat /\ Once(Answered(d)) \in Nat
    BY DEF Marks, Once
  <1>8. Ledger'
    <2>1. \A d \in Call :
             /\ Count(queue, Event("start", d)) = Once(Announced(d)') - Once(Announced(d))
             /\ Count(queue, Event("end", d)) = Once(Ended(d)') - Once(Ended(d))
             /\ Count(queue, Event("result", d)) = Once(Answered(d)') - Once(Answered(d))
      BY <1>5, <1>7
    <2>2. \A d \in Call :
             Count(queue, Event("update", d)) + Count(queue', Event("update", d)) - accepted'[d]
                = Count(queue, Event("update", d)) - accepted[d]
      BY <1>2, <1>6
    <2> QED BY <1>1, <1>2, <2>1, <2>2, LedgerGrows
  <1>9. Ranked(queue)
    BY DEF Ranked, Follows
  <1>10. Ranked(Said')
    <2>1. \A x \in Members(Said), y \in Members(queue) : x.call = y.call => Follows(x, y)
      <3> SUFFICES ASSUME NEW x \in Members(Said), NEW y \in Members(queue), x.call = y.call
                   PROVE  Follows(x, y)
        OBVIOUS
      <3>1. x \in Events
        BY <1>1 DEF Members
      <3> DEFINE c == y.call
      <3>2. c \in Call /\ x = Event(x.kind, c) /\ x.kind \in {"start", "update", "end", "result"}
        BY <3>1, <1>3 DEF Events, Event
      <3>3. y.kind = "update" /\ ~Ended(c) /\ ~Answered(c)
        BY <1>3, <3>2
      <3>4. x.kind \in {"start", "update"}
        BY <3>2, <3>3, LedgerSays
      <3> QED BY <3>3, <3>4 DEF Follows, Rank
    <2> QED BY <1>1, <1>2, <1>9, <2>1, RankedConcat DEF InOrder
  <1>11. \A f, g : Precedes(Said, f, g) /\ f \notin Members(queue) => Precedes(Said', f, g)
    BY <1>1, <1>2, PrecedesConcat
  <1>12. \A a, d \in Call :
            /\ a < d => Precedes(Said', Event("result", a), Event("result", d))
            /\ mode = "parallel" => Precedes(Said', Event("end", a), Event("result", d))
            /\ mode = "sequential" /\ a < d =>
                   Precedes(Said', Event("result", a), Event("start", d))
    BY <1>4, <1>11 DEF InOrder
  <1>13. InOrder'
    BY <1>10, <1>12 DEF InOrder, Event, Precedes, Ranked
  <1> QED BY <1>8, <1>13

\* An update is accepted into the queue.
LEMMA Listen ==
  ASSUME TypeOK, Ledger, InOrder, TypeOK', NEW c \in Call, Marks("none", 0),
         mode' = mode, UNCHANGED <<log, out>>,
         queue' = Append(queue, Event("update", c)),
         accepted' = [accepted EXCEPT ![c] = @ + 1]
  PROVE  Ledger' /\ InOrder'
  <1>1. Said \in Seq(Events) /\ queue \in Seq(Events) /\ Said' = Said
        /\ <<Event("update", c)>> \in Seq(Events) /\ <<>> \in Seq(Events)
    BY CallIs DEF TypeOK, Said
  <1>2. Said' = Said \o <<>> /\ queue' = queue \o <<Event("update", c)>>
    BY <1>1
  <1>3. \A e : Count(<<>>, e) = 0
    BY CountSingle
  <1>4. \A d \in Call :
           /\ Count(queue', Event("update", d)) = Count(queue, Event("update", d)) + Once(d = c)
           /\ accepted'[d] = accepted[d] + Once(d = c)
           /\ Count(queue, Event("update", d)) \in Nat /\ accepted[d] \in Nat
           /\ Once(d = c) \in Nat
    <2> TAKE d \in Call
    <2>1. Count(<<Event("update", c)>>, Event("update", d)) = Once(d = c)
      BY CountSingle, EventIs DEF Once
    <2>2. Count(queue', Event("update", d)) = Count(queue, Event("update", d)) + Once(d = c)
      <3>1. \A e : Count(queue \o <<Event("update", c)>>, e)
                       = Count(queue, e) + Count(<<Event("update", c)>>, e)
        BY <1>1, CountConcat
      <3>2. Count(queue', Event("update", d))
               = Count(queue, Event("update", d)) + Count(<<Event("update", c)>>, Event("update", d))
        BY <1>2, <3>1
      <3> QED BY <2>1, <3>2
    <2>3. accepted[d] \in Nat /\ accepted'[d] = accepted[d] + Once(d = c)
      <3>1. accepted \in [Call -> 0 .. MaxUpdates] /\ MaxUpdates \in Nat
        BY BatchAssumption DEF TypeOK
      <3> QED BY <3>1 DEF Once
    <2> QED BY <1>1, <2>2, <2>3, CountKnown DEF Once
  <1>5. \A d \in Call :
           /\ Once(Announced(d)') = Once(Announced(d))
           /\ Once(Ended(d)') = Once(Ended(d))
           /\ Once(Answered(d)') = Once(Answered(d))
           /\ Once(Announced(d)) \in Nat /\ Once(Ended(d)) \in Nat /\ Once(Answered(d)) \in Nat
    BY DEF Marks, Once
  <1>6. Ledger'
    <2>1. \A d \in Call :
             /\ Count(<<>>, Event("start", d)) = Once(Announced(d)') - Once(Announced(d))
             /\ Count(<<>>, Event("end", d)) = Once(Ended(d)') - Once(Ended(d))
             /\ Count(<<>>, Event("result", d)) = Once(Answered(d)') - Once(Answered(d))
      BY <1>3, <1>5
    <2>2. \A d \in Call :
             Count(<<>>, Event("update", d)) + Count(queue', Event("update", d)) - accepted'[d]
                = Count(queue, Event("update", d)) - accepted[d]
      BY <1>3, <1>4
    <2> QED BY <1>1, <1>2, <2>1, <2>2, LedgerGrows
  <1>7. InOrder'
    BY <1>1 DEF InOrder, Ranked, Precedes, Event
  <1> QED BY <1>6, <1>7

(***************************************************************************)
(* Where the task is, in each mode.                                        *)
(***************************************************************************)
\* The task is with the futures of its calls.
AtWork == {"launched", "take", "register", "watch", "recheck", "poll", "polled",
           "parked", "updates"}

SequentialPlan ==
    mode = "sequential" =>
        /\ pc \notin {"siblings", "sibling", "abort", "append"}
        /\ pc # "launch" => prepared = <<>>
        /\ pc = "launch" => prepared = <<current>>
        /\ pc \in AtWork => pending = <<current>>
        /\ pc = "settle" => settling = current

ParallelPlan ==
    mode = "parallel" =>
        /\ pc \notin {"launched", "answer", "observe", "skip"}
        /\ pc \notin {"announce", "prepare", "append", "done"} => current = Width
        /\ pc \notin {"announce", "prepare", "launch"} => prepared = <<>>
        /\ pc \in {"announce", "prepare", "launch", "append", "done"} => pending = <<>>
        /\ pc \notin {"siblings", "sibling"} => todo = <<>>
        /\ pc = "prepare" => current \notin Members(prepared)
        /\ pc \in {"settle", "sibling"} =>
               settling \notin Members(pending) \cup Members(todo)
        /\ Members(pending) \cap Members(todo) = {}

Lists ==
    mode = "parallel" => Distinct(prepared) /\ Distinct(pending) /\ Distinct(todo)

\* Updates: who may send them, and whose are never published.
Losing == mode = "parallel" /\ pc \in {"abort", "append", "done"}
Flow ==
    /\ \A i \in DOMAIN queue : queue[i].kind = "update"
    /\ \A c \in Call :
          /\ accepted[c] # 0 => stage[c] # "unstarted"
          /\ stage[c] # "unstarted" => Announced(c)
          /\ Ended(c) => c \in closed \/ stage[c] = "unstarted"
          /\ Ended(c) /\ Event("update", c) \in Members(queue) =>
                 Losing /\ completion[c] # "executed"

\* Which calls have begun, been closed or been skipped.
Begun ==
    /\ \A c \in Held : Announced(c)
    /\ \A c \in Call : completion[c] = "skipped" =>
           pc \in {"skip", "done"} /\ (pc = "skip" => c < current)
    /\ pc \in {"settle", "sibling"} => settling \in closed
    /\ mode = "parallel" /\ pc \in {"announce", "prepare", "launch"} =>
          \A c \in Call : stage[c] = "unstarted"
    /\ mode = "sequential" =>
          \A c \in Call :
              c > current \/ (c = current /\ pc \in {"announce", "prepare", "launch"})
                  => stage[c] = "unstarted"

Plan == SequentialPlan /\ ParallelPlan /\ Lists
BatchInv == TypeOK /\ Ledger /\ InOrder /\ Plan /\ Flow /\ Begun

LEMMA ModeIs == TypeOK => mode \in {"sequential", "parallel"}
  BY BatchAssumption DEF TypeOK

LEMMA HeldKnown == TypeOK => Held \subseteq Call
  BY DEF TypeOK, Held, Members

\* The flow of updates goes on where no call is reopened.
LEMMA FlowStep ==
  ASSUME TypeOK, Flow, mode' = mode, queue' = queue \/ queue' = <<>>, accepted' = accepted,
         Losing => Losing', closed \subseteq closed',
         \A c \in Call : \/ stage'[c] = "unstarted" <=> stage[c] = "unstarted"
                         \/ stage'[c] # "unstarted" /\ c \in closed' /\ Announced(c)',
         \A c \in Call : Announced(c) => Announced(c)',
         \A c \in Call : Ended(c) => completion'[c] = completion[c],
         \A c \in Call : Ended(c)' /\ ~Ended(c) =>
             /\ c \in closed' \/ stage'[c] = "unstarted"
             /\ Event("update", c) \in Members(queue') =>
                    Losing' /\ completion'[c] # "executed"
  PROVE  Flow'
  <1>1. \A e : e \in Members(queue') => e \in Members(queue)
    BY MembersKnown
  <1>2. \A i \in DOMAIN queue' : queue'[i].kind = "update"
    BY DEF Flow
  <1>3. ASSUME NEW c \in Call
        PROVE  /\ accepted'[c] # 0 => stage'[c] # "unstarted"
               /\ stage'[c] # "unstarted" => Announced(c)'
               /\ Ended(c)' => c \in closed' \/ stage'[c] = "unstarted"
               /\ Ended(c)' /\ Event("update", c) \in Members(queue') =>
                      Losing' /\ completion'[c] # "executed"
    <2>1. accepted'[c] # 0 => stage'[c] # "unstarted"
      BY DEF Flow
    <2>2. stage'[c] # "unstarted" => Announced(c)'
      BY DEF Flow
    <2>3. CASE Ended(c)
      BY <1>1, <2>3 DEF Flow
    <2>4. CASE ~Ended(c)
      BY <2>1, <2>2, <2>4
    <2> QED BY <2>3, <2>4
  <1> QED BY <1>2, <1>3 DEF Flow, Event, Members

\* Nothing that the ledger speaks of changes.
LEMMA Stand ==
  ASSUME BatchInv, TypeOK', Said' = Said,
         UNCHANGED <<pc, mode, current, prepared, completion, settling, pending, todo,
                     queue, closed, accepted>>,
         \A c \in Call : stage'[c] = "unstarted" <=> stage[c] = "unstarted"
  PROVE  BatchInv'
  <1>1. Marks("none", 0)
    BY DEF Marks, Announced, Ended, Held, Answered, Members
  <1>2. Ledger' /\ InOrder'
    BY <1>1, Silent DEF BatchInv
  <1>3. Plan'
    BY DEF BatchInv, Plan, SequentialPlan, ParallelPlan, Lists, Members, Distinct
  <1>4. Flow'
    BY <1>1, FlowStep DEF BatchInv, Marks, Losing
  <1>5. Begun'
    <2>1. \A c \in Held' : Announced(c)'
      BY DEF BatchInv, Begun, Announced, Held, Members
    <2> QED BY <2>1 DEF BatchInv, Begun
  <1> QED BY <1>2, <1>3, <1>4, <1>5 DEF BatchInv

LEMMA StandingStep ==
  ASSUME BatchInv, TypeOK',
         \/ Publish \/ CancelFlag \/ CancelWake \/ HostLeaves
         \/ \E c \in Call : Advance(c) \/ CallbackAgain(c)
         \/ UNCHANGED vars
  PROVE  BatchInv'
  <1>1. CASE Publish
    <2>1. Said' = Said
      <3>1. log \in Seq(Events) /\ out \in Seq(Events) /\ out # <<>>
        BY <1>1 DEF Publish, BatchInv, TypeOK
      <3>2. Append(log, Head(out)) \o Tail(out) = log \o out
        BY <3>1
      <3> QED BY <1>1, <3>2 DEF Publish, Said
    <2> QED BY <1>1, <2>1, Stand DEF Publish, planVars, pollVars, queueVars, toolVars
  <1>2. CASE CancelFlag \/ CancelWake \/ HostLeaves
    BY <1>2, Stand DEF CancelFlag, CancelWake, HostLeaves, Said, logVars, planVars, pollVars, queueVars, toolVars
  <1>3. ASSUME NEW c \in Call, Advance(c) PROVE BatchInv'
    <2>1. \A d \in Call : stage'[d] = "unstarted" <=> stage[d] = "unstarted"
      BY <1>3 DEF Advance, BatchInv, TypeOK
    <2> QED BY <1>3, <2>1, Stand DEF Advance, Said, logVars, planVars, pollVars, queueVars
  <1>4. CASE UNCHANGED vars
    BY <1>4, Stand DEF vars, Said, logVars, planVars, pollVars, queueVars, toolVars
  <1>5. ASSUME NEW c \in Call, CallbackAgain(c) PROVE BatchInv'
    BY <1>5, Stand DEF CallbackAgain, Said, logVars, planVars, pollVars, toolVars
  <1> QED BY <1>1, <1>2, <1>3, <1>4, <1>5

(***************************************************************************)
(* The polls of a step.                                                    *)
(***************************************************************************)
\* At work, one call is held in sequence, all pending ones in parallel.
LEMMA WorkHeld ==
  ASSUME BatchInv, pc \in AtWork
  PROVE  /\ mode = "sequential" => Held = {current} /\ pending = <<current>>
         /\ mode = "parallel" => Held = Members(pending) /\ current = Width
         /\ mode = "parallel" => prepared = <<>> /\ todo = <<>>
         /\ \A d \in Call : Announced(d) <=> d <= current
         /\ \A d \in Call : Answered(d) <=> mode = "sequential" /\ d < current
  <1>1. mode = "sequential" => Held = {current} /\ pending = <<current>>
    BY DEF BatchInv, Plan, SequentialPlan, Held, AtWork, InCall
  <1>2. mode = "parallel" => prepared = <<>> /\ todo = <<>> /\ current = Width
    BY DEF BatchInv, Plan, ParallelPlan, AtWork
  <1>3. mode = "parallel" => Held = Members(pending)
    BY <1>2, MembersKnown DEF Held, AtWork
  <1>4. mode \in {"sequential", "parallel"}
    BY ModeIs DEF BatchInv
  <1>5. \A d \in Call : Announced(d) <=> d <= current
    BY DEF Announced, AtWork
  <1>6. \A d \in Call : Answered(d) <=> mode = "sequential" /\ d < current
    BY <1>4 DEF Answered, AtWork
  <1> QED BY <1>1, <1>2, <1>3, <1>5, <1>6

\* A poll moves on.
LEMMA PollOn ==
  ASSUME BatchInv, TypeOK', pc \in AtWork, pc' \in AtWork \ {"launched"},
         UNCHANGED <<logVars, planVars, pending, todo, queue, closed, accepted>>,
         \A c \in Call : stage'[c] = "unstarted" <=> stage[c] = "unstarted"
  PROVE  BatchInv'
  <1>1. Held' = Held
    BY DEF Held, AtWork, InCall, Members, planVars
  <1>2. \A d \in Call : (Announced(d)' <=> Announced(d)) /\ (Answered(d)' <=> Answered(d))
    BY DEF Announced, Answered, AtWork, planVars
  <1>3. Marks("none", 0)
    BY <1>1, <1>2 DEF Marks, Ended
  <1>4. Ledger' /\ InOrder'
    BY <1>3, Silent DEF BatchInv, Said, logVars, planVars
  <1>5. Plan'
    BY DEF BatchInv, Plan, SequentialPlan, ParallelPlan, Lists, Members, Distinct, AtWork, planVars
  <1>6. Flow'
    BY <1>3, FlowStep DEF BatchInv, Marks, Losing, AtWork, planVars
  <1>7. Begun'
    BY <1>1, <1>2, HeldKnown DEF BatchInv, Begun, AtWork, planVars
  <1> QED BY <1>4, <1>5, <1>6, <1>7 DEF BatchInv

\* Updates of calls that have not ended are on their way.
LEMMA QueueRuns ==
  ASSUME BatchInv, ~Losing, NEW c \in Call, Event("update", c) \in Members(queue)
  PROVE  ~Ended(c) /\ (pc \notin {"skip", "done"} => ~Answered(c))
  <1>1. ~Ended(c)
    BY DEF BatchInv, Flow
  <1>2. accepted[c] # 0
    BY LedgerSays DEF BatchInv
  <1>3. Announced(c)
    BY <1>2 DEF BatchInv, Flow
  <1>4. c \in Held
    BY <1>1, <1>3 DEF Ended
  <1>5. current \in Nat /\ c \in Nat
    BY CallIs DEF BatchInv, TypeOK
  <1>6. ASSUME pc \notin {"skip", "done"} PROVE ~Answered(c)
    <2>1. CASE mode = "parallel"
      <3>1. pc # "append" /\ pc # "done"
        BY <2>1 DEF Losing
      <3> QED BY <2>1, <3>1 DEF Answered
    <2>2. CASE mode = "sequential"
      <3>1. pc # "append" /\ c = current /\ pc # "observe"
        BY <1>4, <2>2 DEF Held, InCall, BatchInv, Plan, SequentialPlan
      <3> QED BY <1>5, <1>6, <2>2, <3>1 DEF Answered
    <2> QED BY <2>1, <2>2, ModeIs DEF BatchInv
  <1> QED BY <1>1, <1>6

\* A step that takes the updates of a batch that is at work, and moves on.
LEMMA TakeOn ==
  ASSUME BatchInv, TypeOK', out = <<>>, log' = log, TakeUpdates, mode' = mode,
         ~Losing, pc \notin {"skip", "done"}, Marks("none", 0),
         closed \subseteq closed',
         \A c \in Call : stage'[c] = "unstarted" <=> stage[c] = "unstarted",
         \A c \in Call : Ended(c) => completion'[c] = completion[c]
  PROVE  Ledger' /\ InOrder' /\ Flow'
  <1>1. Ledger' /\ InOrder'
    BY QueueRuns, Relay DEF BatchInv, Flow
  <1>2. queue' = <<>> /\ accepted' = accepted
    BY DEF TakeUpdates
  <1>3. Flow'
    <2>1. \A c \in Call : (Announced(c) => Announced(c)') /\ (Ended(c)' => Ended(c))
      BY DEF Marks
    <2> QED BY <1>2, <2>1, FlowStep DEF BatchInv
  <1> QED BY <1>1, <1>3

LEMMA FoundOn ==
  ASSUME BatchInv, TypeOK', out = <<>>, log' = log, pc \in AtWork, FoundUpdates,
         UNCHANGED <<mode, current, prepared, stage>>
  PROVE  BatchInv'
  <1>1. /\ pc' = "updates" /\ TakeUpdates
        /\ UNCHANGED <<closed, pending, index, todo, allowed, completion, settling>>
    BY DEF FoundUpdates
  <1>2. Held' = Held
    BY <1>1 DEF Held, AtWork, InCall, Members
  <1>3. \A d \in Call : (Announced(d)' <=> Announced(d)) /\ (Answered(d)' <=> Answered(d))
    BY <1>1 DEF Announced, Answered, AtWork
  <1>4. Marks("none", 0)
    BY <1>2, <1>3 DEF Marks, Ended
  <1>5. Ledger' /\ InOrder' /\ Flow'
    BY <1>1, <1>4, TakeOn DEF Losing, AtWork
  <1>6. Plan'
    BY <1>1 DEF BatchInv, Plan, SequentialPlan, ParallelPlan, Lists, Members, Distinct, AtWork
  <1>7. Begun'
    BY <1>1, <1>2, <1>3, HeldKnown DEF BatchInv, Begun, AtWork
  <1> QED BY <1>5, <1>6, <1>7 DEF BatchInv

\* A sequential step gives up on its call.
LEMMA GiveUpOn ==
  ASSUME BatchInv, TypeOK', out = <<>>, log' = log, pc \in AtWork, GiveUp,
         UNCHANGED <<mode, current, prepared, stage>>
  PROVE  BatchInv'
  <1>1. /\ mode = "sequential" /\ pc' = "settle" /\ TakeUpdates
        /\ closed' = closed \cup {current} /\ settling' = current
        /\ completion' = [completion EXCEPT ![current] = "aborted"]
        /\ UNCHANGED <<pending, index, updated, todo, allowed>>
    BY DEF GiveUp
  <1>2. Held' = {current} /\ Held = {current}
    BY <1>1 DEF Held, AtWork, InCall
  <1>3. \A d \in Call : (Announced(d)' <=> Announced(d)) /\ (Answered(d)' <=> Answered(d))
    BY <1>1 DEF Announced, Answered, AtWork
  <1>4. Marks("none", 0)
    BY <1>2, <1>3 DEF Marks, Ended
  <1>5. Ledger' /\ InOrder' /\ Flow'
    <2>1. \A c \in Call : Ended(c) => completion'[c] = completion[c]
      BY <1>1, <1>2 DEF Ended, BatchInv, TypeOK
    <2> QED BY <1>1, <1>4, <2>1, TakeOn DEF Losing, AtWork
  <1>6. Plan'
    BY <1>1 DEF BatchInv, Plan, SequentialPlan, ParallelPlan, Lists, AtWork
  <1>7. Begun'
    <2>1. \A c \in Held' : Announced(c)'
      BY <1>2, <1>3 DEF BatchInv, Begun, TypeOK
    <2>2. \A c \in Call : completion'[c] # "skipped"
      BY <1>1 DEF BatchInv, Begun, TypeOK, AtWork
    <2> QED BY <1>1, <2>1, <2>2 DEF BatchInv, Begun, AtWork
  <1> QED BY <1>5, <1>6, <1>7 DEF BatchInv

\* A parallel step reports the cancellation.
LEMMA ReportOn ==
  ASSUME BatchInv, TypeOK', out = <<>>, log' = log, pc \in AtWork, ReportCancelled,
         UNCHANGED <<mode, current, prepared, stage>>
  PROVE  BatchInv'
  <1>1. /\ mode = "parallel" /\ pc' = "abort" /\ TakeUpdates
        /\ UNCHANGED <<closed, completion, settling, pending, index, updated, todo, allowed>>
    BY DEF ReportCancelled
  <1>2. Held' = Held
    BY <1>1 DEF Held, AtWork, Members
  <1>3. \A d \in Call : (Announced(d)' <=> Announced(d)) /\ (Answered(d)' <=> Answered(d))
    BY <1>1 DEF Announced, Answered, AtWork
  <1>4. Marks("none", 0)
    BY <1>2, <1>3 DEF Marks, Ended
  <1>5. Ledger' /\ InOrder' /\ Flow'
    BY <1>1, <1>4, TakeOn DEF Losing, AtWork
  <1>6. Plan'
    BY <1>1 DEF BatchInv, Plan, SequentialPlan, ParallelPlan, Lists, Members, Distinct, AtWork
  <1>7. Begun'
    BY <1>1, <1>2, <1>3, HeldKnown DEF BatchInv, Begun, AtWork
  <1> QED BY <1>5, <1>6, <1>7 DEF BatchInv

\* A future is ready: its call is closed and settles.
LEMMA ReadyOn == ASSUME BatchInv, TypeOK', PollReady PROVE BatchInv'
  <1> PICK c \in Call :
           /\ Ready("poll") /\ index <= Len(pending) /\ c = pending[index]
           /\ MayPoll(c) /\ ReadyPoll(c)
           /\ allowed' = Spend(c)
           /\ pending' = SwapRemove(pending, index)
           /\ closed' = closed \cup {c}
           /\ TakeUpdates
           /\ completion' = [completion EXCEPT ![c] = "executed"]
           /\ settling' = c
           /\ pc' = "settle"
           /\ UNCHANGED <<log, mode, current, prepared, index, updated, todo>>
    BY Zenon DEF PollReady
  <1>1. pc = "poll" /\ out = <<>> /\ pc \in AtWork
    BY DEF Ready, AtWork
  <1>2. pending \in Seq(Call) /\ index \in 1 .. Len(pending)
    BY DEF BatchInv, TypeOK
  <1>3. /\ Members(pending) = Members(pending') \cup {c}
        /\ Distinct(pending) => Distinct(pending') /\ c \notin Members(pending')
    BY <1>2, MembersSwapRemove
  <1>4. c \in Members(pending)
    BY <1>3
  <1>5. mode = "sequential" => c = current
    BY <1>1, <1>4, WorkHeld, MembersKnown
  <1>6. mode = "parallel" => /\ current = Width /\ prepared = <<>> /\ todo = <<>>
                             /\ Held = Members(pending) /\ Distinct(pending)
    BY <1>1, WorkHeld DEF BatchInv, Plan, Lists
  <1>7. c \in Held
    BY <1>1, <1>4, <1>5, <1>6, WorkHeld, ModeIs DEF BatchInv
  <1>8. Held' = Held
    <2>1. CASE mode = "sequential"
      BY <2>1, <1>1 DEF Held, InCall, AtWork
    <2>2. CASE mode = "parallel"
      BY <2>2, <1>3, <1>6, MembersKnown DEF Held
    <2> QED BY <2>1, <2>2, ModeIs DEF BatchInv
  <1>9. \A d \in Call : (Announced(d)' <=> Announced(d)) /\ (Answered(d)' <=> Answered(d))
    BY <1>1 DEF Announced, Answered
  <1>10. Marks("none", 0)
    BY <1>8, <1>9 DEF Marks, Ended
  <1>11. stage[c] # "unstarted"
    BY DEF ReadyPoll, IsReady
  <1>12. \A d \in Call : stage'[d] = "unstarted" <=> stage[d] = "unstarted"
    BY <1>11 DEF ReadyPoll, BatchInv, TypeOK
  <1>13. Ledger' /\ InOrder' /\ Flow'
    <2>1. \A d \in Call : Ended(d) => completion'[d] = completion[d]
      BY <1>7 DEF Ended, BatchInv, TypeOK
    <2> QED BY <1>1, <1>10, <1>12, <2>1, TakeOn DEF Losing
  <1>14. Plan'
    <2>1. SequentialPlan'
      BY <1>1, <1>5 DEF SequentialPlan, BatchInv, Plan, AtWork
    <2>2. ParallelPlan' /\ Lists'
      <3> SUFFICES ASSUME mode = "parallel" PROVE ParallelPlan' /\ Lists'
        BY DEF ParallelPlan, Lists
      <3>1. /\ Members(prepared') = {} /\ Members(todo') = {} /\ prepared' = <<>> /\ todo' = <<>>
            /\ Distinct(prepared') /\ Distinct(todo')
        BY <1>6, MembersKnown
      <3> QED BY <1>3, <1>6, <3>1 DEF ParallelPlan, Lists
    <2> QED BY <2>1, <2>2 DEF Plan
  <1>15. Begun'
    <2>1. \A d \in Held' : Announced(d)'
      BY <1>8, <1>9, HeldKnown DEF BatchInv, Begun
    <2>2. \A d \in Call : completion'[d] # "skipped"
      BY <1>1 DEF BatchInv, Begun, TypeOK
    <2> QED BY <1>1, <1>12, <2>1, <2>2 DEF BatchInv, Begun
  <1> QED BY <1>13, <1>14, <1>15 DEF BatchInv

\* Updates done: the poll is tried again, or the siblings are settled.
LEMMA UpdatesOn == ASSUME BatchInv, TypeOK', UpdatesDone PROVE BatchInv'
  <1>1. /\ pc = "updates" /\ out = <<>> /\ pc \in AtWork
        /\ UNCHANGED <<logVars, planVars, queue, closed, accepted, stage>>
    BY DEF UpdatesDone, Ready, AtWork, queueVars, toolVars
  <1>2. CASE ~(mode = "parallel" /\ Cancelled)
    <2>1. pc' = "take" /\ UNCHANGED <<todo, pending>>
      BY <1>2, Zenon DEF UpdatesDone
    <2> QED BY <1>1, <2>1, PollOn DEF AtWork
  <1>3. CASE mode = "parallel" /\ Cancelled
    <2>1. todo' = pending /\ pending' = <<>> /\ pc' = "siblings"
      BY <1>3, Zenon DEF UpdatesDone
    <2>2. Held = Members(pending) /\ current = Width /\ prepared = <<>> /\ todo = <<>>
      BY <1>1, <1>3, WorkHeld
    <2>3. Held' = Held
      BY <1>1, <1>3, <2>1, <2>2, MembersKnown DEF Held, planVars
    <2>4. \A d \in Call : (Announced(d)' <=> Announced(d)) /\ (Answered(d)' <=> Answered(d))
      BY <1>1, <1>3, <2>1 DEF Announced, Answered, planVars
    <2>5. Marks("none", 0)
      BY <2>3, <2>4 DEF Marks, Ended
    <2>6. Ledger' /\ InOrder'
      BY <1>1, <2>5, Silent DEF BatchInv, Said, logVars, planVars
    <2>7. Flow'
      BY <1>1, <2>5, FlowStep DEF BatchInv, Marks, Losing, planVars
    <2>8. Plan'
      <3>1. /\ Members(pending') = {} /\ Distinct(pending') /\ Members(todo') = Members(pending)
            /\ Distinct(pending) => Distinct(todo')
        BY <2>1, MembersKnown
      <3> QED BY <1>1, <1>3, <2>1, <2>2, <3>1 DEF BatchInv, Plan, SequentialPlan, ParallelPlan, Lists, planVars
    <2>9. Begun'
      <3>1. \A d \in Held' : Announced(d)'
        BY <2>3, <2>4, HeldKnown DEF BatchInv, Begun
      <3> QED BY <1>1, <2>1, <3>1 DEF BatchInv, Begun, planVars
    <2> QED BY <2>6, <2>7, <2>8, <2>9 DEF BatchInv
  <1> QED BY <1>2, <1>3

LEMMA PollingOn ==
  ASSUME BatchInv, TypeOK',
         \/ AllowOnePoll \/ Take \/ RegisterForUpdates \/ RegisterForCancellation
         \/ Recheck \/ PassOver \/ PollReady \/ PollPending \/ AfterPoll \/ EndOfPoll
         \/ Resume \/ UpdatesDone
  PROVE  BatchInv'
  <1>1. CASE AllowOnePoll
    BY <1>1, PollOn DEF AllowOnePoll, Ready, AtWork, queueVars, toolVars
  <1>2. CASE RegisterForUpdates \/ RegisterForCancellation \/ PassOver \/ Resume
    BY <1>2, PollOn DEF RegisterForUpdates, RegisterForCancellation, PassOver, Resume, Ready,
                        AtWork, pollVars, queueVars, toolVars
  <1>3. CASE Take \/ Recheck \/ AfterPoll \/ EndOfPoll
    <2>1. /\ pc \in AtWork /\ out = <<>> /\ log' = log
          /\ UNCHANGED <<mode, current, prepared, stage>>
      BY <1>3 DEF Take, Recheck, AfterPoll, EndOfPoll, Ready, AtWork, toolVars
    <2>2. \/ FoundUpdates \/ GiveUp \/ ReportCancelled
          \/ /\ pc' \in {"register", "poll", "parked"}
             /\ UNCHANGED <<out, completion, settling, pending, todo, queueVars>>
      BY <1>3 DEF Take, Check, Recheck, AfterPoll, EndOfPoll, pollVars
    <2>3. CASE /\ pc' \in {"register", "poll", "parked"}
               /\ UNCHANGED <<out, completion, settling, pending, todo, queueVars>>
      BY <2>1, <2>3, PollOn DEF AtWork, logVars, planVars, queueVars
    <2> QED BY <2>1, <2>2, <2>3, FoundOn, GiveUpOn, ReportOn
  <1>4. CASE PollPending
    <2> PICK c \in Call :
             /\ Ready("poll") /\ PendingPoll(c)
             /\ pc' = "polled"
             /\ UNCHANGED <<logVars, planVars, pending, updated, todo, queueVars>>
      BY <1>4, Zenon DEF PollPending
    <2>1. \A d \in Call : stage'[d] = "unstarted" <=> stage[d] = "unstarted"
      BY DEF PendingPoll, BatchInv, TypeOK
    <2> QED BY <2>1, PollOn DEF Ready, AtWork, queueVars
  <1> QED BY <1>1, <1>2, <1>3, <1>4, ReadyOn, UpdatesOn

(***************************************************************************)
(* Siblings, the end of a call, and a batch that is aborted.               *)
(***************************************************************************)
LEMMA KeepOn == ASSUME BatchInv, TypeOK', KeepRunning PROVE BatchInv'
  <1>1. /\ pc = "siblings" /\ pc' = pc /\ out = <<>> /\ todo # <<>>
        /\ pending' = Append(pending, Head(todo)) /\ todo' = Tail(todo)
        /\ UNCHANGED <<logVars, planVars, queue, closed, accepted, stage>>
    BY DEF KeepRunning, Ready, queueVars, toolVars
  <1>2. mode = "parallel" /\ prepared = <<>>
    BY <1>1, ModeIs DEF BatchInv, Plan, SequentialPlan, ParallelPlan
  <1>3. /\ Members(todo) = Members(todo') \cup {Head(todo)}
        /\ Head(todo) \in Call
        /\ Distinct(todo) => Distinct(todo') /\ Head(todo) \notin Members(todo')
    BY <1>1, MembersTail DEF BatchInv, TypeOK
  <1>4. /\ Members(pending') = Members(pending) \cup {Head(todo)}
        /\ Distinct(pending) /\ Head(todo) \notin Members(pending) => Distinct(pending')
    BY <1>1, <1>3, MembersAppend DEF BatchInv, TypeOK
  <1>5. Held' = Held
    BY <1>1, <1>2, <1>3, <1>4 DEF Held, planVars
  <1>6. \A d \in Call : (Announced(d)' <=> Announced(d)) /\ (Answered(d)' <=> Answered(d))
    BY <1>1 DEF Announced, Answered, planVars
  <1>7. Marks("none", 0)
    BY <1>5, <1>6 DEF Marks, Ended
  <1>8. Ledger' /\ InOrder'
    BY <1>1, <1>7, Silent DEF BatchInv, Said, logVars, planVars
  <1>9. Flow'
    BY <1>1, <1>7, FlowStep DEF BatchInv, Marks, Losing, planVars
  <1>10. Plan'
    <2>1. Members(pending) \cap Members(todo) = {} /\ Distinct(todo) /\ Distinct(pending) /\ Distinct(prepared)
      BY <1>2 DEF BatchInv, Plan, ParallelPlan, Lists
    <2>2. Members(pending') \cap Members(todo') = {} /\ Distinct(todo') /\ Distinct(pending')
      BY <1>3, <1>4, <2>1
    <2> QED BY <1>1, <1>2, <2>1, <2>2 DEF BatchInv, Plan, SequentialPlan, ParallelPlan, Lists, planVars
  <1>11. Begun'
    <2>1. \A d \in Held' : Announced(d)'
      BY <1>5, <1>6, HeldKnown DEF BatchInv, Begun
    <2> QED BY <1>1, <2>1 DEF BatchInv, Begun, planVars
  <1> QED BY <1>8, <1>9, <1>10, <1>11 DEF BatchInv

LEMMA SiblingOn == ASSUME BatchInv, TypeOK', SettleSibling PROVE BatchInv'
  <1> PICK c \in Call :
           /\ Ready("siblings") /\ todo # <<>> /\ c = Head(todo)
           /\ ReadyPoll(c) \/ PendingPoll(c)
           /\ \/ completion' = [completion EXCEPT ![c] = "executed"]
              \/ completion' = [completion EXCEPT ![c] = "aborted"]
           /\ closed' = closed \cup {c}
           /\ TakeUpdates
           /\ todo' = Tail(todo)
           /\ settling' = c
           /\ pc' = "sibling"
           /\ UNCHANGED <<log, mode, current, prepared, pending, index, updated, allowed>>
    BY Zenon DEF SettleSibling
  <1>1. pc = "siblings" /\ out = <<>>
    BY DEF Ready
  <1>2. mode = "parallel" /\ prepared = <<>>
    BY <1>1, ModeIs DEF BatchInv, Plan, SequentialPlan, ParallelPlan
  <1>3. /\ Members(todo) = Members(todo') \cup {c}
        /\ Distinct(todo) => Distinct(todo') /\ c \notin Members(todo')
    BY MembersTail DEF BatchInv, TypeOK
  <1>4. Held' = Held /\ c \in Held
    BY <1>1, <1>2, <1>3 DEF Held
  <1>5. \A d \in Call : (Announced(d)' <=> Announced(d)) /\ (Answered(d)' <=> Answered(d))
    BY <1>1, <1>2 DEF Announced, Answered
  <1>6. Marks("none", 0)
    BY <1>4, <1>5 DEF Marks, Ended
  <1>7. \A d \in Call : stage'[d] = "unstarted" <=> stage[d] = "unstarted"
    BY DEF ReadyPoll, IsReady, PendingPoll, BatchInv, TypeOK
  <1>8. Ledger' /\ InOrder' /\ Flow'
    <2>1. \A d \in Call : Ended(d) => completion'[d] = completion[d]
      BY <1>4 DEF Ended, BatchInv, TypeOK
    <2> QED BY <1>1, <1>6, <1>7, <2>1, TakeOn DEF Losing
  <1>9. Plan'
    <2>1. Members(pending) \cap Members(todo) = {} /\ Distinct(todo) /\ Distinct(pending) /\ Distinct(prepared)
      BY <1>2 DEF BatchInv, Plan, ParallelPlan, Lists
    <2>2. Members(pending) \cap Members(todo') = {} /\ Distinct(todo') /\ c \notin Members(pending) \cup Members(todo')
      BY <1>3, <2>1
    <2> QED BY <1>1, <1>2, <2>1, <2>2 DEF BatchInv, Plan, SequentialPlan, ParallelPlan, Lists
  <1>10. Begun'
    <2>1. \A d \in Held' : Announced(d)'
      BY <1>4, <1>5, HeldKnown DEF BatchInv, Begun
    <2>2. \A d \in Call : completion'[d] # "skipped"
      BY <1>1 DEF BatchInv, Begun, TypeOK
    <2> QED BY <1>2, <2>1, <2>2 DEF BatchInv, Begun
  <1> QED BY <1>8, <1>9, <1>10 DEF BatchInv

LEMMA FlushOn ==
  ASSUME BatchInv, TypeOK', NEW label \in {"sibling", "settle"}, Flush(label)
  PROVE  BatchInv'
  <1>1. /\ pc = label /\ out = <<>> /\ TakeUpdates
        /\ UNCHANGED <<log, pc, planVars, pollVars, closed, stage>>
    BY DEF Flush, Ready, toolVars
  <1>2. Held' = Held
    BY <1>1 DEF Held, Members, planVars, pollVars
  <1>3. \A d \in Call : (Announced(d)' <=> Announced(d)) /\ (Answered(d)' <=> Answered(d))
    BY <1>1 DEF Announced, Answered, planVars
  <1>4. Marks("none", 0)
    BY <1>2, <1>3 DEF Marks, Ended
  <1>5. Ledger' /\ InOrder' /\ Flow'
    BY <1>1, <1>4, TakeOn DEF Losing, planVars
  <1>6. Plan'
    BY <1>1 DEF BatchInv, Plan, SequentialPlan, ParallelPlan, Lists, Members, Distinct, planVars, pollVars
  <1>7. Begun'
    BY <1>1, <1>2, <1>3, HeldKnown DEF BatchInv, Begun, planVars
  <1> QED BY <1>5, <1>6, <1>7 DEF BatchInv

\* The end of a call that was held, in whatever way it comes to its end.
LEMMA EndOn ==
  ASSUME BatchInv, TypeOK', NEW c \in Call, out = <<>>, log' = log,
         out' = <<Event("end", c)>>, mode' = mode, UNCHANGED <<queue, accepted>>,
         Held' = Held \ {c}, c \in Held, ~Answered(c),
         mode = "parallel" => \A d \in Call : ~Answered(d),
         \A d \in Call : (Announced(d)' <=> Announced(d)) /\ (Answered(d)' <=> Answered(d)),
         Losing => Losing', closed \subseteq closed',
         c \in closed' \/ stage'[c] = "unstarted",
         Event("update", c) \in Members(queue) => Losing' /\ completion'[c] # "executed",
         \A d \in Call : d # c => completion'[d] = completion[d],
         \A d \in Call : \/ stage'[d] = "unstarted" <=> stage[d] = "unstarted"
                         \/ stage'[d] # "unstarted" /\ d \in closed' /\ Announced(d)'
  PROVE  Ledger' /\ InOrder' /\ Flow'
  <1>1. Announced(c) /\ ~Ended(c)
    BY DEF BatchInv, Begun, Ended
  <1>2. \A d \in Call : Ended(d)' <=> Ended(d) \/ d = c
    BY <1>1 DEF Ended
  <1>3. Marks("end", c)
    BY <1>2 DEF Marks
  <1>4. Ledger' /\ InOrder'
    BY <1>1, <1>3, Speak DEF BatchInv
  <1>5. Flow'
    <2>1. \A d \in Call : Ended(d) => completion'[d] = completion[d]
      BY <1>1
    <2>2. \A d \in Call : Ended(d)' /\ ~Ended(d) =>
             /\ d \in closed' \/ stage'[d] = "unstarted"
             /\ Event("update", d) \in Members(queue') => Losing' /\ completion'[d] # "executed"
      BY <1>2
    <2> QED BY <2>1, <2>2, FlowStep DEF BatchInv
  <1> QED BY <1>4, <1>5

\* After a settlement: the next poll, the answer, or the results.
LEMMA Settled ==
  ASSUME BatchInv, pc \in {"siblings", "settle"}, pc' = AfterSettling,
         current' = NextCurrent(pc'), mode' = mode, completion' = completion
  PROVE  /\ mode = "sequential" => pc' = "answer" /\ current' = current
         /\ mode = "parallel" /\ pending = <<>> => pc' = "append" /\ current' = 1
         /\ mode = "parallel" /\ pending # <<>> => pc' = "take" /\ current' = current
         /\ \A d \in Call : (Announced(d)' <=> Announced(d)) /\ (Answered(d)' <=> Answered(d))
         /\ mode = "parallel" => \A d \in Call : ~Answered(d)
  <1>1. /\ mode = "sequential" => pc' = "answer" /\ current' = current
        /\ mode = "parallel" /\ pending = <<>> => pc' = "append" /\ current' = 1
        /\ mode = "parallel" /\ pending # <<>> => pc' = "take" /\ current' = current
    BY DEF AfterSettling, NextCurrent
  <1>2. mode = "parallel" => current = Width
    BY DEF BatchInv, Plan, ParallelPlan
  <1>3. mode = "parallel" => \A d \in Call : ~Answered(d)
    BY DEF Answered
  <1>4. ASSUME NEW d \in Call
        PROVE  (Announced(d)' <=> Announced(d)) /\ (Answered(d)' <=> Answered(d))
    <2>1. d \in 1 .. Width
      BY CallIs
    <2>2. CASE mode = "sequential"
      BY <1>1, <2>2 DEF Announced, Answered
    <2>3. CASE mode = "parallel" /\ pending = <<>>
      BY <1>1, <1>2, <2>1, <2>3 DEF Announced, Answered
    <2>4. CASE mode = "parallel" /\ pending # <<>>
      BY <1>1, <1>2, <2>1, <2>4 DEF Announced, Answered
    <2> QED BY <2>2, <2>3, <2>4, ModeIs DEF BatchInv
  <1> QED BY <1>1, <1>3, <1>4

LEMMA SiblingsOn == ASSUME BatchInv, TypeOK', SiblingsDone PROVE BatchInv'
  <1>1. /\ pc = "siblings" /\ out = <<>> /\ todo = <<>>
        /\ pc' = AfterSettling /\ current' = NextCurrent(pc')
        /\ UNCHANGED <<logVars, mode, prepared, completion, settling, pending, todo,
                       queue, closed, accepted, stage>>
    BY DEF SiblingsDone, Ready, queueVars, toolVars
  <1>2. mode = "parallel" /\ prepared = <<>>
    BY <1>1, ModeIs DEF BatchInv, Plan, SequentialPlan, ParallelPlan
  <1>3. /\ pending = <<>> => pc' = "append" /\ current' = 1
        /\ pending # <<>> => pc' = "take" /\ current' = current
        /\ \A d \in Call : (Announced(d)' <=> Announced(d)) /\ (Answered(d)' <=> Answered(d))
    BY <1>1, <1>2, Settled
  <1>4. Held' = Held
    BY <1>1, <1>2, <1>3 DEF Held
  <1>5. Marks("none", 0)
    BY <1>3, <1>4 DEF Marks, Ended
  <1>6. Ledger' /\ InOrder'
    BY <1>1, <1>5, Silent DEF BatchInv, Said, logVars
  <1>7. Flow'
    BY <1>1, <1>5, FlowStep DEF BatchInv, Marks, Losing
  <1>8. Plan'
    BY <1>1, <1>2, <1>3, MembersKnown DEF BatchInv, Plan, SequentialPlan, ParallelPlan, Lists
  <1>9. Begun'
    <2>1. \A d \in Held' : Announced(d)'
      BY <1>3, <1>4, HeldKnown DEF BatchInv, Begun
    <2> QED BY <1>1, <1>2, <1>3, <2>1 DEF BatchInv, Begun
  <1> QED BY <1>6, <1>7, <1>8, <1>9 DEF BatchInv

LEMMA EndSiblingOn == ASSUME BatchInv, TypeOK', EndSibling PROVE BatchInv'
  <1>1. /\ pc = "sibling" /\ out = <<>> /\ queue = <<>> /\ pc' = "siblings"
        /\ out' = <<Event("end", settling)>>
        /\ stage' = [stage EXCEPT ![settling] = "gone"]
        /\ UNCHANGED <<log, planVars, pending, todo, queue, closed, accepted>>
    BY DEF EndSibling, Ready, HasUpdates, pollVars, queueVars
  <1>2. mode = "parallel" /\ prepared = <<>>
    BY <1>1, ModeIs DEF BatchInv, Plan, SequentialPlan, ParallelPlan
  <1>3. settling \in Call /\ settling \in closed /\ settling \in Held
    BY <1>1, <1>2 DEF BatchInv, TypeOK, Begun, Held
  <1>4. Held' = Held \ {settling}
    <2>1. Held = Members(pending) \cup Members(todo) \cup {settling}
      BY <1>1, <1>2, MembersKnown DEF Held
    <2>2. Held' = Members(pending) \cup Members(todo)
      BY <1>1, <1>2, MembersKnown DEF Held, planVars
    <2>3. settling \notin Members(pending) \cup Members(todo)
      BY <1>1, <1>2 DEF BatchInv, Plan, ParallelPlan
    <2> QED BY <2>1, <2>2, <2>3
  <1>5. \A d \in Call : (Announced(d)' <=> Announced(d)) /\ (Answered(d)' <=> Answered(d)) /\ ~Answered(d)
    BY <1>1, <1>2 DEF Announced, Answered, planVars
  <1>6. Announced(settling)
    BY <1>3 DEF BatchInv, Begun
  <1>7. \A d \in Call : \/ stage'[d] = "unstarted" <=> stage[d] = "unstarted"
                        \/ stage'[d] # "unstarted" /\ d \in closed' /\ Announced(d)'
    BY <1>1, <1>3, <1>5, <1>6 DEF BatchInv, TypeOK
  <1>8. Ledger' /\ InOrder' /\ Flow'
    <2>1. Event("update", settling) \notin Members(queue)
      BY <1>1, MembersKnown
    <2> QED BY <1>1, <1>2, <1>3, <1>4, <1>5, <1>7, <2>1, EndOn DEF Losing, planVars
  <1>9. Plan'
    BY <1>1, <1>2 DEF BatchInv, Plan, SequentialPlan, ParallelPlan, Lists, Members, Distinct, planVars
  <1>10. Begun'
    <2>1. \A d \in Held' : Announced(d)'
      BY <1>4, <1>5, HeldKnown DEF BatchInv, Begun
    <2> QED BY <1>1, <1>2, <2>1 DEF BatchInv, Begun, planVars
  <1> QED BY <1>8, <1>9, <1>10 DEF BatchInv

LEMMA EndCallOn == ASSUME BatchInv, TypeOK', EndCall PROVE BatchInv'
  <1>1. /\ pc = "settle" /\ out = <<>> /\ queue = <<>>
        /\ pc' = AfterSettling /\ current' = NextCurrent(pc')
        /\ out' = <<Event("end", settling)>>
        /\ stage' = [stage EXCEPT ![settling] = "gone"]
        /\ UNCHANGED <<log, mode, prepared, completion, settling, pending, todo,
                       queue, closed, accepted>>
    BY DEF EndCall, Ready, HasUpdates, pollVars, queueVars
  <1>2. /\ mode = "parallel" => prepared = <<>> /\ todo = <<>>
        /\ mode = "parallel" => settling \notin Members(pending)
        /\ mode = "sequential" => settling = current
    BY <1>1 DEF BatchInv, Plan, SequentialPlan, ParallelPlan
  <1>3. /\ mode = "sequential" => pc' = "answer" /\ current' = current
        /\ mode = "parallel" /\ pending = <<>> => pc' = "append" /\ current' = 1
        /\ mode = "parallel" /\ pending # <<>> => pc' = "take" /\ current' = current
        /\ \A d \in Call : (Announced(d)' <=> Announced(d)) /\ (Answered(d)' <=> Answered(d))
        /\ mode = "parallel" => \A d \in Call : ~Answered(d)
    BY <1>1, Settled
  <1>4. settling \in Call /\ settling \in closed /\ mode \in {"sequential", "parallel"}
    BY <1>1, ModeIs DEF BatchInv, TypeOK, Begun
  <1>5. settling \in Held /\ Held' = Held \ {settling}
    <2>1. CASE mode = "sequential"
      BY <1>1, <1>2, <1>3, <2>1 DEF Held, InCall
    <2>2. CASE mode = "parallel"
      <3>1. Held = Members(pending) \cup {settling}
        BY <1>1, <1>2, <2>2, MembersKnown DEF Held
      <3>2. Held' = Members(pending)
        BY <1>1, <1>2, <1>3, <2>2, MembersKnown DEF Held
      <3> QED BY <1>2, <2>2, <3>1, <3>2
    <2> QED BY <1>4, <2>1, <2>2
  <1>6. Announced(settling)
    BY <1>5 DEF BatchInv, Begun
  <1>7. \A d \in Call : \/ stage'[d] = "unstarted" <=> stage[d] = "unstarted"
                        \/ stage'[d] # "unstarted" /\ d \in closed' /\ Announced(d)'
    BY <1>1, <1>3, <1>4, <1>6 DEF BatchInv, TypeOK
  <1>8. ~Answered(settling)
    BY <1>1, <1>2, <1>4, CallIs DEF Answered
  <1>9. Ledger' /\ InOrder' /\ Flow'
    <2>1. Event("update", settling) \notin Members(queue)
      BY <1>1, MembersKnown
    <2> QED BY <1>1, <1>3, <1>4, <1>5, <1>7, <1>8, <2>1, EndOn DEF Losing
  <1>10. Plan'
    <2>1. SequentialPlan'
      BY <1>1, <1>3 DEF BatchInv, Plan, SequentialPlan, AtWork
    <2>2. mode = "parallel" => current = Width
      BY <1>1 DEF BatchInv, Plan, ParallelPlan
    <2>3. ParallelPlan'
      BY <1>1, <1>2, <1>3, <2>2, MembersKnown DEF ParallelPlan
    <2> QED BY <1>1, <2>1, <2>3 DEF BatchInv, Plan, Lists, Distinct
  <1>11. Begun'
    <2>1. \A d \in Held' : Announced(d)'
      BY <1>3, <1>5, HeldKnown DEF BatchInv, Begun
    <2>2. \A d \in Call : completion'[d] # "skipped"
      BY <1>1 DEF BatchInv, Begun
    <2>3. mode = "sequential" => \A d \in Call : d > current => stage'[d] = "unstarted"
      BY <1>1, <1>2, CallIs DEF BatchInv, Begun, TypeOK
    <2> QED BY <1>1, <1>3, <1>4, <2>1, <2>2, <2>3 DEF Begun
  <1> QED BY <1>9, <1>10, <1>11 DEF BatchInv

LEMMA AbortOn == ASSUME BatchInv, TypeOK', AbortPending PROVE BatchInv'
  <1> DEFINE c == Head(pending)
  <1>1. /\ pc = "abort" /\ out = <<>> /\ pending # <<>> /\ pending' = Tail(pending)
        /\ closed' = closed \cup {c}
        /\ completion' = [completion EXCEPT ![c] = "aborted"]
        /\ stage' = [stage EXCEPT ![c] = "gone"]
        /\ out' = <<Event("end", c)>>
        /\ UNCHANGED <<log, pc, mode, current, prepared, settling, todo, queue, accepted>>
    BY DEF AbortPending, Ready
  <1>2. mode = "parallel" /\ prepared = <<>> /\ todo = <<>> /\ Distinct(pending)
    BY <1>1, ModeIs DEF BatchInv, Plan, SequentialPlan, ParallelPlan, Lists
  <1>3. c \in Call /\ Members(pending) = Members(pending') \cup {c} /\ c \notin Members(pending')
        /\ Distinct(pending')
    BY <1>1, <1>2, MembersTail DEF BatchInv, TypeOK
  <1> HIDE DEF c
  <1>4. Held = Members(pending) /\ Held' = Members(pending')
    BY <1>1, <1>2, MembersKnown DEF Held
  <1>5. c \in Held /\ Held' = Held \ {c}
    BY <1>3, <1>4
  <1>6. \A d \in Call : (Announced(d)' <=> Announced(d)) /\ (Answered(d)' <=> Answered(d)) /\ ~Answered(d)
    BY <1>1, <1>2 DEF Announced, Answered
  <1>7. Announced(c)
    BY <1>5 DEF BatchInv, Begun
  <1>8. \A d \in Call : \/ stage'[d] = "unstarted" <=> stage[d] = "unstarted"
                        \/ stage'[d] # "unstarted" /\ d \in closed' /\ Announced(d)'
    BY <1>1, <1>3, <1>6, <1>7 DEF BatchInv, TypeOK
  <1>9. /\ completion'[c] = "aborted" /\ c \in closed' /\ closed \subseteq closed'
        /\ \A d \in Call : d # c => completion'[d] = completion[d]
    BY <1>1, <1>3 DEF BatchInv, TypeOK
  <1>10. Ledger' /\ InOrder' /\ Flow'
    BY <1>1, <1>2, <1>3, <1>5, <1>6, <1>8, <1>9, EndOn DEF Losing
  <1>11. Plan'
    <2>1. Members(todo) = {} /\ Members(prepared) = {}
      BY <1>2, MembersKnown
    <2> QED BY <1>1, <1>2, <1>3, <2>1 DEF BatchInv, Plan, SequentialPlan, ParallelPlan, Lists
  <1>12. Begun'
    <2>1. \A d \in Held' : Announced(d)'
      BY <1>5, <1>6, HeldKnown DEF BatchInv, Begun
    <2>2. \A d \in Call : completion'[d] # "skipped"
      BY <1>1, <1>9 DEF BatchInv, Begun
    <2> QED BY <1>1, <1>2, <2>1, <2>2 DEF Begun
  <1> QED BY <1>10, <1>11, <1>12 DEF BatchInv

LEMMA AbortedOn == ASSUME BatchInv, TypeOK', AllAborted PROVE BatchInv'
  <1>1. /\ pc = "abort" /\ pending = <<>> /\ pc' = "append" /\ current' = 1
        /\ UNCHANGED <<logVars, mode, prepared, completion, settling, pending, todo,
                       queue, closed, accepted, stage>>
    BY DEF AllAborted, Ready, pollVars, queueVars, toolVars
  <1>2. mode = "parallel" /\ prepared = <<>> /\ todo = <<>> /\ current = Width
    BY <1>1, ModeIs DEF BatchInv, Plan, SequentialPlan, ParallelPlan
  <1>3. Held = {} /\ Held' = {}
    BY <1>1, <1>2, MembersKnown DEF Held
  <1>4. \A d \in Call : (Announced(d)' <=> Announced(d)) /\ (Answered(d)' <=> Answered(d))
    BY <1>1, <1>2, CallIs DEF Announced, Answered
  <1>5. Marks("none", 0)
    BY <1>3, <1>4 DEF Marks, Ended
  <1>6. Ledger' /\ InOrder'
    BY <1>1, <1>5, Silent DEF BatchInv, Said, logVars
  <1>7. Flow'
    BY <1>1, <1>5, FlowStep DEF BatchInv, Marks, Losing
  <1>8. Plan'
    BY <1>1, <1>2, MembersKnown DEF BatchInv, Plan, SequentialPlan, ParallelPlan, Lists
  <1>9. Begun'
    BY <1>1, <1>2, <1>3 DEF BatchInv, Begun
  <1> QED BY <1>6, <1>7, <1>8, <1>9 DEF BatchInv

(***************************************************************************)
(* Results.                                                                *)
(***************************************************************************)
\* A call is answered that was not, and those after it are not.
LEMMA AnswerOn ==
  ASSUME BatchInv, TypeOK', NEW c \in Call, out = <<>>, log' = log,
         out' = <<Event("result", c)>>, mode' = mode,
         UNCHANGED <<queue, accepted, closed, stage>>,
         Held = {}, Held' = {},
         \A d \in Call : Announced(d)' <=> Announced(d),
         \A d \in Call : Answered(d)' <=> Answered(d) \/ d = c,
         ~Answered(c),
         \A d \in Call : c < d => /\ ~Answered(d)
                                  /\ mode = "sequential" => ~Announced(d),
         Losing => Losing',
         \A d \in Call : Ended(d) => completion'[d] = completion[d]
  PROVE  Ledger' /\ InOrder' /\ Flow'
  <1>1. Marks("result", c)
    BY DEF Marks, Ended
  <1>2. Ledger' /\ InOrder'
    BY <1>1, Speak DEF BatchInv
  <1>3. \A d \in Call : Ended(d)' <=> Ended(d)
    BY <1>1 DEF Marks
  <1>4. Flow'
    BY <1>3, FlowStep DEF BatchInv
  <1> QED BY <1>2, <1>4

LEMMA AppendOn == ASSUME BatchInv, TypeOK', AppendResult PROVE BatchInv'
  <1>1. /\ pc = "append" /\ out = <<>> /\ out' = <<Event("result", current)>>
        /\ \/ current < Width /\ pc' = "append" /\ current' = current + 1
           \/ current >= Width /\ pc' = "done" /\ current' = current
        /\ UNCHANGED <<log, mode, prepared, completion, settling, pending, todo,
                       queue, closed, accepted, stage>>
    <2>1. current \in Nat /\ Width \in Nat
      BY CallIs DEF BatchInv, TypeOK
    <2> QED BY <2>1 DEF AppendResult, Ready, pollVars, queueVars, toolVars
  <1>2. mode = "parallel" /\ prepared = <<>> /\ todo = <<>> /\ pending = <<>>
    BY <1>1, ModeIs DEF BatchInv, Plan, SequentialPlan, ParallelPlan
  <1>3. Held = {} /\ Held' = {}
    BY <1>1, <1>2, MembersKnown DEF Held
  <1>4. \A d \in Call : completion[d] # "skipped"
    BY <1>1 DEF BatchInv, Begun
  <1>5. current \in Call
    BY DEF BatchInv, TypeOK
  <1>6. \A d \in Call : /\ Announced(d)' <=> Announced(d)
                        /\ Answered(d)' <=> Answered(d) \/ d = current
                        /\ Answered(d) => d < current
    BY <1>1, <1>2, <1>4, <1>5, CallIs DEF Announced, Answered
  <1>7. Losing'
    BY <1>1, <1>2 DEF Losing
  <1>8. Ledger' /\ InOrder' /\ Flow'
    <2>1. ~Answered(current) /\ \A d \in Call : current < d => ~Answered(d)
      BY <1>5, <1>6, CallIs
    <2> QED BY <1>1, <1>2, <1>3, <1>5, <1>6, <1>7, <2>1, AnswerOn
  <1>9. Plan'
    BY <1>1, <1>2 DEF BatchInv, Plan, SequentialPlan, ParallelPlan, Lists
  <1>10. Begun'
    BY <1>1, <1>2, <1>3, <1>4 DEF Begun
  <1> QED BY <1>8, <1>9, <1>10 DEF BatchInv

LEMMA AnsweringOn == ASSUME BatchInv, TypeOK', Answer PROVE BatchInv'
  <1>1. /\ pc = "answer" /\ out = <<>> /\ out' = <<Event("result", current)>> /\ pc' = "observe"
        /\ UNCHANGED <<log, planVars, pending, todo, queue, closed, accepted, stage>>
    BY DEF Answer, Ready, pollVars, queueVars, toolVars
  <1>2. mode = "sequential"
    BY <1>1, ModeIs DEF BatchInv, Plan, ParallelPlan
  <1>3. Held = {} /\ Held' = {}
    BY <1>1, <1>2 DEF Held, InCall, planVars
  <1>4. current \in Call
    BY DEF BatchInv, TypeOK
  <1>5. \A d \in Call : /\ Announced(d)' <=> Announced(d)
                        /\ Announced(d) <=> d <= current
                        /\ Answered(d)' <=> Answered(d) \/ d = current
                        /\ Answered(d) <=> d < current
    BY <1>1, <1>2, <1>4, CallIs DEF Announced, Answered, planVars
  <1>6. Ledger' /\ InOrder' /\ Flow'
    <2>1. ~Answered(current) /\ \A d \in Call : current < d => ~Answered(d) /\ ~Announced(d)
      BY <1>4, <1>5, CallIs
    <2> QED BY <1>1, <1>2, <1>3, <1>4, <1>5, <2>1, AnswerOn DEF Losing, planVars
  <1>7. Plan'
    BY <1>1, <1>2 DEF BatchInv, Plan, SequentialPlan, ParallelPlan, Lists, AtWork, planVars
  <1>8. Begun'
    BY <1>1, <1>2, <1>3 DEF BatchInv, Begun, planVars
  <1> QED BY <1>6, <1>7, <1>8 DEF BatchInv

LEMMA SkipOn == ASSUME BatchInv, TypeOK', SkipCall PROVE BatchInv'
  <1>1. /\ pc = "skip" /\ out = <<>> /\ out' = <<Event("result", current)>>
        /\ completion' = [completion EXCEPT ![current] = "skipped"]
        /\ \/ current < Width /\ pc' = "skip" /\ current' = current + 1
           \/ current >= Width /\ pc' = "done" /\ current' = current
        /\ UNCHANGED <<log, mode, prepared, settling, pending, todo, queue, closed,
                       accepted, stage>>
    <2>1. current \in Nat /\ Width \in Nat
      BY CallIs DEF BatchInv, TypeOK
    <2> QED BY <2>1 DEF SkipCall, Ready, pollVars, queueVars, toolVars
  <1>2. mode = "sequential"
    BY <1>1, ModeIs DEF BatchInv, Plan, ParallelPlan
  <1>3. Held = {} /\ Held' = {}
    BY <1>1, <1>2 DEF Held, InCall
  <1>4. current \in Call
    BY DEF BatchInv, TypeOK
  <1>5. \A d \in Call : /\ d # current => completion'[d] = completion[d]
                        /\ d = current => completion'[d] = "skipped"
    BY <1>1, <1>4 DEF BatchInv, TypeOK
  <1>6. \A d \in Call : /\ Announced(d)' <=> Announced(d)
                        /\ Announced(d) => d < current
                        /\ Answered(d)' <=> Answered(d) \/ d = current
                        /\ Answered(d) <=> d < current
    BY <1>1, <1>2, <1>4, <1>5, CallIs DEF Announced, Answered
  <1>7. Ledger' /\ InOrder' /\ Flow'
    <2>1. ~Answered(current) /\ \A d \in Call : current < d => ~Answered(d) /\ ~Announced(d)
      BY <1>4, <1>6, CallIs
    <2>2. \A d \in Call : Ended(d) => completion'[d] = completion[d]
      BY <1>4, <1>5, <1>6, CallIs DEF Ended
    <2> QED BY <1>1, <1>2, <1>3, <1>4, <1>6, <2>1, <2>2, AnswerOn DEF Losing
  <1>8. Plan'
    BY <1>1, <1>2 DEF BatchInv, Plan, SequentialPlan, ParallelPlan, Lists, AtWork
  <1>9. Begun'
    <2>1. \A d \in Call : completion'[d] = "skipped" => pc' \in {"skip", "done"} /\ (pc' = "skip" => d < current')
      BY <1>1, <1>4, <1>5, CallIs DEF BatchInv, Begun
    <2>2. \A d \in Call : d > current' => stage'[d] = "unstarted"
      BY <1>1, <1>2, <1>4, CallIs DEF BatchInv, Begun
    <2> QED BY <1>1, <1>2, <1>3, <2>1, <2>2 DEF Begun
  <1> QED BY <1>7, <1>8, <1>9 DEF BatchInv

LEMMA ObserveOn == ASSUME BatchInv, TypeOK', Observe PROVE BatchInv'
  <1>1. /\ pc = "observe" /\ out = <<>>
        /\ UNCHANGED <<logVars, mode, prepared, completion, settling, pending, todo,
                       queue, closed, accepted, stage>>
    BY DEF Observe, Ready, pollVars, queueVars, toolVars
  <1>2. current \in Call
    BY DEF BatchInv, TypeOK
  <1>3. \/ current < Width /\ pc' \in {"announce", "skip"} /\ current' = current + 1
        \/ current = Width /\ pc' = "done" /\ current' = current
    BY <1>2, CallIs DEF Observe, AfterResult, Step
  <1>4. mode = "sequential"
    BY <1>1, ModeIs DEF BatchInv, Plan, ParallelPlan
  <1>5. Held = {} /\ Held' = {}
    BY <1>1, <1>3, <1>4 DEF Held, InCall
  <1>6. \A d \in Call : completion[d] # "skipped"
    BY <1>1 DEF BatchInv, Begun
  <1>7. \A d \in Call : (Announced(d)' <=> Announced(d)) /\ (Answered(d)' <=> Answered(d))
    BY <1>1, <1>2, <1>3, <1>4, <1>6, CallIs DEF Announced, Answered
  <1>8. Marks("none", 0)
    BY <1>5, <1>7 DEF Marks, Ended
  <1>9. Ledger' /\ InOrder'
    BY <1>1, <1>8, Silent DEF BatchInv, Said, logVars
  <1>10. Flow'
    BY <1>1, <1>4, <1>8, FlowStep DEF BatchInv, Marks, Losing
  <1>11. Plan'
    BY <1>1, <1>3, <1>4 DEF BatchInv, Plan, SequentialPlan, ParallelPlan, Lists, AtWork
  <1>12. Begun'
    BY <1>1, <1>2, <1>3, <1>4, <1>5, <1>6, CallIs DEF BatchInv, Begun
  <1> QED BY <1>9, <1>10, <1>11, <1>12 DEF BatchInv

(***************************************************************************)
(* Preparing calls, starting their tools, and their callbacks.             *)
(***************************************************************************)
LEMMA AnnounceOn == ASSUME BatchInv, TypeOK', Announce PROVE BatchInv'
  <1>1. /\ pc = "announce" /\ out = <<>> /\ out' = <<Event("start", current)>> /\ pc' = "prepare"
        /\ UNCHANGED <<log, planVars, pending, todo, queue, closed, accepted, stage>>
    BY DEF Announce, Ready, pollVars, queueVars, toolVars
  <1>2. current \in Call
    BY DEF BatchInv, TypeOK
  <1>3. \A d \in Call : /\ Announced(d) <=> d < current
                        /\ Announced(d)' <=> Announced(d) \/ d = current
                        /\ Answered(d)' <=> Answered(d)
                        /\ Answered(d) => d < current
    BY <1>1, <1>2, CallIs DEF Announced, Answered, planVars
  <1>4. Held' = Held \cup {current}
    <2>1. CASE mode = "sequential"
      BY <1>1, <2>1 DEF Held, InCall, planVars
    <2>2. CASE mode = "parallel"
      BY <1>1, <2>2 DEF Held, planVars, Members
    <2> QED BY <2>1, <2>2, ModeIs DEF BatchInv
  <1>5. \A d \in Held : d \in Call /\ Announced(d)
    BY HeldKnown DEF BatchInv, Begun
  <1>6. current \notin Held /\ ~Announced(current) /\ ~Ended(current) /\ ~Answered(current)
    BY <1>2, <1>3, <1>5, CallIs DEF Ended
  <1>7. \A d \in Call : Ended(d)' <=> Ended(d)
    BY <1>2, <1>3, <1>4, <1>6 DEF Ended
  <1>8. Marks("start", current)
    BY <1>3, <1>7 DEF Marks
  <1>9. Ledger' /\ InOrder'
    <2>1. accepted[current] = 0
      BY <1>2, <1>6 DEF BatchInv, Flow
    <2> QED BY <1>1, <1>2, <1>6, <1>8, <2>1, Speak DEF BatchInv, planVars
  <1>10. Flow'
    BY <1>1, <1>3, <1>7, FlowStep DEF BatchInv, Losing, planVars
  <1>11. Plan'
    <2>1. mode = "parallel" => current \notin Members(prepared)
      BY <1>6 DEF Held
    <2> QED BY <1>1, <2>1 DEF BatchInv, Plan, SequentialPlan, ParallelPlan, Lists, Distinct, Members, AtWork, planVars
  <1>12. Begun'
    <2>1. \A d \in Held' : Announced(d)'
      BY <1>2, <1>3, <1>4, <1>5
    <2> QED BY <1>1, <2>1 DEF BatchInv, Begun, planVars
  <1> QED BY <1>9, <1>10, <1>11, <1>12 DEF BatchInv

\* Where a prepared call leaves the task.
LEMMA PreparedNext ==
  ASSUME BatchInv, mode = "parallel", pc' = AfterPreparation, Step(AfterPreparation)
  PROVE  \/ current < Width /\ pc' = "announce" /\ current' = current + 1
         \/ current = Width /\ pc' = "launch" /\ current' = current
  BY CallIs DEF AfterPreparation, Step, BatchInv, TypeOK

LEMMA ImmediateOn == ASSUME BatchInv, TypeOK', PrepareImmediate PROVE BatchInv'
  <1>1. /\ pc = "prepare" /\ out = <<>> /\ out' = <<Event("end", current)>>
        /\ completion' = [completion EXCEPT ![current] = "immediate"]
        /\ UNCHANGED <<log, mode, prepared, settling, pending, todo, queue, closed,
                       accepted, stage>>
    BY DEF PrepareImmediate, Ready, pollVars, queueVars, toolVars
  <1>2. current \in Call
    BY DEF BatchInv, TypeOK
  <1>3. \/ mode = "sequential" /\ pc' = "answer" /\ current' = current
        \/ mode = "parallel" /\ current < Width /\ pc' = "announce" /\ current' = current + 1
        \/ mode = "parallel" /\ current = Width /\ pc' = "launch" /\ current' = current
    <2>1. CASE mode = "parallel"
      BY <2>1, PreparedNext, Zenon DEF PrepareImmediate
    <2>2. CASE mode = "sequential"
      BY <2>2 DEF PrepareImmediate
    <2> QED BY <2>1, <2>2, ModeIs DEF BatchInv
  <1>4. \A d \in Call : /\ Announced(d)' <=> Announced(d)
                        /\ Announced(d) <=> d <= current
                        /\ Answered(d)' <=> Answered(d)
                        /\ Answered(d) => mode = "sequential" /\ d < current
    BY <1>1, <1>2, <1>3, CallIs DEF Announced, Answered
  <1>5. current \in Held /\ Held' = Held \ {current}
    <2>1. CASE mode = "sequential"
      BY <1>1, <1>3, <2>1 DEF Held, InCall
    <2>2. CASE mode = "parallel"
      <3>1. pending = <<>> /\ todo = <<>> /\ current \notin Members(prepared)
        BY <1>1, <2>2 DEF BatchInv, Plan, ParallelPlan
      <3>2. Held = Members(prepared) \cup {current}
        BY <1>1, <2>2, <3>1, MembersKnown DEF Held
      <3>3. Held' = Members(prepared)
        BY <1>1, <1>3, <2>2, <3>1, MembersKnown DEF Held
      <3> QED BY <3>1, <3>2, <3>3
    <2> QED BY <2>1, <2>2, ModeIs DEF BatchInv
  <1>6. stage[current] = "unstarted"
    BY <1>1, <1>2, <1>3 DEF BatchInv, Begun
  <1>7. Event("update", current) \notin Members(queue)
    <2>1. accepted[current] = 0
      BY <1>2, <1>6 DEF BatchInv, Flow
    <2> QED BY <1>2, <2>1, LedgerSays DEF BatchInv
  <1>8. ~Answered(current) /\ (mode = "parallel" => \A d \in Call : ~Answered(d))
    BY <1>2, <1>4, CallIs
  <1>9. /\ completion'[current] = "immediate"
        /\ \A d \in Call : d # current => completion'[d] = completion[d]
    BY <1>1, <1>2 DEF BatchInv, TypeOK
  <1>10. Ledger' /\ InOrder' /\ Flow'
    BY <1>1, <1>2, <1>4, <1>5, <1>6, <1>7, <1>8, <1>9, EndOn DEF Losing
  <1>11. Plan'
    <2>1. mode = "sequential" => prepared = <<>>
      BY <1>1 DEF BatchInv, Plan, SequentialPlan
    <2>2. mode = "parallel" => pending = <<>> /\ todo = <<>>
      BY <1>1 DEF BatchInv, Plan, ParallelPlan
    <2> QED BY <1>1, <1>3, <2>1, <2>2, MembersKnown DEF BatchInv, Plan, SequentialPlan, ParallelPlan, Lists, AtWork
  <1>12. Begun'
    <2>1. \A d \in Held' : Announced(d)'
      BY <1>4, <1>5, HeldKnown DEF BatchInv, Begun
    <2>2. \A d \in Call : completion'[d] # "skipped"
      BY <1>1, <1>9 DEF BatchInv, Begun
    <2> QED BY <1>1, <1>3, <2>1, <2>2 DEF BatchInv, Begun
  <1> QED BY <1>10, <1>11, <1>12 DEF BatchInv

LEMMA ExecutionOn == ASSUME BatchInv, TypeOK', PrepareExecution PROVE BatchInv'
  <1>1. /\ pc = "prepare" /\ out = <<>> /\ prepared' = Append(prepared, current)
        /\ UNCHANGED <<logVars, mode, completion, settling, pending, todo, queue, closed,
                       accepted, stage>>
    BY DEF PrepareExecution, Ready, pollVars, queueVars, toolVars
  <1>2. current \in Call /\ prepared \in Seq(Call)
    BY DEF BatchInv, TypeOK
  <1>3. \/ mode = "sequential" /\ pc' = "launch" /\ current' = current
        \/ mode = "parallel" /\ current < Width /\ pc' = "announce" /\ current' = current + 1
        \/ mode = "parallel" /\ current = Width /\ pc' = "launch" /\ current' = current
    <2>1. CASE mode = "parallel"
      BY <2>1, PreparedNext, Zenon DEF PrepareExecution
    <2>2. CASE mode = "sequential"
      BY <2>2 DEF PrepareExecution
    <2> QED BY <2>1, <2>2, ModeIs DEF BatchInv
  <1>4. /\ Members(prepared') = Members(prepared) \cup {current}
        /\ Distinct(prepared) /\ current \notin Members(prepared) => Distinct(prepared')
    BY <1>1, <1>2, MembersAppend
  <1>5. Held' = Held
    <2>1. CASE mode = "sequential"
      BY <1>1, <1>3, <2>1 DEF Held, InCall
    <2>2. CASE mode = "parallel"
      BY <1>1, <1>3, <1>4, <2>2 DEF Held
    <2> QED BY <2>1, <2>2, ModeIs DEF BatchInv
  <1>6. \A d \in Call : (Announced(d)' <=> Announced(d)) /\ (Answered(d)' <=> Answered(d))
    BY <1>1, <1>2, <1>3, CallIs DEF Announced, Answered
  <1>7. Marks("none", 0)
    BY <1>5, <1>6 DEF Marks, Ended
  <1>8. Ledger' /\ InOrder'
    BY <1>1, <1>7, Silent DEF BatchInv, Said, logVars
  <1>9. Flow'
    BY <1>1, <1>7, FlowStep DEF BatchInv, Marks, Losing
  <1>10. Plan'
    <2>1. SequentialPlan'
      <3>1. mode = "sequential" => prepared' = <<current>>
        BY <1>1, <1>2 DEF BatchInv, Plan, SequentialPlan
      <3> QED BY <1>1, <1>3, <3>1 DEF SequentialPlan, AtWork
    <2>2. ParallelPlan' /\ Lists'
      <3> SUFFICES ASSUME mode = "parallel" PROVE ParallelPlan' /\ Lists'
        BY <1>1 DEF ParallelPlan, Lists
      <3>1. pending = <<>> /\ todo = <<>> /\ current \notin Members(prepared) /\ Distinct(prepared)
        BY <1>1 DEF BatchInv, Plan, ParallelPlan, Lists
      <3> QED BY <1>1, <1>3, <1>4, <3>1, MembersKnown DEF ParallelPlan, Lists
    <2> QED BY <2>1, <2>2 DEF Plan
  <1>11. Begun'
    <2>1. \A d \in Held' : Announced(d)'
      BY <1>5, <1>6, HeldKnown DEF BatchInv, Begun
    <2> QED BY <1>1, <1>3, <2>1 DEF BatchInv, Begun
  <1> QED BY <1>8, <1>9, <1>10, <1>11 DEF BatchInv

LEMMA LaunchOn == ASSUME BatchInv, TypeOK', Launch PROVE BatchInv'
  <1>1. /\ pc = "launch" /\ out = <<>> /\ pending' = prepared /\ prepared' = <<>>
        /\ stage' = [c \in Call |->
               IF c \notin {prepared[i] : i \in DOMAIN prepared} THEN stage[c]
               ELSE IF c \in Watchers THEN "racing" ELSE "plain"]
        /\ UNCHANGED <<logVars, mode, completion, settling, todo, queue, closed, accepted>>
    BY DEF Launch, Ready, queueVars
  <1>2. current \in Call
    BY DEF BatchInv, TypeOK
  <1>3. /\ mode = "parallel" => pending = <<>> /\ todo = <<>> /\ current = Width
        /\ mode = "sequential" => prepared = <<current>>
    BY <1>1 DEF BatchInv, Plan, SequentialPlan, ParallelPlan
  <1>4. \/ mode = "sequential" /\ pc' = "launched" /\ current' = current
        \/ mode = "parallel" /\ prepared = <<>> /\ pc' = "append" /\ current' = 1
        \/ mode = "parallel" /\ prepared # <<>> /\ pc' = "take" /\ current' = current
    <2>1. current' = IF pc' = "append" THEN 1 ELSE current
      BY DEF Launch
    <2>2. CASE mode = "sequential"
      <3>1. prepared # <<>>
        BY <1>3, <2>2
      <3>2. pc' = "launched"
        BY <2>2, <3>1 DEF Launch
      <3> QED BY <2>1, <2>2, <3>2
    <2>3. CASE mode # "sequential" /\ prepared = <<>>
      <3>1. pc' = "append"
        BY <2>3 DEF Launch
      <3> QED BY <2>1, <2>3, <3>1, ModeIs DEF BatchInv
    <2>4. CASE mode # "sequential" /\ prepared # <<>>
      <3>1. pc' = "take"
        BY <2>4 DEF Launch
      <3> QED BY <2>1, <2>4, <3>1, ModeIs DEF BatchInv
    <2> QED BY <2>2, <2>3, <2>4
  <1>5. Held = Members(prepared) /\ Held' = Held
    <2>1. CASE mode = "sequential"
      BY <1>1, <1>4, <1>3, <2>1, MembersKnown DEF Held, InCall
    <2>2. CASE mode = "parallel"
      BY <1>1, <1>4, <1>3, <2>2, MembersKnown DEF Held
    <2> QED BY <2>1, <2>2, ModeIs DEF BatchInv
  <1>6. \A d \in Call : (Announced(d)' <=> Announced(d)) /\ (Answered(d)' <=> Answered(d))
    BY <1>1, <1>2, <1>4, <1>3, CallIs DEF Announced, Answered
  <1>7. Marks("none", 0)
    BY <1>5, <1>6 DEF Marks, Ended
  <1>8. Ledger' /\ InOrder'
    BY <1>1, <1>7, Silent DEF BatchInv, Said, logVars
  <1>9. \A c \in Call : /\ c \in Held => stage'[c] # "unstarted"
                        /\ c \notin Held => stage'[c] = stage[c]
    BY <1>1, <1>5 DEF Members
  <1>10. Flow'
    <2>1. \A i \in DOMAIN queue' : queue'[i].kind = "update"
      BY <1>1 DEF BatchInv, Flow
    <2>2. ASSUME NEW c \in Call
          PROVE  /\ accepted'[c] # 0 => stage'[c] # "unstarted"
                 /\ stage'[c] # "unstarted" => Announced(c)'
                 /\ Ended(c)' => c \in closed' \/ stage'[c] = "unstarted"
                 /\ Ended(c)' /\ Event("update", c) \in Members(queue') =>
                        Losing' /\ completion'[c] # "executed"
      <3>1. c \in Held => Announced(c) /\ ~Ended(c)
        BY DEF BatchInv, Begun, Ended
      <3>2. Ended(c)' <=> Ended(c)
        BY <1>7 DEF Marks
      <3>3. ~Losing
        BY <1>1 DEF Losing
      <3>4. ~(Ended(c) /\ Event("update", c) \in Members(queue))
        BY <3>3 DEF BatchInv, Flow
      <3>5. Members(queue') = Members(queue)
        BY <1>1
      <3>6. /\ accepted[c] # 0 => stage[c] # "unstarted"
            /\ stage[c] # "unstarted" => Announced(c)
            /\ Ended(c) => c \in closed \/ stage[c] = "unstarted"
        BY DEF BatchInv, Flow
      <3> QED BY <1>1, <1>6, <1>9, <3>1, <3>2, <3>4, <3>5, <3>6
    <2> QED BY <2>1, <2>2 DEF Flow, Event, Members
  <1>11. Plan'
    <2>1. SequentialPlan'
      BY <1>1, <1>4, <1>3 DEF SequentialPlan, AtWork
    <2>2. ParallelPlan' /\ Lists'
      <3> SUFFICES ASSUME mode = "parallel" PROVE ParallelPlan' /\ Lists'
        BY <1>1 DEF ParallelPlan, Lists
      <3>1. Distinct(pending') /\ Distinct(prepared') /\ Distinct(todo') /\ Members(todo') = {}
        BY <1>1, <1>3, MembersKnown DEF BatchInv, Plan, Lists
      <3> QED BY <1>1, <1>4, <1>3, <3>1 DEF ParallelPlan, Lists
    <2> QED BY <2>1, <2>2 DEF Plan
  <1>12. Begun'
    <2>1. \A d \in Held' : Announced(d)'
      BY <1>5, <1>6, HeldKnown DEF BatchInv, Begun
    <2>2. mode = "sequential" => \A d \in Call : d > current => stage'[d] = "unstarted"
      <3>1. mode = "sequential" => Held = {current}
        BY <1>3, <1>5, MembersKnown
      <3> QED BY <1>2, <1>9, <3>1, CallIs DEF BatchInv, Begun
    <2> QED BY <1>1, <1>4, <2>1, <2>2 DEF BatchInv, Begun
  <1> QED BY <1>8, <1>10, <1>11, <1>12 DEF BatchInv

LEMMA CallbackOn == ASSUME BatchInv, TypeOK', NEW c \in Call, Callback(c) PROVE BatchInv'
  <1>1. /\ stage[c] # "unstarted" /\ c \notin closed
        /\ queue' = Append(queue, Event("update", c))
        /\ accepted' = [accepted EXCEPT ![c] = @ + 1]
        /\ UNCHANGED <<logVars, pc, planVars, pending, todo, closed, stage>>
    BY DEF Callback, pollVars, toolVars
  <1>2. ~Ended(c)
    BY <1>1 DEF BatchInv, Flow
  <1>3. Held' = Held
    BY <1>1 DEF Held, planVars, Members
  <1>4. \A d \in Call : (Announced(d)' <=> Announced(d)) /\ (Answered(d)' <=> Answered(d))
    BY <1>1 DEF Announced, Answered, planVars
  <1>5. Marks("none", 0)
    BY <1>3, <1>4 DEF Marks, Ended
  <1>6. Ledger' /\ InOrder'
    BY <1>1, <1>5, Listen DEF BatchInv, logVars, planVars
  <1>7. Flow'
    <2>1. queue \in Seq(Events) /\ Event("update", c) \in Events
      BY CallIs DEF BatchInv, TypeOK
    <2>2. Members(queue') = Members(queue) \cup {Event("update", c)}
      BY <1>1, <2>1, MembersAppend
    <2>3. \A i \in DOMAIN queue' : queue'[i].kind = "update"
      <3>1. \A x \in Members(queue) : x.kind = "update"
        BY DEF BatchInv, Flow, Members
      <3>2. \A x \in Members(queue') : x.kind = "update"
        BY <2>2, <3>1, EventIs
      <3> QED BY <3>2 DEF Members
    <2>4. ASSUME NEW d \in Call
          PROVE  /\ accepted'[d] # 0 => stage'[d] # "unstarted"
                 /\ stage'[d] # "unstarted" => Announced(d)'
                 /\ Ended(d)' => d \in closed' \/ stage'[d] = "unstarted"
                 /\ Ended(d)' /\ Event("update", d) \in Members(queue') =>
                        Losing' /\ completion'[d] # "executed"
      <3>1. Ended(d)' <=> Ended(d)
        BY <1>5 DEF Marks
      <3>2. d # c => Event("update", d) # Event("update", c)
        BY EventIs
      <3>3. d # c => accepted'[d] = accepted[d]
        BY <1>1 DEF BatchInv, TypeOK
      <3>4. /\ accepted[d] # 0 => stage[d] # "unstarted"
            /\ stage[d] # "unstarted" => Announced(d)
            /\ Ended(d) => d \in closed \/ stage[d] = "unstarted"
            /\ Ended(d) /\ Event("update", d) \in Members(queue) =>
                   Losing /\ completion[d] # "executed"
        BY DEF BatchInv, Flow
      <3>5. Losing' <=> Losing
        BY <1>1 DEF Losing, planVars
      <3> QED BY <1>1, <1>2, <1>4, <2>2, <3>1, <3>2, <3>3, <3>4, <3>5 DEF planVars
    <2> QED BY <2>3, <2>4 DEF Flow, Event, Members
  <1>8. Plan'
    BY <1>1 DEF BatchInv, Plan, SequentialPlan, ParallelPlan, Lists, Members, Distinct, planVars
  <1>9. Begun'
    BY <1>1, <1>3, <1>4, HeldKnown DEF BatchInv, Begun, planVars
  <1> QED BY <1>6, <1>7, <1>8, <1>9 DEF BatchInv

(***************************************************************************)
(* The invariant of a batch.                                               *)
(***************************************************************************)
LEMMA BatchInit == Init => BatchInv
  <1> SUFFICES ASSUME Init PROVE BatchInv
    OBVIOUS
  <1>1. TypeOK
    BY TypeInit
  <1>2. /\ log = <<>> /\ out = <<>> /\ queue = <<>> /\ pc = "announce" /\ current = 1
        /\ prepared = <<>> /\ pending = <<>> /\ todo = <<>>
        /\ completion = [c \in Call |-> "none"] /\ accepted = [c \in Call |-> 0]
        /\ stage = [c \in Call |-> "unstarted"] /\ mode \in {"sequential", "parallel"}
    BY <1>1, ModeIs DEF Init
  <1>3. Said = <<>> /\ \A e : Count(Said, e) = 0 /\ Count(queue, e) = 0
    <2>1. Said = <<>>
      BY <1>2 DEF Said
    <2> QED BY <1>2, <2>1, CountSingle
  <1>4. \A c \in Call : ~Announced(c) /\ ~Ended(c) /\ ~Answered(c)
    BY <1>2, CallIs DEF Announced, Ended, Answered
  <1>5. Ledger
    BY <1>2, <1>3, <1>4 DEF Ledger, Once
  <1>6. InOrder
    BY <1>3 DEF InOrder, Ranked, Precedes
  <1>7. Held = {}
    <2>1. CASE mode = "sequential"
      BY <1>2, <2>1 DEF Held, InCall
    <2>2. CASE mode = "parallel"
      BY <1>2, <2>2, MembersKnown DEF Held
    <2> QED BY <1>2, <2>1, <2>2
  <1>8. Plan
    BY <1>2, MembersKnown DEF Plan, SequentialPlan, ParallelPlan, Lists, AtWork
  <1>9. Flow
    BY <1>2, <1>4 DEF Flow
  <1>10. Begun
    BY <1>2, <1>7 DEF Begun
  <1> QED BY <1>1, <1>5, <1>6, <1>8, <1>9, <1>10 DEF BatchInv

LEMMA BatchStep == BatchInv /\ [Next]_vars => BatchInv'
  <1> SUFFICES ASSUME BatchInv, [Next]_vars PROVE BatchInv'
    OBVIOUS
  <1>1. TypeOK'
    BY TypeStep DEF BatchInv
  <1>2. CASE Drive
    BY <1>1, <1>2, StandingStep, AnnounceOn, ImmediateOn, ExecutionOn, LaunchOn, PollingOn,
       KeepOn, SiblingOn, SiblingsOn, FlushOn, EndSiblingOn, EndCallOn, AbortOn, AbortedOn,
       AppendOn, AnsweringOn, ObserveOn, SkipOn
       DEF Drive
  <1>3. CASE Outside
    BY <1>1, <1>3, StandingStep, CallbackOn DEF Outside
  <1>4. CASE UNCHANGED vars
    BY <1>1, <1>4, StandingStep
  <1> QED BY <1>2, <1>3, <1>4 DEF Next

\* The ledger of a batch: whatever its tools, their threads and the host do, a
\* call is announced, ended and answered exactly where the task stands, in the
\* documented order, and every accepted update is published or still queued.
THEOREM BatchInvHolds == Spec => []BatchInv
  <1>1. Init => BatchInv
    BY BatchInit
  <1>2. BatchInv /\ [Next]_vars => BatchInv'
    BY BatchStep
  <1> QED BY <1>1, <1>2, PTL DEF Spec

(***************************************************************************)
(* What an observer sees: the published part of what was said.             *)
(***************************************************************************)
LEMMA Published ==
  ASSUME TypeOK
  PROVE  /\ \A i \in DOMAIN log : i \in DOMAIN Said /\ Said[i] = log[i]
         /\ DOMAIN log = 1 .. Len(log) /\ Len(log) \in Nat
         /\ DOMAIN Said \subseteq Nat
  BY DEF TypeOK, Said

LEMMA OrderSeen == BatchInv => CallOrder
  <1> SUFFICES ASSUME BatchInv, NEW i \in DOMAIN log, NEW j \in DOMAIN log,
                      i < j, log[i].call = log[j].call
               PROVE  \/ Rank(log[i].kind) < Rank(log[j].kind)
                      \/ log[i].kind = "update" /\ log[j].kind = "update"
    BY DEF CallOrder
  <1> QED BY Published DEF BatchInv, InOrder, Ranked, Follows

LEMMA ResultsSeen == BatchInv => ResultsInOrder
  <1> SUFFICES ASSUME BatchInv PROVE ResultsInOrder
    OBVIOUS
  <1>1. \A e, f : Precedes(Said, e, f) => Before(e, f)
    BY Published DEF BatchInv, Precedes, Before
  <1> QED BY <1>1 DEF ResultsInOrder, BatchInv, InOrder

LEMMA CompleteSeen == BatchInv => BatchComplete
  <1> SUFFICES ASSUME BatchInv, pc = "done", out = <<>>, NEW c \in Call
               PROVE  /\ Cardinality(At("result", c)) = 1
                      /\ Cardinality(At("start", c)) = Cardinality(At("end", c))
                      /\ At("start", c) = {} <=> completion[c] = "skipped"
    BY DEF BatchComplete
  <1>1. Said = log /\ log \in Seq(Events)
    BY DEF BatchInv, TypeOK, Said
  <1>2. \A kind : Cardinality(At(kind, c)) = Count(Said, Event(kind, c))
    BY <1>1 DEF At, Count, Told
  <1>3. Held = {}
    <2>1. CASE mode = "sequential"
      BY <2>1 DEF Held, InCall
    <2>2. CASE mode = "parallel"
      BY <2>2, MembersKnown DEF Held, BatchInv, Plan, ParallelPlan
    <2> QED BY <2>1, <2>2, ModeIs DEF BatchInv
  <1>4. Answered(c) /\ (Announced(c) <=> completion[c] # "skipped") /\ (Ended(c) <=> Announced(c))
    BY <1>3 DEF Answered, Announced, Ended
  <1>5. /\ Count(Said, Event("start", c)) = Once(Announced(c))
        /\ Count(Said, Event("end", c)) = Once(Ended(c))
        /\ Count(Said, Event("result", c)) = Once(Answered(c))
    BY DEF BatchInv, Ledger
  <1>6. At("start", c) = {} <=> ~Announced(c)
    <2>1. At("start", c) = {} <=> Event("start", c) \notin Members(Said)
      BY <1>1 DEF At, Members
    <2> QED BY <2>1, LedgerSays DEF BatchInv
  <1> QED BY <1>2, <1>4, <1>5, <1>6 DEF Once

\* Once its end is published, all updates of an executed call have been.
LEMMA UpdatesSeen == BatchInv => UpdatesDelivered
  <1> SUFFICES ASSUME BatchInv, NEW c \in Call, At("end", c) # {}, completion[c] = "executed"
               PROVE  Cardinality(At("update", c)) = accepted[c]
    BY DEF UpdatesDelivered
  <1>1. Said \in Seq(Events) /\ queue \in Seq(Events) /\ accepted[c] \in Nat
    BY BatchAssumption DEF BatchInv, TypeOK, Said
  <1>2. PICK e \in DOMAIN log : log[e] = Event("end", c)
    BY DEF At
  <1>3. e \in DOMAIN Said /\ Said[e] = Event("end", c)
    BY <1>2, Published DEF BatchInv
  <1>4. Ended(c)
    BY <1>3, LedgerSays DEF BatchInv, Members
  <1>5. Count(queue, Event("update", c)) = 0
    <2>1. Event("update", c) \notin Members(queue)
      BY <1>4 DEF BatchInv, Flow
    <2> QED BY <1>1, <2>1, CountKnown
  <1>6. Count(Said, Event("update", c)) = accepted[c]
    <2>1. Count(Said, Event("update", c)) \in Nat
      BY <1>1, CountKnown
    <2>2. Count(Said, Event("update", c)) + Count(queue, Event("update", c)) = accepted[c]
      BY DEF BatchInv, Ledger
    <2> QED BY <1>5, <2>1, <2>2
  <1>7. Told(Said, Event("update", c)) = At("update", c)
    <2>1. At("update", c) \subseteq Told(Said, Event("update", c))
      BY Published DEF At, Told, BatchInv
    <2>2. ASSUME NEW i \in DOMAIN Said, Said[i] = Event("update", c) PROVE i \in At("update", c)
      <3>1. ~(e < i)
        BY <1>3, <2>2, EventIs DEF BatchInv, InOrder, Ranked, Follows, Rank
      <3>2. i \in Nat /\ e \in Nat /\ e <= Len(log) /\ i >= 1
        BY <1>1, <1>2, <2>2, Published DEF BatchInv
      <3>3. i \in DOMAIN log
        BY <3>1, <3>2, Published DEF BatchInv
      <3> QED BY <2>2, <3>3, Published DEF At, BatchInv
    <2> QED BY <2>1, <2>2 DEF Told
  <1> QED BY <1>6, <1>7 DEF Count

\* A batch is published whole and in order (execute_tool_calls and its two
\* modes): each call starts, updates, ends and is answered in this order and
\* once, results come in source order, and no accepted update of an executed
\* call is lost, whatever callbacks and cancellations come in between.
THEOREM BatchWhole == Spec => []BatchIsWhole
  <1>1. BatchInv => BatchIsWhole
    BY OrderSeen, ResultsSeen, CompleteSeen, UpdatesSeen DEF BatchIsWhole, BatchInv
  <1> QED BY <1>1, BatchInvHolds, PTL

=============================================================================
