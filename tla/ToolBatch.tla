----------------------------- MODULE ToolBatch -----------------------------
(***************************************************************************)
(* One batch of tool calls: the run's task prepares the calls, polls the   *)
(* tools' futures, publishes progress, ends and results, while the tools'  *)
(* own threads call back and the host cancels (tea-core                    *)
(* run/tool_execution.rs, the polling of run/mod.rs, the token of          *)
(* scheduler.rs).  An action of the task is one access to shared state: a  *)
(* lock section, a read of the token, one poll of one future, the          *)
(* publication of one event.                                               *)
(*                                                                         *)
(* Abstracted: arguments and results are absent; a future is the stage its *)
(* tool has reached; observers answer (RunLoop has the ones that fail).    *)
(***************************************************************************)
EXTENDS Naturals, Sequences, FiniteSets

CONSTANTS
    Width,      \* calls of the batch, in source order
    Watchers,   \* calls whose tool races cancelled() with its work
    Leavers,    \* watchers that may stop racing before they are done
    Modes,      \* the batch modes explored
    Holders,    \* waiters in the token, with the task's waker, as it begins
    MaxUpdates, \* bound: updates followed to the log, of one call
    Chatty      \* calls whose tools may call back without end

Call == 1 .. Width

ASSUME BatchAssumption ==
    /\ Width \in Nat \ {0} /\ MaxUpdates \in Nat
    /\ Leavers \subseteq Watchers /\ Watchers \subseteq Call
    /\ Chatty \subseteq Call
    /\ Modes \subseteq {"sequential", "parallel"}
    /\ Holders \subseteq SUBSET {0, Width + 1}

VARIABLES
    log,        \* events published
    out,        \* events the task is publishing, one await each
    pc,         \* where the task is
    mode,       \* "sequential" or "parallel"
    current,    \* call being announced, executed or answered in source order
    prepared,   \* calls that passed preparation
    pending,    \* calls whose futures the task holds
    index,      \* position in pending of the future to poll next
    completion, \* how each call completed
    settling,   \* call whose completion is being published
    updated,    \* calls of the updates just taken
    todo,       \* siblings still to settle after a cancelling update
    allowed,    \* calls polled once more although the run is cancelled
    queue,      \* PendingToolUpdates.updates, of each call the first MaxUpdates
    extra,      \* calls with further updates in it, published but not logged
    closed,     \* PendingToolUpdates.closed_calls
    registered, \* PendingToolUpdates.waker is the task's
    accepted,   \* updates accepted from each call, as far as MaxUpdates
    token,      \* "live", "flagged" (waiters not taken yet) or "cancelled"
    waiters,    \* CancellationState.waiters, all with the task's waker
    woken,      \* the task's waker was called since its last poll began
    stage,      \* how far each tool has come
    polled      \* futures that hold the task's waker for their own work

logVars == <<log, out>>
planVars == <<mode, current, prepared, completion, settling>>
pollVars == <<pending, index, updated, todo, allowed>>
queueVars == <<queue, extra, closed, registered, accepted>>
tokenVars == <<token, waiters, woken>>
toolVars == <<stage, polled>>
vars == <<logVars, pc, planVars, pollVars, queueVars, tokenVars, toolVars>>

Cancelled == token # "live"

\* Waiters with the task's waker: the one register_waker adds, and the wait of
\* a host that races its run with cancelled(); a call is that of its tool.
TheRun == 0
TheHost == Width + 1

Event(kind, c) == [kind |-> kind, call |-> c]
CallsOf(events) == {events[i].call : i \in DOMAIN events}

\* PendingToolUpdates.has_updates
HasUpdates == queue # <<>> \/ extra # {}

\* Positions of the events of a kind about a call.
At(kind, c) == {i \in DOMAIN log : log[i] = Event(kind, c)}

Init ==
    /\ log = <<>> /\ out = <<>>
    /\ pc = "announce"
    /\ mode \in Modes
    /\ current = 1
    /\ prepared = <<>>
    /\ completion = [c \in Call |-> "none"]
    /\ settling = 1
    /\ pending = <<>> /\ index = 1
    /\ updated = {} /\ todo = <<>> /\ allowed = {}
    /\ queue = <<>> /\ extra = {} /\ closed = {} /\ registered = FALSE
    /\ accepted = [c \in Call |-> 0]
    /\ token = "live" /\ waiters \in Holders /\ woken = FALSE
    /\ stage = [c \in Call |-> "unstarted"]
    /\ polled = {}

\* The task is at a label with every event published.
Ready(label) == pc = label /\ out = <<>>

-----------------------------------------------------------------------------
(* Publishing: emit awaits the observers of one event at a time.           *)

Publish ==
    /\ out # <<>>
    /\ log' = Append(log, Head(out))
    /\ out' = Tail(out)
    /\ UNCHANGED <<pc, planVars, pollVars, queueVars, tokenVars, toolVars>>

\* PendingToolUpdates.take: the queue as the events to publish next.
TakeUpdates ==
    /\ out' = queue
    /\ queue' = <<>> /\ extra' = {}
    /\ UNCHANGED <<registered, accepted>>

-----------------------------------------------------------------------------
(* Preparation, in source order.                                           *)

Announce ==
    /\ Ready("announce")
    /\ out' = <<Event("start", current)>>
    /\ pc' = "prepare"
    /\ UNCHANGED <<log, planVars, pollVars, queueVars, tokenVars, toolVars>>

\* Where the task goes once the current call is prepared, or has completed.
AfterPreparation == IF current < Width THEN "announce" ELSE "launch"
AfterResult == IF current < Width THEN "announce" ELSE "done"
Step(label) == current' = IF label = "announce" THEN current + 1 ELSE current

\* An unknown tool, invalid arguments, a hook that blocks, ends or fails, or a
\* cancelled run: the call ends without being executed.
PrepareImmediate ==
    /\ Ready("prepare")
    /\ out' = <<Event("end", current)>>
    /\ completion' = [completion EXCEPT ![current] = "immediate"]
    /\ IF mode = "parallel"
       THEN pc' = AfterPreparation /\ Step(AfterPreparation)
       ELSE pc' = "answer" /\ current' = current
    /\ UNCHANGED <<log, mode, prepared, settling, pollVars, queueVars,
                   tokenVars, toolVars>>

\* The token is read after the hook has allowed the call.
PrepareExecution ==
    /\ Ready("prepare") /\ ~Cancelled
    /\ prepared' = Append(prepared, current)
    /\ IF mode = "parallel"
       THEN pc' = AfterPreparation /\ Step(AfterPreparation)
       ELSE pc' = "launch" /\ current' = current
    /\ UNCHANGED <<logVars, mode, completion, settling, pollVars, queueVars,
                   tokenVars, toolVars>>

\* start_tool_future for every prepared call: its tool runs from here on.  A
\* sequential call has an update queue of its own.
Launch ==
    /\ Ready("launch")
    /\ pending' = prepared
    /\ prepared' = <<>>
    /\ stage' = [c \in Call |->
           IF c \notin {prepared[i] : i \in DOMAIN prepared} THEN stage[c]
           ELSE IF c \in Watchers THEN "racing" ELSE "plain"]
    /\ pc' = CASE mode = "sequential" -> "launched"
               [] prepared = <<>>     -> "append"
               [] OTHER               -> "take"
    /\ current' = IF pc' = "append" THEN 1 ELSE current
    /\ UNCHANGED <<logVars, mode, completion, settling, index, updated, todo,
                   allowed, queueVars, tokenVars, polled>>

\* An update that cancelled the run before the future was returned.
AllowOnePoll ==
    /\ Ready("launched")
    /\ allowed' = IF Cancelled /\ HasUpdates THEN {current} ELSE {}
    /\ pc' = "take"
    /\ UNCHANGED <<logVars, planVars, pending, index, updated, todo, queueVars,
                   tokenVars, toolVars>>

-----------------------------------------------------------------------------
(* One poll of next_tool_step and next_parallel_step.                      *)

\* The cancelled run may not poll: nothing is allowed one more poll.
Barred == Cancelled /\ allowed = {}

\* Updates found: publish them before anything is polled.
FoundUpdates ==
    /\ HasUpdates
    /\ TakeUpdates
    /\ updated' = CallsOf(queue) \cup extra
    /\ pc' = "updates"
    /\ UNCHANGED <<closed, pending, index, todo, allowed, completion, settling>>

\* next_tool_step gives up on its call, ahead of any update; the updates taken
\* are published first.
GiveUp ==
    /\ mode = "sequential"
    /\ closed' = closed \cup {current}
    /\ TakeUpdates
    /\ completion' = [completion EXCEPT ![current] = "aborted"]
    /\ settling' = current
    /\ pc' = "settle"
    /\ UNCHANGED <<pending, index, updated, todo, allowed>>

\* next_parallel_step reports the cancellation.
ReportCancelled ==
    /\ mode = "parallel"
    /\ TakeUpdates
    /\ pc' = "abort"
    /\ UNCHANGED <<closed, completion, settling, pending, index, updated, todo,
                   allowed>>

\* The order of the two checks differs: a sequential step looks at the token
\* first when it begins, every other check at the updates first.
Check(tokenFirst) ==
    \/ ~(tokenFirst /\ Barred) /\ FoundUpdates
    \/ Barred /\ (tokenFirst \/ ~HasUpdates) /\ GiveUp
    \/ Barred /\ ~HasUpdates /\ ReportCancelled

Take ==
    /\ Ready("take")
    /\ woken' = FALSE
    /\ \/ Check(mode = "sequential")
       \/ /\ ~HasUpdates /\ ~Barred
          /\ pc' = "register"
          /\ UNCHANGED <<out, completion, settling, pollVars, queueVars>>
    /\ UNCHANGED <<log, mode, current, prepared, token, waiters, toolVars>>

\* Mutant: the task's waker is not left with the queue.
RegisterForUpdates_Unregistered ==
    /\ Ready("register")
    /\ pc' = "watch"
    /\ UNCHANGED <<logVars, planVars, pollVars, queueVars, tokenVars, toolVars>>

RegisterForUpdates ==
    /\ Ready("register")
    /\ registered' = TRUE
    /\ pc' = "watch"
    /\ UNCHANGED <<logVars, planVars, pollVars, queue, extra, closed, accepted,
                   tokenVars, toolVars>>

\* Mutant: the search for a waiter with this waker is inverted.
RegisterForCancellation_Inverted ==
    /\ Ready("watch")
    /\ woken' = (woken \/ Cancelled)
    /\ waiters' = IF Cancelled \/ waiters = {} THEN waiters
                  ELSE waiters \cup {TheRun}
    /\ pc' = "recheck"
    /\ UNCHANGED <<logVars, planVars, pollVars, queueVars, token, toolVars>>

\* CancellationToken::register_waker: wakes at once on a cancelled token, adds
\* nothing when some waiter has this waker already.
RegisterForCancellation ==
    /\ Ready("watch")
    /\ woken' = (woken \/ Cancelled)
    /\ waiters' = IF Cancelled \/ waiters # {} THEN waiters ELSE {TheRun}
    /\ pc' = "recheck"
    /\ UNCHANGED <<logVars, planVars, pollVars, queueVars, token, toolVars>>

\* The updates, then the token, whose report takes what came in between.
Recheck ==
    /\ Ready("recheck")
    /\ \/ FoundUpdates
       \/ Barred /\ (GiveUp \/ ReportCancelled)
       \/ /\ ~HasUpdates /\ ~Barred
          /\ pc' = "poll"
          /\ index' = 1
          /\ UNCHANGED <<out, completion, settling, pending, updated, todo,
                         allowed, queueVars>>
    /\ UNCHANGED <<log, mode, current, prepared, tokenVars, toolVars>>

\* A parallel poll passes over the calls that a cancelled run may not poll.
PassOver ==
    /\ Ready("poll") /\ mode = "parallel" /\ index <= Len(pending)
    /\ Cancelled /\ pending[index] \notin allowed
    /\ index' = index + 1
    /\ UNCHANGED <<logVars, pc, planVars, pending, updated, todo, allowed,
                   queueVars, tokenVars, toolVars>>

MayPoll(c) == mode = "sequential" \/ ~Cancelled \/ c \in allowed
Spend(c) == IF mode = "parallel" /\ Cancelled THEN allowed \ {c} ELSE allowed

\* The tool's future is ready: its work is done, or it saw the cancellation.
\* A CancellationWait that is dropped on a cancelled token leaves its entry.
IsReady(c) ==
    \/ stage[c] = "ready"
    \/ stage[c] \in {"racing", "leaving"} /\ Cancelled
ReadyPoll(c) ==
    /\ IsReady(c)
    /\ stage' = [stage EXCEPT ![c] = "gone"]
    /\ waiters' = IF Cancelled THEN waiters ELSE waiters \ {c}
    /\ UNCHANGED <<polled, token, woken>>

\* The future stays pending with the task's waker.  A racing tool has its
\* CancellationWait registered, a leaving one drops it.
PendingPoll(c) ==
    /\ stage[c] \in {"plain", "leaving"} \/ (stage[c] = "racing" /\ ~Cancelled)
    /\ polled' = polled \cup {c}
    /\ stage' = [stage EXCEPT ![c] = IF @ = "leaving" THEN "plain" ELSE @]
    /\ waiters' = CASE stage[c] = "racing" -> waiters \cup {c}
                    [] stage[c] = "leaving" /\ ~Cancelled -> waiters \ {c}
                    [] OTHER -> waiters
    /\ UNCHANGED <<token, woken>>

\* swap_remove
SwapRemove(s, i) ==
    [j \in 1 .. Len(s) - 1 |-> IF j = i THEN s[Len(s)] ELSE s[j]]

\* Mutant: the call of a settled future still accepts updates.
PollReady_LeftOpen ==
    \E c \in Call :
        /\ Ready("poll") /\ index <= Len(pending) /\ c = pending[index]
        /\ MayPoll(c) /\ ReadyPoll(c)
        /\ allowed' = Spend(c)
        /\ pending' = SwapRemove(pending, index)
        /\ TakeUpdates
        /\ completion' = [completion EXCEPT ![c] = "executed"]
        /\ settling' = c
        /\ pc' = "settle"
        /\ UNCHANGED <<log, mode, current, prepared, index, updated, todo, closed>>

PollReady ==
    \E c \in Call :
        /\ Ready("poll") /\ index <= Len(pending) /\ c = pending[index]
        /\ MayPoll(c) /\ ReadyPoll(c)
        /\ allowed' = Spend(c)
        /\ pending' = SwapRemove(pending, index)
        /\ closed' = closed \cup {c}
        /\ TakeUpdates
        /\ completion' = [completion EXCEPT ![c] = "executed"]
        /\ settling' = c
        /\ pc' = "settle"
        /\ UNCHANGED <<log, mode, current, prepared, index, updated, todo>>

PollPending ==
    \E c \in Call :
        /\ Ready("poll") /\ index <= Len(pending) /\ c = pending[index]
        /\ MayPoll(c) /\ PendingPoll(c)
        /\ allowed' = Spend(c)
        /\ index' = index + 1
        /\ pc' = "polled"
        /\ UNCHANGED <<logVars, planVars, pending, updated, todo, queueVars>>

\* After each pending future, and in parallel mode after the last one.
AfterPoll ==
    /\ Ready("polled")
    /\ \/ FoundUpdates
       \/ /\ ~HasUpdates
          /\ pc' = "poll"
          /\ UNCHANGED <<out, completion, settling, pollVars, queueVars>>
    /\ UNCHANGED <<log, mode, current, prepared, tokenVars, toolVars>>

\* Mutant: the last look at the token is missing.
EndOfPoll_Park ==
    /\ Ready("poll") /\ index > Len(pending)
    /\ \/ mode = "parallel" /\ FoundUpdates
       \/ /\ mode = "sequential" \/ ~HasUpdates
          /\ pc' = "parked"
          /\ UNCHANGED <<out, completion, settling, pollVars, queueVars>>
    /\ UNCHANGED <<log, mode, current, prepared, tokenVars, toolVars>>

\* Nothing was ready: a cancelled step reports the cancellation, any other
\* returns Pending.
EndOfPoll ==
    /\ Ready("poll") /\ index > Len(pending)
    /\ \/ /\ Cancelled
          /\ GiveUp \/ ReportCancelled
       \/ ~Cancelled /\ mode = "parallel" /\ FoundUpdates
       \/ /\ ~Cancelled /\ (mode = "sequential" \/ ~HasUpdates)
          /\ pc' = "parked"
          /\ UNCHANGED <<out, completion, settling, pollVars, queueVars>>
    /\ UNCHANGED <<log, mode, current, prepared, tokenVars, toolVars>>

Resume ==
    /\ pc = "parked" /\ woken
    /\ pc' = "take"
    /\ UNCHANGED <<logVars, planVars, pollVars, queueVars, tokenVars, toolVars>>

-----------------------------------------------------------------------------
(* What the task does with what a poll found.                              *)

\* Where the task goes after settling a call, and which call is next.
AfterSettling ==
    IF mode = "sequential" THEN "answer"
    ELSE IF pending = <<>> THEN "append" ELSE "take"
NextCurrent(label) == IF label = "append" THEN 1 ELSE current

\* execute_one_tool_call allows one more poll; a parallel batch goes on, or on
\* a cancelled run settles the siblings of the calls that sent the updates.
UpdatesDone ==
    /\ Ready("updates")
    /\ IF mode = "parallel" /\ Cancelled
       THEN /\ todo' = pending
            /\ pending' = <<>>
            /\ pc' = "siblings"
            /\ UNCHANGED allowed
       ELSE /\ allowed' = IF Cancelled THEN {current} ELSE {}
            /\ pc' = "take"
            /\ UNCHANGED <<todo, pending>>
    /\ UNCHANGED <<logVars, planVars, index, updated, queueVars, tokenVars,
                   toolVars>>

KeepRunning ==
    /\ Ready("siblings") /\ todo # <<>> /\ Head(todo) \in updated
    /\ pending' = Append(pending, Head(todo))
    /\ todo' = Tail(todo)
    /\ UNCHANGED <<logVars, pc, planVars, index, updated, allowed, queueVars,
                   tokenVars, toolVars>>

\* One poll: a ready result is kept, a pending future is cancelled.
SettleSibling ==
    \E c \in Call :
        /\ Ready("siblings") /\ todo # <<>> /\ c = Head(todo) /\ c \notin updated
        /\ \/ /\ ReadyPoll(c)
              /\ completion' = [completion EXCEPT ![c] = "executed"]
           \/ /\ PendingPoll(c)
              /\ completion' = [completion EXCEPT ![c] = "aborted"]
        /\ closed' = closed \cup {c}
        /\ TakeUpdates
        /\ todo' = Tail(todo)
        /\ settling' = c
        /\ pc' = "sibling"
        /\ UNCHANGED <<log, mode, current, prepared, pending, index, updated,
                       allowed>>

SiblingsDone ==
    /\ Ready("siblings") /\ todo = <<>>
    /\ allowed' = allowed \cup {pending[i] : i \in DOMAIN pending}
    /\ pc' = AfterSettling
    /\ current' = NextCurrent(pc')
    /\ UNCHANGED <<logVars, mode, prepared, completion, settling, pending,
                   index, updated, todo, queueVars, tokenVars, toolVars>>

\* flush_tool_updates, ahead of the end of the call that settles.
Flush(label) ==
    /\ Ready(label) /\ HasUpdates
    /\ TakeUpdates
    /\ UNCHANGED <<log, pc, planVars, pollVars, closed, tokenVars, toolVars>>

EndSibling ==
    /\ Ready("sibling") /\ ~HasUpdates
    /\ out' = <<Event("end", settling)>>
    /\ stage' = [stage EXCEPT ![settling] = "gone"]
    /\ pc' = "siblings"
    /\ UNCHANGED <<log, planVars, pollVars, queueVars, tokenVars, polled>>

EndCall ==
    /\ Ready("settle") /\ ~HasUpdates
    /\ out' = <<Event("end", settling)>>
    /\ stage' = [stage EXCEPT ![settling] = "gone"]
    /\ pc' = AfterSettling
    /\ current' = NextCurrent(pc')
    /\ UNCHANGED <<log, mode, prepared, completion, settling, pollVars,
                   queueVars, tokenVars, polled>>

\* The cancelled batch drops the futures it still holds, in their order.
AbortPending ==
    /\ Ready("abort") /\ pending # <<>>
    /\ LET c == Head(pending)
       IN /\ closed' = closed \cup {c}
          /\ completion' = [completion EXCEPT ![c] = "aborted"]
          /\ stage' = [stage EXCEPT ![c] = "gone"]
          /\ out' = <<Event("end", c)>>
    /\ pending' = Tail(pending)
    /\ UNCHANGED <<log, pc, mode, current, prepared, settling, index, updated,
                   todo, allowed, queue, extra, registered, accepted,
                   tokenVars, polled>>

AllAborted ==
    /\ Ready("abort") /\ pending = <<>>
    /\ pc' = "append"
    /\ current' = 1
    /\ UNCHANGED <<logVars, mode, prepared, completion, settling, pollVars,
                   queueVars, tokenVars, toolVars>>

-----------------------------------------------------------------------------
(* Results: append_tool_result_message, in source order.                   *)

AppendResult ==
    /\ Ready("append")
    /\ out' = <<Event("result", current)>>
    /\ IF current < Width
       THEN pc' = pc /\ current' = current + 1
       ELSE pc' = "done" /\ current' = current
    /\ UNCHANGED <<log, mode, prepared, completion, settling, pollVars,
                   queueVars, tokenVars, toolVars>>

\* A sequential call answers before the next one is announced.
Answer ==
    /\ Ready("answer")
    /\ out' = <<Event("result", current)>>
    /\ pc' = "observe"
    /\ UNCHANGED <<log, planVars, pollVars, queueVars, tokenVars, toolVars>>

\* observe_tool_failure: a terminal failure, never on a cancelled run, skips
\* the calls that follow.
Observe ==
    /\ Ready("observe")
    /\ \/ pc' = AfterResult /\ Step(AfterResult)
       \/ /\ ~Cancelled
          /\ IF current < Width
             THEN pc' = "skip" /\ current' = current + 1
             ELSE pc' = "done" /\ current' = current
    /\ UNCHANGED <<logVars, mode, prepared, completion, settling, pollVars,
                   queueVars, tokenVars, toolVars>>

\* append_skipped_sequential_calls
SkipCall ==
    /\ Ready("skip")
    /\ out' = <<Event("result", current)>>
    /\ completion' = [completion EXCEPT ![current] = "skipped"]
    /\ IF current < Width
       THEN pc' = pc /\ current' = current + 1
       ELSE pc' = "done" /\ current' = current
    /\ UNCHANGED <<log, mode, prepared, settling, pollVars, queueVars,
                   tokenVars, toolVars>>

-----------------------------------------------------------------------------
(* The tools' own threads, and the host.                                   *)

\* ToolUpdateSink, PendingToolUpdates.push: from any thread, at any time after
\* the tool was started, late calls included.
Callback(c) ==
    /\ stage[c] # "unstarted" /\ c \notin closed /\ accepted[c] < MaxUpdates
    /\ queue' = Append(queue, Event("update", c))
    /\ accepted' = [accepted EXCEPT ![c] = @ + 1]
    /\ woken' = (woken \/ registered)
    /\ UNCHANGED <<logVars, pc, planVars, pollVars, extra, closed, registered,
                   token, waiters, toolVars>>

\* The same call after MaxUpdates: the task publishes these updates as any
\* other, the model follows them no further than that.
CallbackAgain(c) ==
    /\ stage[c] # "unstarted" /\ c \notin closed /\ accepted[c] = MaxUpdates
    /\ c \in Chatty \ extra
    /\ extra' = extra \cup {c}
    /\ woken' = (woken \/ registered)
    /\ UNCHANGED <<logVars, pc, planVars, pollVars, queue, closed, registered,
                   accepted, token, waiters, toolVars>>

\* The tool's work is done, or the part of it that it raced with cancelled().
Advance(c) ==
    /\ \/ /\ stage[c] \in {"racing", "leaving", "plain"}
          /\ stage' = [stage EXCEPT ![c] = "ready"]
       \/ /\ stage[c] = "racing" /\ c \in Leavers
          /\ stage' = [stage EXCEPT ![c] = "leaving"]
    /\ woken' = (woken \/ c \in polled)
    /\ UNCHANGED <<logVars, pc, planVars, pollVars, queueVars, token, waiters,
                   polled>>

\* CancellationToken::cancel: the flag, then the waiters.
CancelFlag ==
    /\ token = "live" /\ pc # "done"
    /\ token' = "flagged"
    /\ UNCHANGED <<logVars, pc, planVars, pollVars, queueVars, waiters, woken,
                   toolVars>>

CancelWake ==
    /\ token = "flagged"
    /\ token' = "cancelled"
    /\ waiters' = {}
    /\ woken' = (woken \/ waiters # {})
    /\ UNCHANGED <<logVars, pc, planVars, pollVars, queueVars, toolVars>>

\* The host drops the cancelled() future it raced with the run.
HostLeaves ==
    /\ TheHost \in waiters /\ ~Cancelled
    /\ waiters' = waiters \ {TheHost}
    /\ UNCHANGED <<logVars, pc, planVars, pollVars, queueVars, token, woken,
                   toolVars>>

Drive ==
    \/ Publish \/ Announce \/ PrepareImmediate \/ PrepareExecution
    \/ Launch \/ AllowOnePoll
    \/ Take \/ RegisterForUpdates \/ RegisterForCancellation \/ Recheck
    \/ PassOver \/ PollReady \/ PollPending \/ AfterPoll \/ EndOfPoll \/ Resume
    \/ UpdatesDone \/ KeepRunning \/ SettleSibling \/ SiblingsDone
    \/ \E label \in {"sibling", "settle"} : Flush(label)
    \/ EndSibling \/ EndCall \/ AbortPending \/ AllAborted
    \/ AppendResult \/ Answer \/ Observe \/ SkipCall

Outside ==
    \/ \E c \in Call : Callback(c) \/ CallbackAgain(c) \/ Advance(c)
    \/ CancelFlag \/ CancelWake \/ HostLeaves

Next == Drive \/ Outside
Spec == Init /\ [][Next]_vars

\* The host polls the run whenever its waker was called, observers answer and
\* cancel() runs to its end.  Tools may take for ever.
FairSpec == Spec /\ WF_vars(Drive) /\ WF_vars(CancelWake)

-----------------------------------------------------------------------------
(* Properties.                                                             *)

Labels == {"announce", "prepare", "launch", "launched", "take", "register",
           "watch", "recheck", "poll", "polled", "parked", "updates",
           "siblings", "sibling", "settle", "abort", "append", "answer",
           "observe", "skip", "done"}
Stages == {"unstarted", "racing", "leaving", "plain", "ready", "gone"}
Completions == {"none", "immediate", "executed", "aborted", "skipped"}
Events == [kind : {"start", "update", "end", "result"}, call : Call]

\* Every variable holds a value of its type.
TypeOK ==
    /\ log \in Seq(Events) /\ out \in Seq(Events) /\ queue \in Seq(Events)
    /\ pc \in Labels /\ mode \in Modes
    /\ current \in Call /\ settling \in Call
    /\ prepared \in Seq(Call) /\ pending \in Seq(Call) /\ todo \in Seq(Call)
    /\ completion \in [Call -> Completions]
    /\ index \in Nat \ {0}
    /\ updated \subseteq Call /\ allowed \subseteq Call
    /\ closed \subseteq Call /\ extra \subseteq Call
    /\ registered \in BOOLEAN /\ woken \in BOOLEAN
    /\ accepted \in [Call -> 0 .. MaxUpdates]
    /\ token \in {"live", "flagged", "cancelled"}
    /\ waiters \subseteq Call \cup {TheRun, TheHost}
    /\ stage \in [Call -> Stages] /\ polled \subseteq Call

\* The events of one call come in the documented order, each of them once but
\* its updates: a late callback is never published after the call's end.
Rank(kind) == CASE kind = "start" -> 1 [] kind = "update" -> 2
                [] kind = "end" -> 3 [] kind = "result" -> 4
CallOrder ==
    \A i, j \in DOMAIN log :
        i < j /\ log[i].call = log[j].call =>
            \/ Rank(log[i].kind) < Rank(log[j].kind)
            \/ log[i].kind = "update" /\ log[j].kind = "update"

\* A finished batch has one result per call, and each call that was announced
\* has ended; only a terminal failure leaves a call unannounced.
BatchComplete ==
    pc = "done" /\ out = <<>> =>
        \A c \in Call :
            /\ Cardinality(At("result", c)) = 1
            /\ Cardinality(At("start", c)) = Cardinality(At("end", c))
            /\ At("start", c) = {} <=> completion[c] = "skipped"

\* Results enter the transcript in source order; a parallel batch appends none
\* before all its calls have ended, a sequential one announces no call before
\* the result of the one before it.
Before(e, f) == \A i, j \in DOMAIN log : log[i] = e /\ log[j] = f => i < j
ResultsInOrder ==
    \A c, d \in Call :
        /\ c < d => Before(Event("result", c), Event("result", d))
        /\ mode = "parallel" => Before(Event("end", c), Event("result", d))
        /\ mode = "sequential" /\ c < d =>
               Before(Event("result", c), Event("start", d))

\* Updates accepted from a call whose future settled were all published before
\* its end; those of an aborted call may be lost.
UpdatesDelivered ==
    \A c \in Call :
        At("end", c) # {} /\ completion[c] = "executed" =>
            Cardinality(At("update", c)) = accepted[c]

\* A batch is published whole and in order, callbacks and siblings included.
BatchIsWhole == TypeOK /\ CallOrder /\ BatchComplete /\ ResultsInOrder /\ UpdatesDelivered

\* No wakeup is lost: a run that waits with an update in the queue, or after a
\* cancel() that has returned, has been woken.
UpdateWakes == pc = "parked" /\ HasUpdates => woken
AbortWakes == pc = "parked" /\ token = "cancelled" => woken

\* Why: while the task may park, its waker is with the queue and, unless the
\* token is cancelled, its own waiter is in the token; an update that the poll
\* has not seen has called the waker.  Siblings are polled outside a step, but
\* only on a cancelled run.
Registered == {"watch", "recheck", "poll", "polled", "parked"}
Watching == {"recheck", "poll", "polled", "parked"}
Polling == {"poll", "polled", "parked"}
WakeInv ==
    /\ pc \in Registered => registered
    /\ pc \in Polling /\ HasUpdates => woken
    /\ token = "live" => waiters = {} \/ TheRun \in waiters
    /\ token = "live" /\ pc \in Watching => TheRun \in waiters
    /\ token = "flagged" /\ pc = "parked" => waiters # {} \/ woken
    /\ pc \in {"siblings", "sibling"} => Cancelled
    /\ AbortWakes

\* A cancelled batch finishes, though its tools ignore the cancellation and
\* never settle, once they have stopped calling back.
Quiet == [][\A c \in Chatty : ~CallbackAgain(c)]_vars
BatchSettles == <>Quiet => (Cancelled ~> pc = "done")

\* "A still-pending future is dropped on that one poll instead"
\* (tool_execution.rs:304): a sequential call granted one more poll on a
\* cancelled run, and still pending after it, ends.
OnePollOnly ==
    mode = "sequential" /\ pc = "polled" /\ allowed # {} ~> pc = "done"
=============================================================================
