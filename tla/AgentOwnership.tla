--------------------------- MODULE AgentOwnership ---------------------------
(***************************************************************************)
(* Who owns an agent: the claim, cancellation and settlement protocol that *)
(* Agent, RunHandle and CompactionHandle run over the state, active-run,   *)
(* run-state and queue mutexes (tea-core agent/mod.rs, run/mod.rs,         *)
(* compaction.rs).  One action is one critical section; a public call is   *)
(* a path through program-counter labels, so every interleaving of the     *)
(* calls of several threads is a behaviour.                                *)
(*                                                                         *)
(* Abstracted: the turn loop is its ownership checks, its transient state  *)
(* and its outcomes; the transcript is absent; the two queues are one      *)
(* message count; the transient fields of AgentState (partial_response,    *)
(* is_streaming, pending_tool_calls) are one flag, "some of it is set".    *)
(***************************************************************************)
EXTENDS Naturals, FiniteSets

CONSTANTS
    Thread,     \* threads (or tasks) of the embedding host
    MaxRun,     \* bound: run identifiers allocated in a behaviour
    MaxWork,    \* bound: messages enqueued plus extra tool turns in a behaviour
    Calls       \* Calls[t]: the public calls thread t makes

CallNames == {"start_prompt", "start_continue", "start_compaction", "drive",
              "drop", "abandon", "handle_abort", "abort", "reset", "enqueue",
              "wait_for_idle"}

ASSUME ThreadAssumption == Calls \in [Thread -> SUBSET CallNames]
ASSUME BoundAssumption == MaxRun \in Nat /\ MaxWork \in Nat

Run == 1 .. MaxRun
NoRun == 0

VARIABLES
    phase,      \* AgentState.phase
    transient,  \* some transient field of AgentState is set
    activeRun,  \* AgentInner.active_run
    nextRun,    \* AgentInner.next_run_id
    queued,     \* messages in the steering and follow-up queues
    offered,    \* work offered so far, bounded by MaxWork
    kind,       \* how each run was started
    runPhase,   \* RunState.phase of each run, "None" before it is published
    token,      \* the run's cancellation token is cancelled
    handle,     \* the run's handle: "none", "live" or "dropped"
    committed,  \* compactions that replaced the transcript
    waiters,    \* threads whose waker is in IdleNotifier.waiters
    woken,      \* threads whose waker was called since they last polled
    pc,         \* where each thread is in the call it makes
    run         \* the run the thread's call is about

agentVars == <<phase, transient, activeRun, nextRun, queued, offered>>
runVars == <<kind, runPhase, token, handle, committed>>
wakerVars == <<waiters, woken>>
vars == <<agentVars, runVars, wakerVars, pc, run>>

Idle == [kind |-> "Idle", run |-> NoRun]
Running(r) == [kind |-> "Running", run |-> r]
Cancelling(r) == [kind |-> "Cancelling", run |-> r]

Live == {"Created", "Running"}
Terminal == {"Succeeded", "Failed", "Cancelled"}
IsTerminal(r) == runPhase[r] \in Terminal
OwnedBy(r) == phase \in {Running(r), Cancelling(r)}

Known(r) == runPhase[r] # "None"

\* Labels at which a drive future is suspended at an await and may be dropped.
AwaitLabels == {"request", "streaming", "tools", "boundary", "errored",
                "compact", "commit", "committed"}
DriveLabels == {"start_turn", "check"} \cup AwaitLabels
\* A thread at label "Succeeded" is about to call finish(Succeeded), and so on.
HandleLabels == DriveLabels \cup Terminal \cup {"settle", "ha_run", "ha_mark"}
AgentLabels == {"aa_cancel", "aa_run", "aa_mark", "aa_idle", "aa_queues",
                "aa_idle_queues", "aa_slot"}
ClaimLabels == {"precheck", "claim", "publish"}
OtherLabels == {"ready", "drain_tail", "reset_queues", "notify",
                "idle_register", "idle_recheck", "parked"}
Labels == HandleLabels \cup AgentLabels \cup ClaimLabels \cup OtherLabels

Init ==
    /\ phase = Idle
    /\ transient = FALSE
    /\ activeRun = NoRun
    /\ nextRun = 0
    /\ queued = 0
    /\ offered = 0
    /\ kind = [r \in Run |-> "prompt"]
    /\ runPhase = [r \in Run |-> "None"]
    /\ token = [r \in Run |-> FALSE]
    /\ handle = [r \in Run |-> "none"]
    /\ committed = {}
    /\ waiters = {}
    /\ woken = {}
    /\ pc = [t \in Thread |-> "ready"]
    /\ run = [t \in Thread |-> NoRun]

Enter(t, label, r) ==
    /\ pc' = [pc EXCEPT ![t] = label]
    /\ run' = [run EXCEPT ![t] = r]
Goto(t, label) ==
    /\ pc' = [pc EXCEPT ![t] = label]
    /\ run' = run
Return(t) == Enter(t, "ready", NoRun)
May(t, call) == pc[t] = "ready" /\ call \in Calls[t]

-----------------------------------------------------------------------------
(* Claiming the agent: start_prompt, start_continue, start_compaction.     *)

TakeRunId(t, label, how) ==
    /\ nextRun < MaxRun
    /\ nextRun' = nextRun + 1
    /\ kind' = [kind EXCEPT ![nextRun + 1] = how]
    /\ Enter(t, label, nextRun + 1)

StartPrompt(t) ==
    /\ May(t, "start_prompt")
    /\ TakeRunId(t, "claim", "prompt")
    /\ UNCHANGED <<phase, transient, activeRun, queued, offered, runPhase,
                   token, handle, committed, wakerVars>>

\* The first Idle check; a transcript that ends in an assistant message sends
\* the call to the queues, any other tail starts a run without new input.
StartContinue(t) ==
    /\ May(t, "start_continue")
    /\ phase = Idle
    /\ \/ /\ TakeRunId(t, "claim", "prompt")
          /\ UNCHANGED <<phase, transient, activeRun, queued, offered>>
       \/ /\ Goto(t, "drain_tail")
          /\ UNCHANGED <<agentVars, kind>>
    /\ UNCHANGED <<runPhase, token, handle, committed, wakerVars>>

\* A drain takes one message (OneAtATime) or all (All) of one of the queues.
Drained == 0 .. (queued - 1)

DrainTail(t) ==
    /\ pc[t] = "drain_tail"
    /\ \/ /\ queued = 0
          /\ Return(t)
          /\ UNCHANGED <<agentVars, kind>>
       \/ /\ queued > 0
          /\ queued' \in Drained
          /\ TakeRunId(t, "claim", "continue")
          /\ UNCHANGED <<phase, transient, activeRun, offered>>
    /\ UNCHANGED <<runPhase, token, handle, committed, wakerVars>>

StartCompaction(t) ==
    /\ May(t, "start_compaction")
    /\ TakeRunId(t, "precheck", "compaction")
    /\ UNCHANGED <<phase, transient, activeRun, queued, offered, runPhase,
                   token, handle, committed, wakerVars>>

\* start_compaction rejects a busy agent before it looks for a compactor.
Precheck(t) ==
    /\ pc[t] = "precheck"
    /\ IF phase = Idle THEN Goto(t, "claim") ELSE Return(t)
    /\ UNCHANGED <<agentVars, runVars, wakerVars>>

Claim_Unguarded(t) ==
    /\ pc[t] = "claim"
    /\ phase' = Running(run[t])
    /\ transient' = FALSE
    /\ Goto(t, "publish")
    /\ UNCHANGED <<activeRun, nextRun, queued, offered, runVars, wakerVars>>

Claim(t) ==
    /\ pc[t] = "claim"
    /\ IF phase = Idle
       THEN /\ phase' = Running(run[t])
            /\ transient' = FALSE
            /\ Goto(t, "publish")
       ELSE /\ Return(t)
            /\ UNCHANGED <<phase, transient>>
    /\ UNCHANGED <<activeRun, nextRun, queued, offered, runVars, wakerVars>>

\* A second critical section installs the active-run record.  A compaction
\* run is born Running: it has no start_turn.
Publish(t) ==
    LET r == run[t] IN
    /\ pc[t] = "publish"
    /\ activeRun' = r
    /\ handle' = [handle EXCEPT ![r] = "live"]
    /\ runPhase' = [runPhase EXCEPT ![r] =
                        IF kind[r] = "compaction" THEN "Running" ELSE "Created"]
    /\ Return(t)
    /\ UNCHANGED <<phase, transient, nextRun, queued, offered, kind, token,
                   committed, wakerVars>>

-----------------------------------------------------------------------------
(* RunHandle::drive and CompactionHandle::drive.                           *)

\* Driving a run that is already terminal returns an error and nothing else.
Drive(t, r) ==
    /\ May(t, "drive")
    /\ handle[r] = "live"
    /\ ~IsTerminal(r)
    /\ Enter(t, IF kind[r] = "compaction" THEN "compact" ELSE "start_turn", r)
    /\ UNCHANGED <<agentVars, runVars, wakerVars>>

StartTurn_AnyPhase(t) ==
    /\ pc[t] = "start_turn"
    /\ runPhase' = [runPhase EXCEPT ![run[t]] = "Running"]
    /\ Goto(t, "check")
    /\ UNCHANGED <<agentVars, kind, token, handle, committed, wakerVars>>

StartTurn(t) ==
    LET r == run[t] IN
    /\ pc[t] = "start_turn"
    /\ IF runPhase[r] = "Created"
       THEN /\ runPhase' = [runPhase EXCEPT ![r] = "Running"]
            /\ Goto(t, "check")
       ELSE /\ Goto(t, "errored")
            /\ UNCHANGED runPhase
    /\ UNCHANGED <<agentVars, kind, token, handle, committed, wakerVars>>

\* The first ownership check; a run that did not itself come out of the
\* queues drains the steering queue into its first turn.
CheckOwner(t) ==
    /\ pc[t] = "check"
    /\ IF OwnedBy(run[t])
       THEN /\ queued' \in IF kind[run[t]] = "continue" THEN {queued}
                           ELSE 0 .. queued
            /\ Goto(t, "request")
       ELSE Goto(t, "errored") /\ UNCHANGED queued
    /\ UNCHANGED <<phase, transient, activeRun, nextRun, offered, runVars,
                   wakerVars>>

\* model_request: the second ownership check, then is_streaming is set.
Request(t) ==
    /\ pc[t] = "request"
    /\ IF OwnedBy(run[t])
       THEN transient' = TRUE /\ Goto(t, "streaming")
       ELSE transient' = transient /\ Goto(t, "errored")
    /\ UNCHANGED <<phase, activeRun, nextRun, queued, offered, runVars,
                   wakerVars>>

\* A text delta sets partial_response and a prepared tool call enters
\* pending_tool_calls, whatever an abort cleared meanwhile.
WorkProgress(t) ==
    /\ pc[t] \in {"streaming", "tools"}
    /\ ~transient
    /\ transient' = TRUE
    /\ UNCHANGED <<phase, activeRun, nextRun, queued, offered, runVars,
                   wakerVars, pc, run>>

\* The final assistant message: the run fails or is cancelled on the
\* provider's word, executes tool calls, or reaches its turn boundary.
StreamEnd(t) ==
    /\ pc[t] = "streaming"
    /\ transient' = FALSE
    /\ \/ Goto(t, "Failed")
       \/ token[run[t]] /\ Goto(t, "Cancelled")
       \/ Goto(t, "tools")
       \/ Goto(t, "boundary")
    /\ UNCHANGED <<phase, activeRun, nextRun, queued, offered, runVars,
                   wakerVars>>

\* The batch has its results; the circuit breaker may fail the run.
Tools(t) ==
    /\ pc[t] = "tools"
    /\ transient' = FALSE
    /\ Goto(t, "boundary") \/ Goto(t, "Failed")
    /\ UNCHANGED <<phase, activeRun, nextRun, queued, offered, runVars,
                   wakerVars>>

\* prepare_next_turn, should_stop and the queue drains.
Boundary(t) ==
    /\ pc[t] = "boundary"
    /\ \/ /\ Goto(t, "Succeeded")
          /\ UNCHANGED <<queued, offered>>
       \/ /\ queued > 0
          /\ queued' \in Drained
          /\ Goto(t, "request")
          /\ UNCHANGED offered
       \/ /\ offered < MaxWork
          /\ offered' = offered + 1
          /\ queued' \in 0 .. queued
          /\ Goto(t, "request")
    /\ UNCHANGED <<phase, transient, activeRun, nextRun, runVars, wakerVars>>

\* A provider, hook, tool-policy or observer error ends drive_inner early.
Fault(t) ==
    /\ pc[t] \in {"request", "streaming", "tools", "boundary"}
    /\ Goto(t, "errored")
    /\ UNCHANGED <<agentVars, runVars, wakerVars>>

Errored_LeaveCancelled(t) ==
    LET r == run[t] IN
    /\ pc[t] = "errored"
    /\ IF IsTerminal(r) \/ token[r]
       THEN Return(t) /\ UNCHANGED transient
       ELSE /\ transient' \in {FALSE, transient}
            /\ Goto(t, "Failed")
    /\ UNCHANGED <<phase, activeRun, nextRun, queued, offered, runVars,
                   wakerVars>>

\* The error branch of drive: settle_cancellation or one of the failure
\* settlements, which clear all or (settle_failure) part of the transient
\* state, unless the run is already terminal.
Errored(t) ==
    LET r == run[t] IN
    /\ pc[t] = "errored"
    /\ IF IsTerminal(r)
       THEN Return(t) /\ UNCHANGED transient
       ELSE /\ transient' \in {FALSE, transient}
            /\ Goto(t, IF token[r] THEN "Cancelled" ELSE "Failed")
    /\ UNCHANGED <<phase, activeRun, nextRun, queued, offered, runVars,
                   wakerVars>>

\* Emit CompactionStart, look at the token, run the compactor, look again.
Compact(t) ==
    LET r == run[t] IN
    /\ pc[t] = "compact"
    /\ \/ Goto(t, "Failed")
       \/ token[r] /\ Goto(t, "Cancelled")
       \/ ~token[r] /\ Goto(t, "commit")
    /\ UNCHANGED <<agentVars, runVars, wakerVars>>

CommitReplacement_NoToken(t) ==
    LET r == run[t] IN
    /\ pc[t] = "commit"
    /\ committed' = committed \cup {r}
    /\ Goto(t, IF token[r] THEN "Cancelled" ELSE "committed")
    /\ UNCHANGED <<agentVars, kind, runPhase, token, handle, wakerVars>>

\* commit_replacement: token and phase are read under the state lock that
\* also guards the transcript.
CommitReplacement(t) ==
    LET r == run[t] IN
    /\ pc[t] = "commit"
    /\ IF token[r] \/ phase # Running(r)
       THEN Goto(t, "Cancelled") /\ UNCHANGED committed
       ELSE Goto(t, "committed") /\ committed' = committed \cup {r}
    /\ UNCHANGED <<agentVars, kind, runPhase, token, handle, wakerVars>>

CompactionEnd(t) ==
    /\ pc[t] = "committed"
    /\ Goto(t, "Succeeded") \/ Goto(t, "Failed")
    /\ UNCHANGED <<agentVars, runVars, wakerVars>>

\* RunHandle::finish, under the run-state lock.
Finish(t) ==
    /\ pc[t] \in Terminal
    /\ IF IsTerminal(run[t])
       THEN Return(t) /\ UNCHANGED runPhase
       ELSE /\ runPhase' = [runPhase EXCEPT ![run[t]] = pc[t]]
            /\ Goto(t, "settle")
    /\ UNCHANGED <<agentVars, kind, token, handle, committed, wakerVars>>

\* The active-run slot is emptied inside the state critical section.
SettleAgent(t) ==
    /\ pc[t] = "settle"
    /\ transient' = FALSE
    /\ phase' = Idle
    /\ activeRun' = NoRun
    /\ Goto(t, "notify")
    /\ UNCHANGED <<nextRun, queued, offered, runVars, wakerVars>>

\* IdleNotifier::notify takes the waker list and calls every waker in it.
Notify(t) ==
    /\ pc[t] = "notify"
    /\ waiters' = {}
    /\ woken' = woken \cup waiters
    /\ Return(t)
    /\ UNCHANGED <<agentVars, runVars>>

-----------------------------------------------------------------------------
(* RunHandle::abort, called on a shared handle or by its Drop.             *)

HandleAbort(t, r) ==
    /\ May(t, "handle_abort")
    /\ handle[r] = "live"
    /\ token' = [token EXCEPT ![r] = TRUE]
    /\ Enter(t, "ha_run", r)
    /\ UNCHANGED <<agentVars, kind, runPhase, handle, committed, wakerVars>>

\* A handle is dropped when nobody borrows it.  Hosts allowed to "drop" only
\* drop handles whose run is finished or was never started; to "abandon" is
\* to drop a drive future at one of its awaits, or a handle of a live run.
Drop(t, r) ==
    /\ May(t, "drop")
    /\ handle[r] = "live"
    /\ \A u \in Thread : pc[u] \in HandleLabels => run[u] # r
    /\ runPhase[r] = "Running" => "abandon" \in Calls[t]
    /\ handle' = [handle EXCEPT ![r] = "dropped"]
    /\ IF IsTerminal(r)
       THEN UNCHANGED <<token, pc, run>>
       ELSE token' = [token EXCEPT ![r] = TRUE] /\ Enter(t, "ha_run", r)
    /\ UNCHANGED <<agentVars, kind, runPhase, committed, wakerVars>>

AbandonFuture(t) ==
    /\ "abandon" \in Calls[t]
    /\ pc[t] \in AwaitLabels
    /\ Return(t)
    /\ UNCHANGED <<agentVars, runVars, wakerVars>>

HandleAbortRun(t) ==
    LET r == run[t] IN
    /\ pc[t] = "ha_run"
    /\ IF IsTerminal(r)
       THEN Return(t) /\ UNCHANGED runPhase
       ELSE IF runPhase[r] = "Created"
       THEN /\ runPhase' = [runPhase EXCEPT ![r] = "Cancelled"]
            /\ Goto(t, "settle")
       ELSE Goto(t, "ha_mark") /\ UNCHANGED runPhase
    /\ UNCHANGED <<agentVars, kind, token, handle, committed, wakerVars>>

\* The run may have settled since HandleAbortRun looked at it.
HandleAbortMark(t) ==
    /\ pc[t] = "ha_mark"
    /\ phase' = Cancelling(run[t])
    /\ Return(t)
    /\ UNCHANGED <<transient, activeRun, nextRun, queued, offered, runVars,
                   wakerVars>>

-----------------------------------------------------------------------------
(* Agent::abort, in the order of its lock acquisitions.                    *)

Abort(t) ==
    /\ May(t, "abort")
    /\ activeRun # NoRun
    /\ Enter(t, "aa_cancel", activeRun)
    /\ UNCHANGED <<agentVars, runVars, wakerVars>>

AbortCancel(t) ==
    /\ pc[t] = "aa_cancel"
    /\ token' = [token EXCEPT ![run[t]] = TRUE]
    /\ Goto(t, "aa_run")
    /\ UNCHANGED <<agentVars, kind, runPhase, handle, committed, wakerVars>>

\* Only a run nobody drove yet settles here.
AbortRun(t) ==
    LET r == run[t] IN
    /\ pc[t] = "aa_run"
    /\ IF runPhase[r] = "Created"
       THEN /\ runPhase' = [runPhase EXCEPT ![r] = "Cancelled"]
            /\ Goto(t, "aa_idle")
       ELSE Goto(t, "aa_mark") /\ UNCHANGED runPhase
    /\ UNCHANGED <<agentVars, kind, token, handle, committed, wakerVars>>

AbortMark_IgnoreIdle(t) ==
    /\ pc[t] = "aa_mark"
    /\ transient' = FALSE
    /\ phase' = Cancelling(run[t])
    /\ Goto(t, "aa_queues")
    /\ UNCHANGED <<activeRun, nextRun, queued, offered, runVars, wakerVars>>

AbortMark(t) ==
    /\ pc[t] = "aa_mark"
    /\ transient' = FALSE
    /\ phase' = IF phase = Idle THEN Idle ELSE Cancelling(run[t])
    /\ Goto(t, "aa_queues")
    /\ UNCHANGED <<activeRun, nextRun, queued, offered, runVars, wakerVars>>

AbortIdle(t) ==
    /\ pc[t] = "aa_idle"
    /\ transient' = FALSE
    /\ phase' = Idle
    /\ Goto(t, "aa_idle_queues")
    /\ UNCHANGED <<activeRun, nextRun, queued, offered, runVars, wakerVars>>

AbortQueues(t) ==
    /\ pc[t] \in {"aa_queues", "aa_idle_queues"}
    /\ queued' = 0
    /\ IF pc[t] = "aa_queues" THEN Return(t) ELSE Goto(t, "aa_slot")
    /\ UNCHANGED <<phase, transient, activeRun, nextRun, offered, runVars,
                   wakerVars>>

\* The slot is emptied only while it still names the aborted run.
AbortSlot(t) ==
    /\ pc[t] = "aa_slot"
    /\ activeRun' = IF activeRun = run[t] THEN NoRun ELSE activeRun
    /\ Goto(t, "notify")
    /\ UNCHANGED <<phase, transient, nextRun, queued, offered, runVars,
                   wakerVars>>

-----------------------------------------------------------------------------
(* reset (and restore_messages), enqueue_*, wait_for_idle.                 *)

Reset(t) ==
    /\ May(t, "reset")
    /\ phase = Idle
    /\ transient' = FALSE
    /\ Goto(t, "reset_queues")
    /\ UNCHANGED <<phase, activeRun, nextRun, queued, offered, runVars,
                   wakerVars>>

ResetQueues(t) ==
    /\ pc[t] = "reset_queues"
    /\ queued' = 0
    /\ Return(t)
    /\ UNCHANGED <<phase, transient, activeRun, nextRun, offered, runVars,
                   wakerVars>>

Enqueue(t) ==
    /\ May(t, "enqueue")
    /\ offered < MaxWork
    /\ offered' = offered + 1
    /\ queued' = queued + 1
    /\ UNCHANGED <<phase, transient, activeRun, nextRun, runVars, wakerVars,
                   pc, run>>

\* One poll of wait_for_idle: look, register the waker, look again.  A call
\* that finds the agent idle at once returns without a trace.
WaitForIdle(t) ==
    /\ May(t, "wait_for_idle") \/ (pc[t] = "parked" /\ t \in woken)
    /\ woken' = woken \ {t}
    /\ IF phase = Idle THEN Return(t) ELSE Goto(t, "idle_register")
    /\ UNCHANGED <<agentVars, runVars, waiters>>

Register(t) ==
    /\ pc[t] = "idle_register"
    /\ waiters' = waiters \cup {t}
    /\ Goto(t, "idle_recheck")
    /\ UNCHANGED <<agentVars, runVars, woken>>

Recheck_Park(t) ==
    /\ pc[t] = "idle_recheck"
    /\ Goto(t, "parked")
    /\ UNCHANGED <<agentVars, runVars, wakerVars>>

Recheck(t) ==
    /\ pc[t] = "idle_recheck"
    /\ IF phase = Idle THEN Return(t) ELSE Goto(t, "parked")
    /\ UNCHANGED <<agentVars, runVars, wakerVars>>

-----------------------------------------------------------------------------
(* What a thread does once it is inside a call, and what hosts choose.     *)

ClaimStep(t) == DrainTail(t) \/ Precheck(t) \/ Claim(t) \/ Publish(t)
DriveStep(t) ==
    \/ StartTurn(t) \/ CheckOwner(t) \/ Request(t)
    \/ StreamEnd(t) \/ Tools(t) \/ Boundary(t) \/ Fault(t) \/ Errored(t)
    \/ Compact(t) \/ CommitReplacement(t) \/ CompactionEnd(t)
SettleStep(t) == Finish(t) \/ SettleAgent(t) \/ Notify(t)
AbortStep(t) ==
    \/ HandleAbortRun(t) \/ HandleAbortMark(t)
    \/ AbortCancel(t) \/ AbortRun(t) \/ AbortMark(t) \/ AbortIdle(t)
    \/ AbortQueues(t) \/ AbortSlot(t)
WaitStep(t) == Register(t) \/ Recheck(t) \/ (pc[t] = "parked" /\ WaitForIdle(t))
Step(t) == ClaimStep(t) \/ DriveStep(t) \/ SettleStep(t) \/ AbortStep(t)
           \/ ResetQueues(t) \/ WaitStep(t)

NewCall(t) ==
    \/ StartPrompt(t) \/ StartContinue(t) \/ StartCompaction(t)
    \/ \E r \in Run : Drive(t, r) \/ HandleAbort(t, r) \/ Drop(t, r)
    \/ AbandonFuture(t)
    \/ Abort(t) \/ Reset(t) \/ Enqueue(t)
    \/ (pc[t] = "ready" /\ WaitForIdle(t))

Next == \E t \in Thread : NewCall(t) \/ WorkProgress(t) \/ Step(t)

Spec == Init /\ [][Next]_vars

\* A thread inside a call is scheduled, providers, tools, hooks and observers
\* answer, and a task whose waker was called is polled.
StepFairness == \A t \in Thread : WF_vars(Step(t))
\* The owner of a handle drives it (or drops it, which also ends the run).
DriveFairness == \A t \in Thread : WF_vars(\E r \in Run : Drive(t, r))
FairSpec == Spec /\ StepFairness /\ DriveFairness

-----------------------------------------------------------------------------
(* Properties.                                                             *)

Phases == {Idle} \cup {Running(r) : r \in Run} \cup {Cancelling(r) : r \in Run}

\* Every variable keeps its type; the agent phase names a run exactly when the
\* agent is not idle (AgentPhase, RunPhase in state/lifecycle.rs).
TypeOK ==
    /\ phase \in Phases
    /\ transient \in BOOLEAN
    /\ activeRun \in 0 .. MaxRun
    /\ nextRun \in 0 .. MaxRun
    /\ queued \in Nat
    /\ offered \in 0 .. MaxWork
    /\ kind \in [Run -> {"prompt", "continue", "compaction"}]
    /\ runPhase \in [Run -> {"None"} \cup Live \cup Terminal]
    /\ token \in [Run -> BOOLEAN]
    /\ handle \in [Run -> {"none", "live", "dropped"}]
    /\ committed \in SUBSET Run
    /\ waiters \in SUBSET Thread
    /\ woken \in SUBSET Thread
    /\ pc \in [Thread -> Labels]
    /\ run \in [Thread -> 0 .. MaxRun]

\* A thread at one of these labels is about to make the agent idle.
SettleLabels == {"settle", "aa_idle"}

\* A run owns the agent from the claim of the phase to the settlement that
\* resets it: it is live, or a thread is about to publish or to settle it.
Owns(r) ==
    \/ runPhase[r] \in Live
    \/ \E t \in Thread : pc[t] \in {"publish"} \cup SettleLabels /\ run[t] = r

\* One operation owns the agent at a time, and none owns an idle agent, across
\* racing claims, aborts and settlements (start_run, abort, settle_agent).
OneOwner ==
    /\ phase = Idle => \A r \in Run : ~Owns(r)
    /\ \A r, s \in Run : Owns(r) /\ Owns(s) => r = s

\* Whatever names a run through a handle, the active-run slot or a call in
\* progress names one that was published, under an identifier already taken.
Published ==
    /\ \A r \in Run : handle[r] # "none" => Known(r)
    /\ activeRun # NoRun => Known(activeRun)
    /\ \A r \in Run : Known(r) => r \leq nextRun
    /\ \A t \in Thread : pc[t] \in HandleLabels \cup AgentLabels
                           => run[t] \in Run /\ Known(run[t])

\* A claim in progress has an identifier of its own, not yet published.
Claims ==
    /\ \A t \in Thread : pc[t] \in ClaimLabels
                           => run[t] \in 1 .. nextRun /\ ~Known(run[t])
    /\ \A t, u \in Thread : /\ pc[t] \in ClaimLabels /\ pc[u] \in ClaimLabels
                              /\ run[t] = run[u]
                              => t = u

\* A settlement in progress is that of a terminal run, and the only one of it.
Settlers ==
    /\ \A t \in Thread : pc[t] \in SettleLabels => IsTerminal(run[t])
    /\ \A t, u \in Thread : /\ pc[t] \in SettleLabels /\ pc[u] \in SettleLabels
                              /\ run[t] = run[u]
                              => t = u

\* The inductive form of OneOwner: every terminal run is settled exactly once,
\* by the thread that made it terminal, and no claim passes before that.
OwnerInv == TypeOK /\ Published /\ Claims /\ Settlers /\ OneOwner

\* The agent is not transient while it is idle.
IdleIsClean == phase = Idle => ~transient

\* While the agent says Idle no drive body works on it (AgentPhase::Idle).
WorkLabels == AwaitLabels \ {"errored"}
IdleMeansNoWork ==
    phase = Idle => \A t \in Thread : pc[t] \notin WorkLabels

\* The phase Cancelling names a run whose cancellation was requested and whose
\* settlement is still to come (AgentPhase::Cancelling), and a run ends
\* Cancelled only if somebody cancelled it.
CancellingIsTrue ==
    /\ phase.kind = "Cancelling" => token[phase.run] /\ Owns(phase.run)
    /\ \A r \in Run : runPhase[r] = "Cancelled" => token[r]

\* When no call is in progress and every handle is gone, the agent is idle,
\* clean and unowned: an abandoned run cannot leave it busy (run/mod.rs:3-5).
NoOrphan ==
    (/\ \A t \in Thread : pc[t] \in {"ready", "parked"}
     /\ \A r \in Run : handle[r] # "live")
    => phase = Idle /\ activeRun = NoRun /\ ~transient

\* The discipline under which tea-agent uses an agent: one thread starts and
\* aborts, one task at a time drives a handle to its end and drops it, and
\* nobody aborts through a handle or drops a drive future half way.
Controls(t) ==
    Calls[t] \cap {"start_prompt", "start_continue", "start_compaction", "abort"} # {}
Drives(t) == Calls[t] \cap {"drive", "drop"} # {}
Disciplined ==
    /\ \A t, u \in Thread : Controls(t) /\ Controls(u) => t = u
    /\ \A t, u \in Thread : Drives(t) /\ Drives(u) => t = u
    /\ \A t \in Thread : Calls[t] \cap {"handle_abort", "abandon"} = {}

\* What the agent's phase says, it is.
PhaseIsTrue == IdleIsClean /\ IdleMeansNoWork /\ CancellingIsTrue /\ NoOrphan

\* Commit and cancellation exclude each other: a compaction that replaced the
\* transcript never reports that it was cancelled (commit_replacement).
CommitIsNotCancelled ==
    \A r \in committed : runPhase[r] # "Cancelled"

\* Terminal variants are immutable outcomes, whoever tries to finish, start or
\* abort the run later (RunPhase, state/lifecycle.rs:45).
TerminalIsFinal ==
    [][\A r \in Run : IsTerminal(r) => runPhase'[r] = runPhase[r]]_vars

\* A task parked in wait_for_idle is always woken and returns, in whatever
\* order it registers, the run settles and a next run starts.
WaiterReturns ==
    \A t \in Thread : pc[t] = "parked" ~> pc[t] = "ready"

\* A cancelled run reaches a terminal phase.
CancelSettles ==
    \A r \in Run : token[r] ~> IsTerminal(r)
=============================================================================
