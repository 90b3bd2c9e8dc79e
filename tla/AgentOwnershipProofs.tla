------------------------ MODULE AgentOwnershipProofs ------------------------
(* Type correctness and single ownership of AgentOwnership, for any number  *)
(* of threads and runs and for every combination of calls; then what the    *)
(* agent's phase and a committed compaction say, for every host that keeps  *)
(* the discipline of tea-agent.                                             *)
EXTENDS AgentOwnership, TLAPS

\* Every phase value that an action assigns is a phase.
LEMMA PhaseFacts ==
    /\ Idle \in Phases
    /\ \A r \in Run : Running(r) \in Phases /\ Cancelling(r) \in Phases
BY DEF Phases

LEMMA BusyPhases == \A r : Running(r) # Idle /\ Cancelling(r) # Idle
BY DEF Idle, Running, Cancelling

\* Every label that occurs in an action is a label.
LEMMA LabelFacts ==
    /\ {"ready", "drain_tail", "reset_queues", "notify", "idle_register",
        "idle_recheck", "parked", "precheck", "claim", "publish"} \subseteq Labels
    /\ {"start_turn", "check", "request", "streaming", "tools", "boundary",
        "errored", "compact", "commit", "committed", "settle"} \subseteq Labels
    /\ {"ha_run", "ha_mark", "aa_cancel", "aa_run", "aa_mark", "aa_idle",
        "aa_queues", "aa_idle_queues", "aa_slot", "Succeeded", "Failed",
        "Cancelled"} \subseteq Labels
BY DEF Labels, HandleLabels, DriveLabels, OtherLabels, AwaitLabels, Terminal,
       AgentLabels, ClaimLabels

ThreadType == pc \in [Thread -> Labels] /\ run \in [Thread -> 0 .. MaxRun]

\* A thread that moves to a label, about a run, stays well typed.
LEMMA MoveType ==
    ASSUME ThreadType, NEW t \in Thread, NEW l \in Labels
    PROVE  /\ Goto(t, l) => ThreadType'
           /\ \A r \in 0 .. MaxRun : Enter(t, l, r) => ThreadType'
           /\ Return(t) => ThreadType'
<1>1. "ready" \in Labels /\ NoRun \in 0 .. MaxRun
  BY LabelFacts, BoundAssumption DEF NoRun
<1> QED
  BY <1>1 DEF Goto, Enter, Return, ThreadType

LEMMA InitType == Init => TypeOK
<1> SUFFICES ASSUME Init PROVE TypeOK
  OBVIOUS
<1>1. NoRun \in 0 .. MaxRun /\ 0 \in 0 .. MaxWork /\ queued \in Nat
  BY BoundAssumption DEF NoRun, Init
<1>2. phase \in Phases
  BY PhaseFacts DEF Init
<1>3. pc \in [Thread -> Labels] /\ run \in [Thread -> 0 .. MaxRun]
  BY <1>1, LabelFacts DEF Init
<1> QED
  BY <1>1, <1>2, <1>3 DEF Init, TypeOK, NoRun

\* A thread at a label whose action stores its run names a run.
LEMMA NamedRun ==
    ASSUME TypeOK, Published, Claims, NEW t \in Thread,
           pc[t] \in {"claim", "publish", "commit", "ha_mark", "aa_mark"}
    PROVE  run[t] \in Run
<1>1. CASE pc[t] \in ClaimLabels
  BY <1>1, BoundAssumption DEF Claims, TypeOK, Run
<1>2. CASE pc[t] \in HandleLabels \cup AgentLabels
  BY <1>2 DEF Published
<1> QED
  BY <1>1, <1>2 DEF HandleLabels, DriveLabels, AwaitLabels, AgentLabels, ClaimLabels

LEMMA StepType ==
    ASSUME TypeOK, Published, Claims, NEW t \in Thread,
           NewCall(t) \/ WorkProgress(t) \/ Step(t)
    PROVE  TypeOK'
<1> USE LabelFacts DEF Live, Terminal, agentVars, runVars, wakerVars
<1> ThreadType
  BY DEF ThreadType, TypeOK
<1> /\ \A l \in Labels : Goto(t, l) => ThreadType'
    /\ \A l \in Labels, r \in 0 .. MaxRun : Enter(t, l, r) => ThreadType'
    /\ Return(t) => ThreadType'
  BY MoveType
<1> ThreadType' => pc' \in [Thread -> Labels] /\ run' \in [Thread -> 0 .. MaxRun]
  BY DEF ThreadType
<1>1. CASE StartPrompt(t)
  BY <1>1, BoundAssumption DEF StartPrompt, TypeOK, TakeRunId, Run
<1>2. CASE StartContinue(t)
  <2>1. CASE TakeRunId(t, "claim", "prompt")
    BY <1>2, <2>1, BoundAssumption DEF StartContinue, TypeOK, TakeRunId, Run
  <2>2. CASE Goto(t, "drain_tail") /\ UNCHANGED <<agentVars, kind>>
    BY <1>2, <2>2 DEF StartContinue, TypeOK
  <2> QED
    BY <1>2, <2>1, <2>2 DEF StartContinue
<1>3. CASE DrainTail(t)
  <2>1. CASE queued = 0 /\ Return(t) /\ UNCHANGED <<agentVars, kind>>
    BY <1>3, <2>1 DEF DrainTail, TypeOK
  <2>2. CASE TakeRunId(t, "claim", "continue") /\ queued > 0
    BY <1>3, <2>2, BoundAssumption DEF DrainTail, TypeOK, TakeRunId, Run, Drained
  <2> QED
    BY <1>3, <2>1, <2>2 DEF DrainTail
<1>4. CASE StartCompaction(t)
  BY <1>4, BoundAssumption DEF StartCompaction, TypeOK, TakeRunId, Run
<1>5. CASE Precheck(t)
  BY <1>5 DEF Precheck, TypeOK
<1>6. CASE Claim(t)
  BY <1>6, NamedRun, PhaseFacts DEF Claim, TypeOK
<1>7. CASE Publish(t)
  BY <1>7 DEF Publish, TypeOK
<1>8. CASE StartTurn(t)
  BY <1>8 DEF StartTurn, TypeOK
<1>9. CASE CheckOwner(t)
  BY <1>9 DEF CheckOwner, TypeOK
<1>10. CASE Request(t)
  BY <1>10 DEF Request, TypeOK
<1>11. CASE WorkProgress(t)
  BY <1>11 DEF WorkProgress, TypeOK
<1>12. CASE StreamEnd(t)
  BY <1>12 DEF StreamEnd, TypeOK
<1>13. CASE Tools(t)
  BY <1>13 DEF Tools, TypeOK
<1>14. CASE Boundary(t)
  BY <1>14, BoundAssumption DEF Boundary, TypeOK, Drained
<1>15. CASE Fault(t)
  BY <1>15 DEF Fault, TypeOK
<1>16. CASE Errored(t)
  BY <1>16 DEF Errored, TypeOK
<1>17. CASE Compact(t)
  BY <1>17 DEF Compact, TypeOK
<1>18. CASE CommitReplacement(t)
  BY <1>18, NamedRun DEF CommitReplacement, TypeOK
<1>19. CASE CompactionEnd(t)
  BY <1>19 DEF CompactionEnd, TypeOK
<1>20. CASE Finish(t)
  BY <1>20 DEF Finish, TypeOK
<1>21. CASE SettleAgent(t)
  <2>1. phase' \in Phases /\ activeRun' \in 0 .. MaxRun
    BY <1>21, PhaseFacts, BoundAssumption DEF SettleAgent, NoRun
  <2> QED
    BY <1>21, <2>1 DEF SettleAgent, TypeOK
<1>22. CASE Notify(t)
  BY <1>22 DEF Notify, TypeOK
<1>23. CASE AbandonFuture(t)
  BY <1>23 DEF AbandonFuture, TypeOK
<1>24. CASE HandleAbortRun(t)
  BY <1>24 DEF HandleAbortRun, TypeOK
<1>25. CASE HandleAbortMark(t)
  BY <1>25, NamedRun, PhaseFacts DEF HandleAbortMark, TypeOK
<1>26. CASE Abort(t)
  BY <1>26 DEF Abort, TypeOK, NoRun
<1>27. CASE AbortCancel(t)
  BY <1>27 DEF AbortCancel, TypeOK
<1>28. CASE AbortRun(t)
  BY <1>28 DEF AbortRun, TypeOK
<1>29. CASE AbortMark(t)
  BY <1>29, NamedRun, PhaseFacts DEF AbortMark, TypeOK
<1>30. CASE AbortIdle(t)
  BY <1>30, PhaseFacts DEF AbortIdle, TypeOK
<1>31. CASE AbortQueues(t)
  BY <1>31 DEF AbortQueues, TypeOK
<1>32. CASE AbortSlot(t)
  BY <1>32, BoundAssumption DEF AbortSlot, TypeOK, NoRun
<1>33. CASE Reset(t)
  BY <1>33 DEF Reset, TypeOK
<1>34. CASE ResetQueues(t)
  BY <1>34 DEF ResetQueues, TypeOK
<1>35. CASE Enqueue(t)
  BY <1>35, BoundAssumption DEF Enqueue, TypeOK
<1>36. CASE WaitForIdle(t)
  BY <1>36 DEF WaitForIdle, TypeOK
<1>37. CASE Register(t)
  BY <1>37 DEF Register, TypeOK
<1>38. CASE Recheck(t)
  BY <1>38 DEF Recheck, TypeOK
<1>39. ASSUME NEW r \in Run, Drive(t, r) PROVE TypeOK'
  BY <1>39 DEF Drive, TypeOK, Run
<1>40. ASSUME NEW r \in Run, HandleAbort(t, r) PROVE TypeOK'
  BY <1>40 DEF HandleAbort, TypeOK, Run
<1>41. ASSUME NEW r \in Run, Drop(t, r) PROVE TypeOK'
  <2>1. CASE IsTerminal(r)
    BY <1>41, <2>1 DEF Drop, TypeOK
  <2>2. CASE ~IsTerminal(r)
    <3>1. ThreadType'
      BY <1>41, <2>2 DEF Drop, Run
    <3>2. token' \in [Run -> BOOLEAN] /\ handle' \in [Run -> {"none", "live", "dropped"}]
      BY <1>41, <2>2 DEF Drop, TypeOK
    <3>3. UNCHANGED <<agentVars, kind, runPhase, committed, wakerVars>>
      BY <1>41 DEF Drop
    <3> QED
      BY <3>1, <3>2, <3>3 DEF TypeOK
  <2> QED
    BY <2>1, <2>2
<1> QED
  BY <1>1, <1>2, <1>3, <1>4, <1>5, <1>6, <1>7, <1>8, <1>9, <1>10, <1>11, <1>12, <1>13, <1>14, <1>15, <1>16, <1>17, <1>18, <1>19, <1>20, <1>21, <1>22, <1>23, <1>24, <1>25, <1>26, <1>27, <1>28, <1>29, <1>30, <1>31, <1>32, <1>33, <1>34, <1>35, <1>36, <1>37, <1>38, <1>39, <1>40, <1>41
     DEF NewCall, Step, ClaimStep, DriveStep, SettleStep, AbortStep, WaitStep

-----------------------------------------------------------------------------
(* The kinds of step: what each does to the invariant.                      *)

BusyLabels == (HandleLabels \cup AgentLabels) \ SettleLabels

LEMMA LabelClasses ==
    /\ BusyLabels \cap ClaimLabels = {} /\ BusyLabels \cap SettleLabels = {}
    /\ SettleLabels \subseteq HandleLabels \cup AgentLabels
    /\ ClaimLabels \cap (HandleLabels \cup AgentLabels) = {}
    /\ SettleLabels \cap ClaimLabels = {} /\ "publish" \in ClaimLabels
    /\ OtherLabels \cap (HandleLabels \cup AgentLabels \cup ClaimLabels) = {}
    /\ "claim" \notin SettleLabels /\ "publish" \notin SettleLabels
BY DEF BusyLabels, SettleLabels, HandleLabels, DriveLabels, AwaitLabels,
       Terminal, AgentLabels, ClaimLabels, OtherLabels

OnlyMoves(t) ==
    \A u \in Thread : u # t => pc'[u] = pc[u] /\ run'[u] = run[u]

\* A step that leaves the life of every run alone, makes no busy agent idle,
\* and moves its thread to a label that neither claims nor settles.
Quiet(t) ==
    /\ OnlyMoves(t)
    /\ runPhase' = runPhase /\ nextRun' = nextRun
    /\ activeRun' \in {activeRun, NoRun}
    /\ \A r \in Run : handle'[r] # "none" => handle[r] # "none"
    /\ phase' = Idle => phase = Idle
    /\ pc[t] \notin {"publish"} \cup SettleLabels
    /\ \/ pc'[t] \in OtherLabels
       \/ pc'[t] \in BusyLabels /\ run'[t] \in Run /\ Known(run'[t])

LEMMA QuietStep ==
    ASSUME OwnerInv, TypeOK', NEW t \in Thread, Quiet(t)
    PROVE  OwnerInv'
<1> USE LabelClasses DEF OwnerInv, Quiet
<1>1. \A r \in Run : Owns(r)' => Owns(r)
  BY DEF Owns, OnlyMoves
<1>2. Published'
  BY DEF Published, Known, OnlyMoves, BusyLabels
<1>3. Claims'
  BY DEF Claims, Known, OnlyMoves
<1>4. Settlers'
  BY DEF Settlers, IsTerminal, OnlyMoves
<1>5. OneOwner'
  BY <1>1 DEF OneOwner
<1> QED
  BY <1>2, <1>3, <1>4, <1>5

\* A thread inside a call about a live run makes it terminal and settles it.
LEMMA TerminateStep ==
    ASSUME OwnerInv, TypeOK', NEW t \in Thread, OnlyMoves(t),
           pc[t] \in BusyLabels, runPhase[run[t]] \in Live,
           NEW outcome \in Terminal,
           runPhase' = [runPhase EXCEPT ![run[t]] = outcome],
           UNCHANGED <<phase, nextRun, activeRun, handle>>,
           pc'[t] \in SettleLabels, run'[t] = run[t]
    PROVE  OwnerInv'
<1> DEFINE r == run[t]
<1> USE LabelClasses DEF OwnerInv
<1>1. r \in Run /\ runPhase'[r] = outcome /\ outcome # "None"
  BY DEF Published, TypeOK, Terminal, BusyLabels
<1>2. \A s \in Run : s # r => runPhase'[s] = runPhase[s]
  BY DEF TypeOK
<1>3. \A s \in Run : Known(s)' <=> Known(s)
  BY <1>1, <1>2 DEF Known, Live
<1>4. ~IsTerminal(r)
  BY DEF IsTerminal, Live, Terminal
<1>5. \A u \in Thread : pc[u] \in SettleLabels => run[u] # r
  BY <1>4 DEF Settlers
<1>6. Owns(r) /\ \A s \in Run : Owns(s)' => Owns(s)
  BY <1>1, <1>2 DEF Owns, OnlyMoves
<1>7. Published'
  <2>1. \A u \in Thread : pc'[u] \in HandleLabels \cup AgentLabels
                           => run'[u] \in Run /\ Known(run[u]) /\ run'[u] = run[u]
    BY DEF Published, OnlyMoves, BusyLabels
  <2>2. activeRun # NoRun => activeRun \in Run
    BY BoundAssumption DEF TypeOK, Run, NoRun
  <2> QED
    BY <1>3, <2>1, <2>2 DEF Published, Known
<1>8. Claims'
  BY <1>3 DEF Claims, OnlyMoves, Known, TypeOK
<1>9. Settlers'
  BY <1>1, <1>2, <1>5 DEF Settlers, IsTerminal, OnlyMoves, Published
<1>10. OneOwner'
  BY <1>6 DEF OneOwner
<1> QED
  BY <1>7, <1>8, <1>9, <1>10

\* A settling thread makes the agent idle.
LEMMA IdleStep ==
    ASSUME OwnerInv, TypeOK', NEW t \in Thread, OnlyMoves(t),
           pc[t] \in SettleLabels, phase' = Idle,
           UNCHANGED <<runPhase, nextRun, handle>>,
           activeRun' \in {activeRun, NoRun}, run'[t] = run[t],
           pc'[t] \in OtherLabels \cup BusyLabels
    PROVE  OwnerInv'
<1> DEFINE r == run[t]
<1> USE LabelClasses DEF OwnerInv
<1>1. r \in Run /\ Known(r) /\ IsTerminal(r)
  BY DEF Published, Settlers
<1>2. Owns(r)
  BY DEF Owns
<1>3. \A u \in Thread : u # t /\ run[u] = r => pc[u] \notin {"publish"} \cup SettleLabels
  BY <1>1 DEF Settlers, Claims
<1>4. \A s \in Run : ~Owns(s)'
  <2> SUFFICES ASSUME NEW s \in Run, Owns(s)' PROVE FALSE
    OBVIOUS
  <2>1. Owns(s)
    BY DEF Owns, OnlyMoves
  <2>2. s = r
    BY <1>1, <1>2, <2>1 DEF OneOwner
  <2>3. runPhase[r] \notin Live
    BY <1>1 DEF IsTerminal, Terminal, Live
  <2> QED
    BY <1>3, <2>2, <2>3 DEF Owns, OnlyMoves
<1>5. Published'
  BY <1>1 DEF Published, Known, OnlyMoves, BusyLabels
<1>6. Claims'
  BY DEF Claims, Known, OnlyMoves
<1>7. Settlers'
  BY DEF Settlers, IsTerminal, OnlyMoves
<1>8. OneOwner'
  BY <1>4 DEF OneOwner
<1> QED
  BY <1>5, <1>6, <1>7, <1>8

\* A thread takes a fresh identifier and begins a claim.
LEMMA FreshStep ==
    ASSUME OwnerInv, TypeOK', NEW t \in Thread, OnlyMoves(t),
           NEW how, NEW label \in {"precheck", "claim"},
           TakeRunId(t, label, how), pc[t] \in OtherLabels,
           UNCHANGED <<phase, activeRun, runPhase, handle>>
    PROVE  OwnerInv'
<1> USE LabelClasses DEF OwnerInv
<1>1. /\ nextRun + 1 \in Run /\ nextRun' = nextRun + 1
      /\ run'[t] = nextRun + 1 /\ pc'[t] = label
  BY BoundAssumption DEF TakeRunId, Enter, TypeOK, Run
<1>2. label \in ClaimLabels /\ label \notin {"publish"} \cup SettleLabels
  BY DEF ClaimLabels, SettleLabels
<1>3. ~Known(nextRun + 1)
  BY <1>1 DEF Published, TypeOK
<1>4. \A u \in Thread : pc[u] \in ClaimLabels => run[u] # nextRun + 1
  BY DEF Claims, TypeOK
<1>5. Published'
  <2>1. \A u \in Thread : pc'[u] \in HandleLabels \cup AgentLabels
                           => u # t /\ pc'[u] = pc[u] /\ run'[u] = run[u]
    BY <1>1, <1>2 DEF OnlyMoves
  <2>2. \A r \in Run : Known(r) => r \leq nextRun + 1
    BY BoundAssumption DEF Published, TypeOK, Run
  <2> QED
    BY <1>1, <2>1, <2>2 DEF Published, Known
<1>6. Claims'
  <2>1. \A u \in Thread : pc'[u] \in ClaimLabels => run'[u] \in 1 .. nextRun' /\ ~Known(run'[u])
    BY <1>1, <1>3, BoundAssumption DEF Claims, OnlyMoves, TypeOK, Run
  <2>2. \A u, v \in Thread : pc'[u] \in ClaimLabels /\ pc'[v] \in ClaimLabels
                              /\ run'[u] = run'[v] => u = v
    BY <1>1, <1>4 DEF Claims, OnlyMoves
  <2> QED
    BY <2>1, <2>2 DEF Claims, Known
<1>7. Settlers'
  BY <1>1, <1>2 DEF Settlers, IsTerminal, OnlyMoves
<1>8. OneOwner'
  BY <1>1, <1>2 DEF OneOwner, Owns, OnlyMoves
<1> QED
  BY <1>5, <1>6, <1>7, <1>8

\* A step of the claim: towards "publish" only when the agent is idle, which
\* it then no longer is.
LEMMA ClaimMoveStep ==
    ASSUME OwnerInv, TypeOK', NEW t \in Thread, OnlyMoves(t),
           pc[t] \in {"precheck", "claim"}, run'[t] = run[t],
           UNCHANGED <<nextRun, activeRun, runPhase, handle>>,
           \/ pc'[t] = "claim" /\ phase' = phase
           \/ pc'[t] = "publish" /\ phase = Idle /\ phase' # Idle
    PROVE  OwnerInv'
<1> USE LabelClasses DEF OwnerInv
<1>1. pc[t] \in ClaimLabels /\ pc'[t] \in ClaimLabels /\ pc'[t] \notin SettleLabels
  BY DEF ClaimLabels
<1>2. Published'
  BY <1>1 DEF Published, Known, OnlyMoves
<1>3. Claims'
  BY <1>1 DEF Claims, Known, OnlyMoves
<1>4. Settlers'
  BY <1>1 DEF Settlers, IsTerminal, OnlyMoves
<1>5. OneOwner'
  <2>1. CASE pc'[t] = "claim" /\ phase' = phase
    BY <2>1 DEF OneOwner, Owns, OnlyMoves
  <2>2. CASE pc'[t] = "publish" /\ phase = Idle /\ phase' # Idle
    <3>1. \A s \in Run : Owns(s)' => s = run[t]
      BY <2>2 DEF OneOwner, Owns, OnlyMoves
    <3> QED
      BY <2>2, <3>1 DEF OneOwner
  <2> QED
    BY <2>1, <2>2
<1> QED
  BY <1>2, <1>3, <1>4, <1>5

LEMMA PublishStep ==
    ASSUME OwnerInv, TypeOK', NEW t \in Thread, OnlyMoves(t), Publish(t)
    PROVE  OwnerInv'
<1> DEFINE r == run[t]
<1> USE LabelClasses DEF OwnerInv
<1>1. /\ pc[t] = "publish" /\ pc'[t] = "ready" /\ "ready" \in OtherLabels
      /\ activeRun' = r /\ handle' = [handle EXCEPT ![r] = "live"]
      /\ phase' = phase /\ nextRun' = nextRun
  BY DEF Publish, Return, Enter, OtherLabels, TypeOK
<1>2. r \in Run /\ r \leq nextRun /\ ~Known(r)
  BY <1>1, BoundAssumption DEF Claims, TypeOK, Run
<1>3. runPhase'[r] \in Live /\ \A s \in Run : s # r => runPhase'[s] = runPhase[s]
  BY <1>2 DEF Publish, TypeOK, Live
<1>4. \A u \in Thread : pc[u] \in ClaimLabels /\ run[u] = r => u = t
  BY <1>1 DEF Claims
<1>5. Published'
  <2>1. \A s \in Run : Known(s)' <=> Known(s) \/ s = r
    BY <1>2, <1>3 DEF Known, Live
  <2>2. \A s \in Run : handle'[s] # "none" => handle[s] # "none" \/ s = r
    BY <1>1, <1>2 DEF TypeOK
  <2>3. \A u \in Thread : pc'[u] \in HandleLabels \cup AgentLabels
                           => run'[u] \in Run /\ runPhase'[run'[u]] # "None"
    BY <1>1, <2>1 DEF Published, OnlyMoves, Known
  <2> QED
    BY <1>1, <1>2, <2>1, <2>2, <2>3 DEF Published, Known
<1>6. Claims'
  <2>1. \A u \in Thread : pc'[u] \in ClaimLabels
            => u # t /\ run'[u] = run[u] /\ run[u] \in Run /\ run[u] # r
    BY <1>1, <1>4, BoundAssumption DEF Claims, OnlyMoves, TypeOK, Run
  <2> QED
    BY <1>1, <1>3, <2>1 DEF Claims, OnlyMoves, Known
<1>7. Settlers'
  <2>1. \A u \in Thread : pc'[u] \in SettleLabels
            => u # t /\ pc[u] \in SettleLabels /\ run'[u] = run[u] /\ run[u] \in Run /\ run[u] # r
    BY <1>1, <1>2 DEF Settlers, Published, OnlyMoves, Known
  <2> QED
    BY <1>3, <2>1 DEF Settlers, IsTerminal, OnlyMoves
<1>8. Owns(r) /\ \A s \in Run : Owns(s)' => Owns(s)
  BY <1>1, <1>3 DEF Owns, OnlyMoves
<1>9. OneOwner'
  BY <1>1, <1>2, <1>8 DEF OneOwner
<1> QED
  BY <1>5, <1>6, <1>7, <1>9

\* A live run stays live.
LEMMA StartTurnStep ==
    ASSUME OwnerInv, TypeOK', NEW t \in Thread, OnlyMoves(t),
           pc[t] = "start_turn", runPhase[run[t]] = "Created",
           runPhase' = [runPhase EXCEPT ![run[t]] = "Running"],
           UNCHANGED <<phase, nextRun, activeRun, handle>>,
           pc'[t] = "check", run'[t] = run[t]
    PROVE  OwnerInv'
<1> DEFINE r == run[t]
<1> USE LabelClasses DEF OwnerInv
<1>1. pc[t] \in BusyLabels /\ pc'[t] \in BusyLabels
  BY DEF BusyLabels, HandleLabels, DriveLabels, SettleLabels
<1>2. r \in Run /\ runPhase'[r] = "Running" /\ \A s \in Run : s # r => runPhase'[s] = runPhase[s]
  BY <1>1 DEF Published, TypeOK, BusyLabels
<1>3. \A s \in Run : (Known(s)' <=> Known(s)) /\ (IsTerminal(s)' <=> IsTerminal(s))
  BY <1>2 DEF Known, IsTerminal, Terminal
<1>4. Owns(r) /\ \A s \in Run : Owns(s)' => Owns(s)
  BY <1>1, <1>2 DEF Owns, OnlyMoves, Live
<1>5. Published'
  BY <1>1, <1>2, <1>3 DEF Published, OnlyMoves, TypeOK, Known, Run, NoRun, BusyLabels
<1>6. Claims'
  BY <1>1, <1>3 DEF Claims, OnlyMoves, Known, TypeOK
<1>7. Settlers'
  <2>1. \A u \in Thread : pc'[u] \in SettleLabels
            => pc[u] \in SettleLabels /\ run'[u] = run[u] /\ run[u] \in Run /\ u # t
    BY <1>1 DEF Published, OnlyMoves
  <2> QED
    BY <1>3, <2>1 DEF Settlers, IsTerminal
<1>8. OneOwner'
  BY <1>4 DEF OneOwner
<1> QED
  BY <1>5, <1>6, <1>7, <1>8

LEMMA BusyFacts ==
    /\ {"start_turn", "check", "request", "streaming", "tools", "boundary",
        "errored", "compact", "commit", "committed", "Succeeded", "Failed",
        "Cancelled", "ha_run", "ha_mark", "aa_cancel", "aa_run", "aa_mark",
        "aa_queues", "aa_idle_queues", "aa_slot"} = BusyLabels
    /\ OtherLabels = {"ready", "drain_tail", "reset_queues", "notify",
                      "idle_register", "idle_recheck", "parked"}
    /\ SettleLabels = {"settle", "aa_idle"}
    /\ Terminal \subseteq BusyLabels
BY DEF BusyLabels, SettleLabels, HandleLabels, DriveLabels, AwaitLabels,
       Terminal, AgentLabels, OtherLabels

LEMMA MoveOnly ==
    ASSUME TypeOK, NEW t \in Thread, NEW l
    PROVE  /\ Goto(t, l) => OnlyMoves(t) /\ pc'[t] = l /\ run'[t] = run[t]
           /\ \A r : Enter(t, l, r) => OnlyMoves(t) /\ pc'[t] = l /\ run'[t] = r
           /\ Return(t) => OnlyMoves(t) /\ pc'[t] = "ready"
           /\ UNCHANGED <<pc, run>> => OnlyMoves(t) /\ pc'[t] = pc[t] /\ run'[t] = run[t]
BY DEF Goto, Enter, Return, OnlyMoves, TypeOK

LEMMA StepOwner ==
    ASSUME OwnerInv, NEW t \in Thread,
           NewCall(t) \/ WorkProgress(t) \/ Step(t)
    PROVE  OwnerInv'
<1> TypeOK /\ TypeOK'
  BY StepType DEF OwnerInv
<1> USE BusyFacts DEF agentVars, runVars, wakerVars
<1> /\ \A l : Goto(t, l) => OnlyMoves(t) /\ pc'[t] = l /\ run'[t] = run[t]
    /\ \A l, r : Enter(t, l, r) => OnlyMoves(t) /\ pc'[t] = l /\ run'[t] = r
    /\ Return(t) => OnlyMoves(t) /\ pc'[t] = "ready"
    /\ UNCHANGED <<pc, run>> => OnlyMoves(t) /\ pc'[t] = pc[t] /\ run'[t] = run[t]
  BY MoveOnly
<1> pc[t] \in BusyLabels => run[t] \in Run /\ Known(run[t])
  BY DEF OwnerInv, Published, BusyLabels
<1> Quiet(t) => OwnerInv'
  BY QuietStep
<1>1. CASE CheckOwner(t)
  BY <1>1 DEF CheckOwner, Quiet
<1>2. CASE Request(t)
  BY <1>2 DEF Request, Quiet
<1>3. CASE WorkProgress(t)
  BY <1>3 DEF WorkProgress, Quiet
<1>4. CASE StreamEnd(t)
  BY <1>4 DEF StreamEnd, Quiet
<1>5. CASE Tools(t)
  BY <1>5 DEF Tools, Quiet
<1>6. CASE Boundary(t)
  BY <1>6 DEF Boundary, Quiet
<1>7. CASE Fault(t)
  BY <1>7 DEF Fault, Quiet
<1>8. CASE Errored(t)
  BY <1>8 DEF Errored, Quiet
<1>9. CASE Compact(t)
  BY <1>9 DEF Compact, Quiet
<1>10. CASE CommitReplacement(t)
  BY <1>10 DEF CommitReplacement, Quiet
<1>11. CASE CompactionEnd(t)
  BY <1>11 DEF CompactionEnd, Quiet
<1>12. CASE Notify(t)
  BY <1>12 DEF Notify, Quiet
<1>13. CASE AbandonFuture(t)
  BY <1>13 DEF AbandonFuture, Quiet, AwaitLabels
<1>14. CASE HandleAbortMark(t)
  BY <1>14, BusyPhases DEF HandleAbortMark, Quiet
<1>15. CASE Abort(t)
  <2>1. activeRun \in Run /\ Known(activeRun)
    BY <1>15, BoundAssumption DEF Abort, OwnerInv, Published, Run, NoRun, TypeOK
  <2> QED
    BY <1>15, <2>1 DEF Abort, May, Quiet
<1>16. CASE AbortCancel(t)
  BY <1>16 DEF AbortCancel, Quiet
<1>17. CASE AbortMark(t)
  BY <1>17, BusyPhases DEF AbortMark, Quiet
<1>18. CASE AbortQueues(t)
  BY <1>18 DEF AbortQueues, Quiet
<1>19. CASE AbortSlot(t)
  BY <1>19 DEF AbortSlot, Quiet
<1>20. CASE Reset(t)
  BY <1>20 DEF Reset, Quiet, May
<1>21. CASE ResetQueues(t)
  BY <1>21 DEF ResetQueues, Quiet
<1>22. CASE Enqueue(t)
  BY <1>22 DEF Enqueue, Quiet, May
<1>23. CASE WaitForIdle(t)
  BY <1>23 DEF WaitForIdle, Quiet, May
<1>24. CASE Register(t)
  BY <1>24 DEF Register, Quiet
<1>25. CASE Recheck(t)
  BY <1>25 DEF Recheck, Quiet
<1>26. ASSUME NEW r \in Run, Drive(t, r) PROVE OwnerInv'
  BY <1>26 DEF Drive, Quiet, May, OwnerInv, Published, TypeOK
<1>27. ASSUME NEW r \in Run, HandleAbort(t, r) PROVE OwnerInv'
  BY <1>27 DEF HandleAbort, Quiet, May, OwnerInv, Published, TypeOK
<1>28. ASSUME NEW r \in Run, Drop(t, r) PROVE OwnerInv'
  BY <1>28 DEF Drop, Quiet, May, OwnerInv, Published, TypeOK
<1>40. CASE StartPrompt(t)
  BY <1>40, FreshStep DEF StartPrompt, May, TakeRunId
<1>41. CASE StartCompaction(t)
  BY <1>41, FreshStep DEF StartCompaction, May, TakeRunId
<1>42. CASE StartContinue(t)
  <2>1. CASE TakeRunId(t, "claim", "prompt")
    BY <1>42, <2>1, FreshStep DEF StartContinue, May, TakeRunId
  <2>2. CASE Goto(t, "drain_tail") /\ UNCHANGED <<agentVars, kind>>
    BY <1>42, <2>2 DEF StartContinue, May, Quiet
  <2> QED
    BY <1>42, <2>1, <2>2 DEF StartContinue
<1>43. CASE DrainTail(t)
  <2>1. CASE queued = 0 /\ Return(t) /\ UNCHANGED <<agentVars, kind>>
    BY <1>43, <2>1 DEF DrainTail, Quiet
  <2>2. CASE TakeRunId(t, "claim", "continue") /\ queued > 0
    BY <1>43, <2>2, FreshStep DEF DrainTail, TakeRunId
  <2> QED
    BY <1>43, <2>1, <2>2 DEF DrainTail
<1>44. CASE Precheck(t)
  <2>1. CASE phase = Idle
    BY <1>44, <2>1, ClaimMoveStep DEF Precheck
  <2>2. CASE phase # Idle
    BY <1>44, <2>2 DEF Precheck, Quiet
  <2> QED
    BY <2>1, <2>2
<1>45. CASE Claim(t)
  <2>1. CASE phase = Idle
    BY <1>45, <2>1, ClaimMoveStep, BusyPhases DEF Claim
  <2>2. CASE phase # Idle
    BY <1>45, <2>2 DEF Claim, Quiet
  <2> QED
    BY <2>1, <2>2
<1>46. CASE Publish(t)
  BY <1>46, PublishStep DEF Publish
<1>47. CASE StartTurn(t)
  <2>1. CASE runPhase[run[t]] = "Created"
    BY <1>47, <2>1, StartTurnStep DEF StartTurn
  <2>2. CASE runPhase[run[t]] # "Created"
    BY <1>47, <2>2 DEF StartTurn, Quiet
  <2> QED
    BY <2>1, <2>2
<1>48. CASE Finish(t)
  <2>1. CASE IsTerminal(run[t])
    BY <1>48, <2>1 DEF Finish, Quiet
  <2>2. CASE ~IsTerminal(run[t])
    <3>1. pc[t] \in BusyLabels /\ runPhase[run[t]] \in Live
      BY <1>48, <2>2 DEF Finish, TypeOK, IsTerminal, Known
    <3> QED
      BY <1>48, <2>2, <3>1, TerminateStep DEF Finish
  <2> QED
    BY <2>1, <2>2
<1>49. CASE HandleAbortRun(t)
  <2>1. CASE runPhase[run[t]] = "Created"
    BY <1>49, <2>1, TerminateStep DEF HandleAbortRun, Live, Terminal, IsTerminal
  <2>2. CASE runPhase[run[t]] # "Created"
    BY <1>49, <2>2 DEF HandleAbortRun, Quiet
  <2> QED
    BY <2>1, <2>2
<1>50. CASE AbortRun(t)
  <2>1. CASE runPhase[run[t]] = "Created"
    BY <1>50, <2>1, TerminateStep DEF AbortRun, Live, Terminal
  <2>2. CASE runPhase[run[t]] # "Created"
    BY <1>50, <2>2 DEF AbortRun, Quiet
  <2> QED
    BY <2>1, <2>2
<1>51. CASE SettleAgent(t)
  BY <1>51, IdleStep DEF SettleAgent
<1>52. CASE AbortIdle(t)
  BY <1>52, IdleStep DEF AbortIdle
<1> QED
  BY <1>1, <1>2, <1>3, <1>4, <1>5, <1>6, <1>7, <1>8, <1>9, <1>10, <1>11, <1>12, <1>13, <1>14, <1>15, <1>16, <1>17, <1>18, <1>19, <1>20, <1>21, <1>22, <1>23, <1>24, <1>25, <1>26, <1>27, <1>28, <1>40, <1>41, <1>42,
     <1>43, <1>44, <1>45, <1>46, <1>47, <1>48, <1>49, <1>50, <1>51, <1>52
     DEF NewCall, Step, ClaimStep, DriveStep, SettleStep, AbortStep, WaitStep

LEMMA InitOwner == Init => OwnerInv
<1> SUFFICES ASSUME Init PROVE OwnerInv
  OBVIOUS
<1>1. TypeOK
  BY InitType
<1>2. \A t \in Thread : pc[t] = "ready"
  BY DEF Init
<1>3. "ready" \in OtherLabels
  BY BusyFacts
<1>4. Published /\ Claims /\ Settlers /\ OneOwner
  BY <1>2, <1>3, LabelClasses
     DEF Init, Published, Claims, Settlers, OneOwner, Owns, Known, Live
<1> QED
  BY <1>1, <1>4 DEF OwnerInv

LEMMA StutterOwner == OwnerInv /\ UNCHANGED vars => OwnerInv'
BY DEF OwnerInv, TypeOK, Published, Claims, Settlers, OneOwner, Owns, Known,
       IsTerminal, vars, agentVars, runVars, wakerVars

-----------------------------------------------------------------------------
(* The theorems.                                                            *)

\* In every reachable state the ownership invariant holds: claims, aborts and
\* settlements of any number of threads keep the bookkeeping of agent/mod.rs
\* and run/mod.rs consistent.
THEOREM OwnerInvHolds == Spec => []OwnerInv
<1>1. OwnerInv /\ [Next]_vars => OwnerInv'
  BY StepOwner, StutterOwner DEF Next
<1> QED
  BY InitOwner, <1>1, PTL DEF Spec

\* Every variable keeps its type (AgentPhase, RunPhase).
THEOREM TypeCorrect == Spec => []TypeOK
<1>1. OwnerInv => TypeOK
  BY DEF OwnerInv
<1> QED
  BY OwnerInvHolds, <1>1, PTL

\* One operation owns the agent at a time, and none owns an idle agent, even
\* with racing starts, stale aborts, shared handles and abandoned futures.
THEOREM SingleOwnership == Spec => []OneOwner
<1>1. OwnerInv => OneOwner
  BY DEF OwnerInv
<1> QED
  BY OwnerInvHolds, <1>1, PTL

FinalStep == \A r \in Run : IsTerminal(r) => runPhase'[r] = runPhase[r]

LEMMA StepFinal ==
    ASSUME OwnerInv, NEW t \in Thread,
           NewCall(t) \/ WorkProgress(t) \/ Step(t)
    PROVE  FinalStep
<1> USE DEF FinalStep
<1> TypeOK
  BY DEF OwnerInv
<1>1. CASE runPhase' = runPhase
  BY <1>1
<1>2. CASE Publish(t)
  <2>1. ~IsTerminal(run[t])
    BY <1>2 DEF Publish, OwnerInv, Claims, Known, IsTerminal, Terminal, ClaimLabels
  <2> QED
    BY <1>2, <2>1 DEF Publish, TypeOK
<1>3. CASE StartTurn(t) \/ HandleAbortRun(t) \/ AbortRun(t)
  BY <1>3 DEF StartTurn, HandleAbortRun, AbortRun, IsTerminal, Terminal, TypeOK
<1>4. CASE Finish(t)
  BY <1>4 DEF Finish, TypeOK
<1> QED
  <2>1. ASSUME NEW r \in Run, Drive(t, r) \/ HandleAbort(t, r) \/ Drop(t, r)
        PROVE  runPhase' = runPhase
    BY <2>1 DEF Drive, HandleAbort, Drop, runVars
  <2>2. CASE \/ StartPrompt(t) \/ StartContinue(t) \/ StartCompaction(t)
             \/ DrainTail(t) \/ Precheck(t) \/ Claim(t)
    BY <1>1, <2>2 DEF StartPrompt, StartContinue, StartCompaction, DrainTail,
                      Precheck, Claim, runVars
  <2>3. CASE \/ CheckOwner(t) \/ Request(t) \/ WorkProgress(t) \/ StreamEnd(t)
             \/ Tools(t) \/ Boundary(t) \/ Fault(t) \/ Errored(t)
    BY <1>1, <2>3 DEF CheckOwner, Request, WorkProgress, StreamEnd, Tools,
                      Boundary, Fault, Errored, runVars
  <2>4. CASE \/ Compact(t) \/ CommitReplacement(t) \/ CompactionEnd(t)
             \/ SettleAgent(t) \/ Notify(t)
    BY <1>1, <2>4 DEF Compact, CommitReplacement, CompactionEnd, SettleAgent,
                      Notify, runVars
  <2>5. CASE \/ AbandonFuture(t) \/ HandleAbortMark(t) \/ Abort(t)
             \/ AbortCancel(t) \/ AbortMark(t) \/ AbortIdle(t)
             \/ AbortQueues(t) \/ AbortSlot(t)
    BY <1>1, <2>5 DEF AbandonFuture, HandleAbortMark, Abort, AbortCancel,
                      AbortMark, AbortIdle, AbortQueues, AbortSlot, runVars
  <2>6. CASE \/ Reset(t) \/ ResetQueues(t) \/ Enqueue(t) \/ WaitForIdle(t)
             \/ Register(t) \/ Recheck(t)
    BY <1>1, <2>6 DEF Reset, ResetQueues, Enqueue, WaitForIdle, Register,
                      Recheck, runVars
  <2> QED
    BY <1>1, <1>2, <1>3, <1>4, <2>1, <2>2, <2>3, <2>4, <2>5, <2>6
       DEF NewCall, Step, ClaimStep, DriveStep, SettleStep, AbortStep, WaitStep

\* A terminal run phase is an immutable outcome, whatever finishes, drives or
\* aborts the run afterwards and from whichever thread.
THEOREM TerminalFinality == Spec => TerminalIsFinal
<1>1. OwnerInv /\ [Next]_vars => [FinalStep]_vars
  BY StepFinal DEF Next
<1> QED
  BY <1>1, OwnerInvHolds, PTL DEF Spec, TerminalIsFinal, FinalStep

-----------------------------------------------------------------------------
(* The phase of the agent, for a host that keeps tea-agent's discipline. *)

\* A thread is inside a call of its own: at these labels it drives or drops a
\* handle, at those it starts a run or aborts one.
DriverLabels == DriveLabels \cup Terminal \cup {"ha_run", "ha_mark"}
ControlLabels == ClaimLabels \cup AgentLabels \cup {"drain_tail"}
CallsAreOwn ==
    \A t \in Thread : /\ pc[t] \in DriverLabels => Drives(t)
                      /\ pc[t] \in ControlLabels => Controls(t)

\* A run is Running while its turn loop or its compactor works, and a handle is
\* dropped only before or after that.
InWork == WorkLabels \cup {"check"}
WorkIsRunning ==
    /\ \A t \in Thread : /\ pc[t] \in InWork => runPhase[run[t]] = "Running"
                         /\ pc[t] = "ha_run" => runPhase[run[t]] # "Running"
                         /\ pc[t] # "ha_mark"
    /\ \A r \in Run : kind[r] = "compaction" => runPhase[r] # "Created"

\* Whoever is about to report a cancellation follows a cancelled token.
TokenIsSet ==
    /\ \A t \in Thread :
         pc[t] \in {"aa_run", "aa_mark", "ha_run", "Cancelled"} => token[run[t]]
    /\ \A r \in Run : runPhase[r] = "Cancelled" => token[r]

\* A busy phase names the run that owns the agent.
PhaseIsOwned ==
    /\ phase # Idle => phase.run \in Run /\ Owns(phase.run)
    /\ phase.kind = "Cancelling" => token[phase.run]
    /\ phase = Idle => ~transient

\* The active-run slot and an abort under way name the owner, or what they
\* name is settled and the abort has still to empty the slot.
SlotIsCurrent ==
    /\ activeRun # NoRun =>
         \/ OwnedBy(activeRun)
         \/ \E t \in Thread : pc[t] \in {"aa_idle_queues", "aa_slot"}
                              /\ run[t] = activeRun
    /\ \A t \in Thread : pc[t] \in {"aa_cancel", "aa_run", "aa_mark"} =>
                           phase = Idle \/ OwnedBy(run[t])

\* A published run has a handle, and one whose handle is gone is over or about
\* to be cancelled by the drop.
HandlesEndRuns ==
    \A r \in Run :
        /\ Known(r) => handle[r] # "none"
        /\ handle[r] = "dropped" =>
             \/ IsTerminal(r)
             \/ \E t \in Thread : pc[t] = "ha_run" /\ run[t] = r

\* A run whose compaction replaced the transcript is on its way to an outcome
\* that does not say it was cancelled, or has it.
CommitsAreKept ==
    \A r \in committed :
        \/ runPhase[r] \in {"Succeeded", "Failed"}
        \/ /\ runPhase[r] = "Running"
           /\ \E t \in Thread : pc[t] \in {"committed", "Succeeded", "Failed"}
                                /\ run[t] = r

\* The inductive invariant.
PhaseInv ==
    /\ OwnerInv /\ CallsAreOwn /\ WorkIsRunning /\ TokenIsSet /\ PhaseIsOwned
    /\ SlotIsCurrent /\ HandlesEndRuns /\ CommitsAreKept

-----------------------------------------------------------------------------
LEMMA PhaseLabels ==
    /\ DriverLabels = {"start_turn", "check", "request", "streaming", "tools",
          "boundary", "errored", "compact", "commit", "committed", "Succeeded",
          "Failed", "Cancelled", "ha_run", "ha_mark"}
    /\ ControlLabels = {"precheck", "claim", "publish", "aa_cancel", "aa_run",
          "aa_mark", "aa_idle", "aa_queues", "aa_idle_queues", "aa_slot",
          "drain_tail"}
    /\ InWork = {"check", "request", "streaming", "tools", "boundary", "compact",
          "commit", "committed"}
    /\ Terminal = {"Succeeded", "Failed", "Cancelled"} /\ Live = {"Created", "Running"}
    /\ ClaimLabels = {"precheck", "claim", "publish"}
    /\ SettleLabels = {"settle", "aa_idle"}
    /\ DriverLabels \subseteq HandleLabels
BY DEF DriverLabels, ControlLabels, InWork, WorkLabels, DriveLabels, AwaitLabels,
       Terminal, Live, ClaimLabels, AgentLabels, SettleLabels, HandleLabels

\* The steps of a thread, by name.
ThreadStep(t) == NewCall(t) \/ WorkProgress(t) \/ Step(t)

LEMMA StepCalls ==
    ASSUME Disciplined, PhaseInv, NEW t \in Thread, ThreadStep(t)
    PROVE  CallsAreOwn'
<1> TypeOK /\ CallsAreOwn
  BY DEF PhaseInv, OwnerInv
<1> USE PhaseLabels DEF May, agentVars, runVars, wakerVars
<1> /\ \A l : Goto(t, l) => OnlyMoves(t) /\ pc'[t] = l /\ run'[t] = run[t]
    /\ \A l, r : Enter(t, l, r) => OnlyMoves(t) /\ pc'[t] = l /\ run'[t] = r
    /\ Return(t) => OnlyMoves(t) /\ pc'[t] = "ready"
    /\ UNCHANGED <<pc, run>> => OnlyMoves(t) /\ pc'[t] = pc[t] /\ run'[t] = run[t]
  BY MoveOnly
<1> SUFFICES /\ pc'[t] \in DriverLabels => Drives(t)
             /\ pc'[t] \in ControlLabels => Controls(t)
             /\ OnlyMoves(t)
  BY DEF CallsAreOwn, Drives, Controls, OnlyMoves
<1> (pc[t] \in DriverLabels => Drives(t)) /\ (pc[t] \in ControlLabels => Controls(t))
  BY DEF CallsAreOwn
<1>1. CASE \/ StartPrompt(t) \/ StartContinue(t) \/ StartCompaction(t) \/ Abort(t)
           \/ DrainTail(t)
  BY <1>1 DEF StartPrompt, StartContinue, StartCompaction, Abort, DrainTail,
              TakeRunId, Controls
<1>2. CASE \E r \in Run : Drive(t, r) \/ Drop(t, r)
  BY <1>2 DEF Drive, Drop, Drives
<1>3. CASE ClaimStep(t)
  BY <1>3, <1>1 DEF ClaimStep, Precheck, Claim, Publish
<1>4. CASE StartTurn(t) \/ CheckOwner(t) \/ Request(t) \/ StreamEnd(t) \/ Tools(t)
  BY <1>4 DEF StartTurn, CheckOwner, Request, StreamEnd, Tools
<1>5. CASE Boundary(t) \/ Fault(t) \/ Compact(t) \/ CompactionEnd(t)
  BY <1>5 DEF Boundary, Fault, Compact, CompactionEnd
<1>9. CASE Errored(t)
  <2>1. \/ Goto(t, "Cancelled") \/ Goto(t, "Failed") \/ Return(t)
    BY <1>9 DEF Errored
  <2> QED
    BY <1>9, <2>1 DEF Errored
<1>10. CASE CommitReplacement(t)
  BY <1>10 DEF CommitReplacement
<1>6. CASE SettleStep(t) \/ AbortStep(t)
  BY <1>6 DEF SettleStep, Finish, SettleAgent, Notify, AbortStep, HandleAbortRun,
       HandleAbortMark, AbortCancel, AbortRun, AbortMark, AbortIdle, AbortQueues, AbortSlot
<1>7. CASE \/ AbandonFuture(t) \/ Reset(t) \/ Enqueue(t) \/ WaitForIdle(t)
           \/ WorkProgress(t) \/ ResetQueues(t) \/ WaitStep(t)
  BY <1>7 DEF AbandonFuture, Reset, Enqueue, WaitForIdle, WorkProgress, ResetQueues,
       WaitStep, Register, Recheck
<1>8. ASSUME NEW r \in Run, HandleAbort(t, r) PROVE FALSE
  BY <1>8 DEF HandleAbort, Disciplined
<1> QED
  BY <1>1, <1>2, <1>3, <1>4, <1>5, <1>6, <1>7, <1>8, <1>9, <1>10
     DEF ThreadStep, NewCall, Step, DriveStep

-----------------------------------------------------------------------------
(* What a step may do to each variable, whichever call it belongs to.        *)

\* A run is published, begins, is cancelled before it began, or is finished,
\* each by the thread whose call is about it.
RunsMove(t) ==
    /\ \A r \in Run :
        \/ runPhase'[r] = runPhase[r]
        \/ /\ r = run[t] /\ pc[t] = "publish"
           /\ runPhase'[r] = IF kind[r] = "compaction" THEN "Running" ELSE "Created"
        \/ /\ r = run[t] /\ pc[t] = "start_turn" /\ runPhase[r] = "Created"
           /\ runPhase'[r] = "Running"
        \/ /\ r = run[t] /\ pc[t] \in {"ha_run", "aa_run"} /\ runPhase[r] = "Created"
           /\ runPhase'[r] = "Cancelled" /\ pc'[t] \in SettleLabels /\ run'[t] = r
        \/ /\ r = run[t] /\ pc[t] \in Terminal /\ ~IsTerminal(r)
           /\ runPhase'[r] = pc[t] /\ pc'[t] = "settle" /\ run'[t] = r
    /\ \A r \in Run : Known(r) => kind'[r] = kind[r]
    /\ pc[t] = "publish" => kind' = kind /\ runPhase'[run[t]] \in Live

\* The phase leaves Idle by a claim, returns to it by a settlement, and in
\* between only an abort marks it.
PhaseMoves(t) ==
    \/ phase' = phase
    \/ /\ phase = Idle /\ pc[t] = "claim" /\ ~transient'
       /\ phase' = Running(run[t]) /\ pc'[t] = "publish" /\ run'[t] = run[t]
    \/ pc[t] \in SettleLabels /\ phase' = Idle /\ ~transient'
    \/ pc[t] = "aa_mark" /\ phase # Idle /\ phase' = Cancelling(run[t])

\* Transient state appears while a run that owns the agent works.
WorkShows(t) ==
    /\ transient' => \/ transient
                     \/ OwnedBy(run[t]) /\ phase' = phase
                     \/ pc[t] \in {"streaming", "tools"} /\ phase' = phase
    /\ pc[t] \in SettleLabels => phase' = Idle /\ ~transient'

\* Tokens stay cancelled, and handles go from published to dropped.
HandlesMove(t) ==
    /\ \A r \in Run : token[r] => token'[r]
    /\ \A r \in Run :
        \/ handle'[r] = handle[r]
        \/ pc[t] = "publish" /\ r = run[t] /\ handle'[r] = "live"
        \/ /\ handle'[r] = "dropped"
           /\ IsTerminal(r) \/ (pc'[t] = "ha_run" /\ run'[t] = r)
    /\ pc[t] = "publish" => handle'[run[t]] = "live"
    /\ pc[t] = "ha_run" /\ run[t] \in Run => \/ runPhase'[run[t]] \in Terminal
                                              \/ pc'[t] = "ha_mark"

\* The slot names the run just published, is emptied with the settlement, or
\* by the abort that settled its run.
SlotMoves(t) ==
    /\ \/ activeRun' = activeRun
       \/ pc[t] = "publish" /\ activeRun' = run[t]
       \/ pc[t] \in {"settle", "aa_slot"} /\ activeRun' = NoRun
    /\ pc[t] = "settle" => activeRun' = NoRun
    /\ pc[t] = "aa_idle" => pc'[t] = "aa_idle_queues" /\ run'[t] = run[t]
    /\ pc[t] = "aa_idle_queues" => pc'[t] = "aa_slot" /\ run'[t] = run[t]
    /\ pc[t] = "aa_slot" => activeRun' # run[t] \/ run[t] = NoRun

\* Where a thread comes from when it reaches the labels the invariant speaks of.
LabelsMove(t) ==
    /\ pc'[t] \in InWork =>
         \/ pc[t] \in InWork /\ run'[t] = run[t]
         \/ pc[t] = "start_turn" /\ run'[t] = run[t] /\ runPhase'[run[t]] = "Running"
         \/ run'[t] \in Run /\ kind[run'[t]] = "compaction" /\ Known(run'[t])
            /\ ~IsTerminal(run'[t]) /\ runPhase' = runPhase
    /\ pc'[t] = "ha_run" => token'[run'[t]] /\ runPhase[run'[t]] # "Running"
                            /\ runPhase' = runPhase
    /\ pc'[t] = "ha_mark" => pc[t] = "ha_run" /\ runPhase[run[t]] \notin Terminal \cup {"Created"}
    /\ pc'[t] = "aa_cancel" => pc[t] = "ready" /\ run'[t] = activeRun
                               /\ activeRun # NoRun /\ phase' = phase
    /\ pc'[t] = "aa_run" => pc[t] = "aa_cancel" /\ run'[t] = run[t] /\ token'[run[t]]
                            /\ phase' = phase
    /\ pc'[t] = "aa_mark" => pc[t] = "aa_run" /\ run'[t] = run[t] /\ phase' = phase
    /\ pc'[t] = "Cancelled" =>
         /\ run'[t] = run[t] /\ pc[t] \in DriverLabels
         /\ token[run[t]] \/ (pc[t] = "commit" /\ phase # Running(run[t]))

\* A commit enters the set, and the thread that made it goes on to an outcome.
CommitsMove(t) ==
    /\ \A r \in committed' \ committed :
         /\ pc[t] = "commit" /\ r = run[t] /\ runPhase' = runPhase
         /\ pc'[t] = "committed" /\ run'[t] = r
    /\ committed \subseteq committed'
    /\ pc[t] = "committed" => pc'[t] \in {"Succeeded", "Failed"} /\ run'[t] = run[t]
                              /\ runPhase' = runPhase
    /\ pc[t] \in Terminal => IsTerminal(run[t]) \/ runPhase'[run[t]] = pc[t]

Effects(t) ==
    /\ OnlyMoves(t) /\ RunsMove(t) /\ PhaseMoves(t) /\ WorkShows(t)
    /\ HandlesMove(t) /\ SlotMoves(t) /\ LabelsMove(t) /\ CommitsMove(t)

LEMMA StepEffects ==
    ASSUME Disciplined, PhaseInv, NEW t \in Thread, ThreadStep(t)
    PROVE  Effects(t)
<1> TypeOK /\ Published /\ Claims /\ pc[t] # "ha_mark"
  BY DEF PhaseInv, OwnerInv, WorkIsRunning
<1> pc[t] \in DriverLabels \cup (ControlLabels \ {"drain_tail"}) => run[t] \in Run
  <2>1. pc[t] \in HandleLabels \cup AgentLabels \cup ClaimLabels => run[t] \in Run
    BY BoundAssumption DEF Published, Claims, TypeOK, Run
  <2> QED
    BY <2>1, PhaseLabels DEF ControlLabels
<1> \A r \in Run : Known(r) => r # nextRun + 1
  BY BoundAssumption DEF Published, TypeOK, Run
<1> USE PhaseLabels, BusyPhases DEF May, agentVars, runVars, wakerVars
<1> /\ \A l : Goto(t, l) => OnlyMoves(t) /\ pc'[t] = l /\ run'[t] = run[t]
    /\ \A l, r : Enter(t, l, r) => OnlyMoves(t) /\ pc'[t] = l /\ run'[t] = r
    /\ Return(t) => OnlyMoves(t) /\ pc'[t] = "ready"
    /\ UNCHANGED <<pc, run>> => OnlyMoves(t) /\ pc'[t] = pc[t] /\ run'[t] = run[t]
  BY MoveOnly
<1> USE DEF Effects, RunsMove, PhaseMoves, WorkShows, HandlesMove, SlotMoves,
            LabelsMove, CommitsMove, TypeOK
<1>1. CASE StartPrompt(t)
  BY <1>1 DEF StartPrompt, TakeRunId
<1>2. CASE StartContinue(t)
  BY <1>2 DEF StartContinue, TakeRunId
<1>3. CASE StartCompaction(t)
  BY <1>3 DEF StartCompaction, TakeRunId
<1>4. CASE DrainTail(t)
  BY <1>4 DEF DrainTail, TakeRunId
<1>5. CASE Precheck(t)
  BY <1>5 DEF Precheck
<1>6. CASE Claim(t)
  BY <1>6 DEF Claim
<1>7. CASE Publish(t)
  BY <1>7 DEF Publish
<1>8. CASE StartTurn(t)
  BY <1>8 DEF StartTurn
<1>9. CASE CheckOwner(t)
  BY <1>9 DEF CheckOwner
<1>10. CASE Request(t)
  BY <1>10 DEF Request
<1>11. CASE WorkProgress(t)
  BY <1>11 DEF WorkProgress
<1>12. CASE StreamEnd(t)
  BY <1>12 DEF StreamEnd
<1>13. CASE Tools(t)
  BY <1>13 DEF Tools
<1>14. CASE Boundary(t)
  BY <1>14 DEF Boundary
<1>15. CASE Fault(t)
  BY <1>15 DEF Fault
<1>16. CASE Errored(t)
  <2>1. (Goto(t, "Cancelled") /\ token[run[t]]) \/ Goto(t, "Failed") \/ Return(t)
    BY <1>16 DEF Errored
  <2>2. /\ pc[t] = "errored"
        /\ UNCHANGED <<phase, activeRun, runVars>>
    BY <1>16 DEF Errored
  <2>3. transient' => transient
    <3>1. transient' = FALSE \/ transient' = transient
      BY <1>16 DEF Errored
    <3> QED
      BY <3>1
  <2> QED
    <3>1. /\ OnlyMoves(t) /\ pc'[t] \in {"Cancelled", "Failed", "ready"}
          /\ pc'[t] = "Cancelled" => token[run[t]] /\ run'[t] = run[t]
      BY <2>1
    <3> QED
      BY <2>2, <2>3, <3>1
<1>17. CASE Compact(t)
  BY <1>17 DEF Compact
<1>18. CASE CommitReplacement(t)
  BY <1>18 DEF CommitReplacement
<1>19. CASE CompactionEnd(t)
  BY <1>19 DEF CompactionEnd
<1>20. CASE Finish(t)
  BY <1>20 DEF Finish
<1>21. CASE SettleAgent(t)
  BY <1>21 DEF SettleAgent
<1>22. CASE Notify(t)
  BY <1>22 DEF Notify
<1>23. CASE HandleAbortRun(t)
  BY <1>23 DEF HandleAbortRun, IsTerminal
<1>24. CASE HandleAbortMark(t)
  BY <1>24 DEF HandleAbortMark
<1>25. CASE Abort(t)
  BY <1>25 DEF Abort
<1>26. CASE AbortCancel(t)
  BY <1>26 DEF AbortCancel
<1>27. CASE AbortRun(t)
  BY <1>27 DEF AbortRun
<1>28. CASE AbortMark(t)
  BY <1>28 DEF AbortMark
<1>29. CASE AbortIdle(t)
  BY <1>29 DEF AbortIdle
<1>30. CASE AbortQueues(t)
  BY <1>30 DEF AbortQueues
<1>31. CASE AbortSlot(t)
  BY <1>31 DEF AbortSlot
<1>32. CASE Reset(t)
  BY <1>32 DEF Reset
<1>33. CASE ResetQueues(t)
  BY <1>33 DEF ResetQueues
<1>34. CASE Enqueue(t)
  BY <1>34 DEF Enqueue
<1>35. CASE WaitForIdle(t)
  BY <1>35 DEF WaitForIdle
<1>36. CASE Register(t)
  BY <1>36 DEF Register
<1>37. CASE Recheck(t)
  BY <1>37 DEF Recheck
<1>38. ASSUME NEW r \in Run, Drive(t, r) PROVE Effects(t)
  <2>1. \/ Enter(t, "start_turn", r)
        \/ kind[r] = "compaction" /\ Enter(t, "compact", r)
    BY <1>38 DEF Drive
  <2>2. Known(r)
    BY <1>38 DEF Drive, Published
  <2> QED
    BY <1>38, <2>1, <2>2 DEF Drive
<1>39. ASSUME NEW r \in Run, Drop(t, r) PROVE Effects(t)
  BY <1>39 DEF Drop, Disciplined
<1>40. ASSUME NEW r \in Run PROVE ~HandleAbort(t, r)
  BY DEF HandleAbort, Disciplined
<1>41. ~AbandonFuture(t)
  BY DEF AbandonFuture, Disciplined
<1> HIDE DEF Effects
<1> QED
  <2>1. CASE NewCall(t)
    BY <2>1, <1>1, <1>2, <1>3, <1>25, <1>32, <1>34, <1>35, <1>38, <1>39, <1>40,
       <1>41 DEF NewCall
  <2>2. CASE ClaimStep(t) \/ SettleStep(t) \/ AbortStep(t)
    BY <2>2, <1>4, <1>5, <1>6, <1>7, <1>20, <1>21, <1>22, <1>23, <1>24, <1>26,
       <1>27, <1>28, <1>29, <1>30, <1>31
       DEF ClaimStep, SettleStep, AbortStep
  <2>3. CASE DriveStep(t)
    BY <2>3, <1>8, <1>9, <1>10, <1>12, <1>13, <1>14, <1>15, <1>16, <1>17, <1>18,
       <1>19 DEF DriveStep
  <2> QED
    BY <2>1, <2>2, <2>3, <1>11, <1>33, <1>35, <1>36, <1>37
       DEF ThreadStep, Step, WaitStep

-----------------------------------------------------------------------------
(* Each part of the invariant is kept, by what a step may do.               *)

\* The one driver and the one controller.
LEMMA OneDriver ==
    ASSUME Disciplined, CallsAreOwn, NEW t \in Thread, NEW u \in Thread
    PROVE  /\ pc[t] \in DriverLabels /\ pc[u] \in DriverLabels => t = u
           /\ pc[t] \in ControlLabels /\ pc[u] \in ControlLabels => t = u
BY DEF Disciplined, CallsAreOwn

\* A run in progress is one of the runs, and not the one being published.
LEMMA RunsOfCalls ==
    ASSUME OwnerInv, NEW t \in Thread
    PROVE  /\ pc[t] \in {"publish", "settle"} \cup DriverLabels
                        \cup (ControlLabels \ {"drain_tail"}) => run[t] \in Run
           /\ pc[t] \in {"settle"} \cup DriverLabels => Known(run[t])
           /\ pc[t] = "publish" => ~Known(run[t])
           /\ pc[t] \in SettleLabels => IsTerminal(run[t])
<1> TypeOK /\ Published /\ Claims /\ Settlers
  BY DEF OwnerInv
<1>1. /\ pc[t] \in HandleLabels \cup AgentLabels => run[t] \in Run /\ Known(run[t])
      /\ pc[t] \in ClaimLabels => run[t] \in Run /\ ~Known(run[t])
  BY BoundAssumption DEF Published, Claims, TypeOK, Run
<1>2. /\ {"settle"} \cup DriverLabels \subseteq HandleLabels
      /\ "publish" \in ClaimLabels
      /\ ControlLabels \ {"drain_tail"} \subseteq AgentLabels \cup ClaimLabels
  BY DEF DriverLabels, HandleLabels, ClaimLabels, ControlLabels
<1> QED
  BY <1>1, <1>2 DEF Settlers

LEMMA KeepsWork ==
    ASSUME Disciplined, PhaseInv, OwnerInv', NEW t \in Thread, Effects(t)
    PROVE  WorkIsRunning'
<1> OwnerInv /\ CallsAreOwn /\ WorkIsRunning /\ TypeOK
  BY DEF PhaseInv, OwnerInv
<1> OnlyMoves(t) /\ RunsMove(t) /\ LabelsMove(t)
  BY DEF Effects
<1> USE PhaseLabels
<1>1. ASSUME NEW u \in Thread, u # t,
             pc[u] \in InWork \/ pc[u] = "ha_run"
      PROVE  runPhase'[run[u]] = "Running" <=> runPhase[run[u]] = "Running"
  <2>1. run[u] \in Run /\ Known(run[u]) /\ pc[t] \notin DriverLabels
    BY <1>1, OneDriver, RunsOfCalls
  <2>2. pc[t] = "publish" => ~Known(run[t])
    BY RunsOfCalls
  <2> QED
    BY <2>1, <2>2 DEF RunsMove, IsTerminal
<1>2. ASSUME NEW u \in Thread PROVE pc'[u] \in InWork => runPhase'[run'[u]] = "Running"
  <2>1. CASE u # t
    BY <1>1, <2>1 DEF OnlyMoves, WorkIsRunning
  <2>2. CASE u = t /\ pc[t] \in InWork /\ run'[t] = run[t]
    <3>1. run[t] \in Run
      BY <2>2, RunsOfCalls
    <3> QED
      BY <2>2, <3>1 DEF WorkIsRunning, RunsMove
  <2> QED
    BY <2>1, <2>2 DEF LabelsMove, WorkIsRunning, TypeOK, Known, IsTerminal
<1>3. ASSUME NEW u \in Thread
      PROVE  pc'[u] # "ha_mark" /\ (pc'[u] = "ha_run" => runPhase'[run'[u]] # "Running")
  <2>1. CASE u # t
    BY <1>1, <2>1 DEF OnlyMoves, WorkIsRunning
  <2>2. CASE u = t
    <3>1. pc[t] = "ha_run" => runPhase[run[t]] \in {"Created"} \cup Terminal
      BY RunsOfCalls DEF WorkIsRunning, TypeOK, Known
    <3> QED
      BY <2>2, <3>1 DEF LabelsMove
  <2> QED
    BY <2>1, <2>2
<1>4. ASSUME NEW r \in Run PROVE kind'[r] = "compaction" => runPhase'[r] # "Created"
  <2>1. runPhase[r] # "None" => Known(r)
    BY DEF Known
  <2>2. Known(r)' <=> runPhase'[r] # "None"
    BY DEF Known
  <2> QED
    BY <2>1, <2>2 DEF RunsMove, WorkIsRunning
<1> QED
  BY <1>2, <1>3, <1>4 DEF WorkIsRunning

\* The run that owns a busy agent is the one its phase names.
LEMMA OwnerIsNamed ==
    ASSUME PhaseInv, NEW r \in Run, Owns(r)
    PROVE  phase # Idle /\ phase.run = r /\ OwnedBy(r)
<1>1. phase # Idle /\ phase.run = r
  BY DEF PhaseInv, OwnerInv, OneOwner, PhaseIsOwned
<1>2. phase \in Phases
  BY DEF PhaseInv, OwnerInv, TypeOK
<1> QED
  BY <1>1, <1>2 DEF Phases, OwnedBy, Running, Cancelling, Idle

LEMMA NamedIsOwner ==
    ASSUME PhaseInv, NEW r, OwnedBy(r)
    PROVE  r \in Run /\ Owns(r) /\ phase # Idle /\ phase.run = r
<1>1. phase # Idle /\ phase.run = r
  BY DEF OwnedBy, Running, Cancelling, Idle
<1> QED
  BY <1>1 DEF PhaseInv, PhaseIsOwned

LEMMA WorkerOwns ==
    ASSUME PhaseInv, NEW t \in Thread, pc[t] \in InWork
    PROVE  run[t] \in Run /\ Owns(run[t])
<1>1. run[t] \in Run
  BY RunsOfCalls, PhaseLabels DEF PhaseInv
<1>2. runPhase[run[t]] = "Running"
  BY DEF PhaseInv, WorkIsRunning
<1> QED
  BY <1>1, <1>2, PhaseLabels DEF Owns

\* Ownership ends only with a settlement.
LEMMA OwnerStays ==
    ASSUME PhaseInv, NEW t \in Thread, Effects(t), NEW r \in Run, Owns(r),
           pc[t] \notin SettleLabels
    PROVE  Owns(r)'
<1> OnlyMoves(t) /\ RunsMove(t)
  BY DEF Effects
<1> USE PhaseLabels
<1>1. CASE runPhase[r] \in Live
  <2>1. pc[t] = "publish" => r # run[t]
    BY <1>1, RunsOfCalls DEF PhaseInv, Known
  <2> QED
    BY <1>1, <2>1 DEF RunsMove, Owns
<1>2. ASSUME NEW u \in Thread, pc[u] \in {"publish"} \cup SettleLabels, run[u] = r
      PROVE  Owns(r)'
  BY <1>2 DEF RunsMove, Owns, OnlyMoves
<1> QED
  BY <1>1, <1>2 DEF Owns

LEMMA TerminalStays ==
    ASSUME PhaseInv, NEW t \in Thread, Effects(t), NEW r \in Run, IsTerminal(r)
    PROVE  runPhase'[r] = runPhase[r]
<1>1. pc[t] = "publish" => r # run[t]
  BY RunsOfCalls, PhaseLabels DEF PhaseInv, Known, IsTerminal
<1> QED
  BY <1>1, PhaseLabels DEF Effects, RunsMove, IsTerminal

LEMMA KeepsTokens ==
    ASSUME Disciplined, PhaseInv, NEW t \in Thread, Effects(t)
    PROVE  TokenIsSet'
<1> OwnerInv /\ TokenIsSet /\ PhaseIsOwned
  BY DEF PhaseInv
<1> OnlyMoves(t) /\ RunsMove(t) /\ LabelsMove(t) /\ HandlesMove(t)
  BY DEF Effects
<1> USE PhaseLabels
<1>1. ASSUME NEW u \in Thread,
             pc'[u] \in {"aa_run", "aa_mark", "ha_run", "Cancelled"}
      PROVE  token'[run'[u]]
  <2>1. CASE u # t
    <3>1. run[u] \in Run
      BY <1>1, <2>1, RunsOfCalls DEF OnlyMoves
    <3> QED
      BY <1>1, <2>1, <3>1 DEF OnlyMoves, TokenIsSet, HandlesMove
  <2>2. CASE u = t /\ pc'[t] = "aa_mark"
    <3>1. run[t] \in Run
      BY <2>2, RunsOfCalls DEF LabelsMove
    <3> QED
      BY <2>2, <3>1 DEF LabelsMove, TokenIsSet, HandlesMove
  <2>3. CASE u = t /\ pc'[t] = "Cancelled" /\ token[run[t]] /\ run[t] \in Run
    BY <2>3 DEF LabelsMove, HandlesMove
  <2>4. CASE u = t /\ pc'[t] = "Cancelled" /\ pc[t] = "commit" /\ phase # Running(run[t])
    <3>1. run[t] \in Run /\ OwnedBy(run[t])
      BY <2>4, WorkerOwns, OwnerIsNamed
    <3>2. phase.kind = "Cancelling" /\ phase.run = run[t]
      BY <2>4, <3>1 DEF OwnedBy, Cancelling
    <3> QED
      BY <2>4, <3>1, <3>2 DEF PhaseIsOwned, LabelsMove, HandlesMove
  <2>5. pc'[t] = "Cancelled" => run[t] \in Run
    BY RunsOfCalls DEF LabelsMove
  <2> QED
    BY <1>1, <2>1, <2>2, <2>3, <2>4, <2>5 DEF LabelsMove
<1>2. ASSUME NEW r \in Run, runPhase'[r] = "Cancelled" PROVE token'[r]
  BY <1>2 DEF RunsMove, TokenIsSet, HandlesMove, Live
<1> QED
  BY <1>1, <1>2 DEF TokenIsSet

LEMMA KeepsPhase ==
    ASSUME Disciplined, PhaseInv, TypeOK', NEW t \in Thread, Effects(t)
    PROVE  PhaseIsOwned'
<1> OwnerInv /\ TokenIsSet /\ PhaseIsOwned /\ SlotIsCurrent /\ TypeOK
  BY DEF PhaseInv, OwnerInv
<1> PhaseMoves(t) /\ WorkShows(t) /\ HandlesMove(t) /\ OnlyMoves(t)
  BY DEF Effects
<1> USE PhaseLabels
<1>1. CASE phase' = phase
  <2>1. phase # Idle => phase.run \in Run /\ Owns(phase.run)'
    <3>1. phase # Idle => pc[t] \notin SettleLabels
      BY <1>1 DEF WorkShows
    <3>2. \A r \in Run : phase # Idle /\ phase.run = r => Owns(r)'
      BY <3>1, OwnerStays DEF PhaseIsOwned
    <3> QED
      BY <1>1, <3>2 DEF PhaseIsOwned, Owns
  <2>2. phase.kind = "Cancelling" => token'[phase.run]
    BY DEF PhaseIsOwned, HandlesMove, Idle
  <2>3. phase = Idle => ~transient'
    BY <1>1, WorkerOwns, OwnerIsNamed, NamedIsOwner DEF PhaseIsOwned, WorkShows
  <2> QED
    BY <1>1, <2>1, <2>2, <2>3 DEF PhaseIsOwned
<1>2. CASE /\ pc[t] = "claim" /\ phase' = Running(run[t])
           /\ pc'[t] = "publish" /\ run'[t] = run[t]
  <2>1. run[t] \in Run /\ Owns(run[t])'
    BY <1>2, RunsOfCalls DEF Owns
  <2> QED
    BY <1>2, <2>1, BusyPhases DEF PhaseIsOwned, Running
<1>3. CASE phase' = Idle /\ ~transient'
  BY <1>3 DEF PhaseIsOwned, Idle
<1>4. CASE pc[t] = "aa_mark" /\ phase # Idle /\ phase' = Cancelling(run[t])
  <2>1. run[t] \in Run /\ Owns(run[t])
    BY <1>4, NamedIsOwner DEF SlotIsCurrent
  <2>2. PICK r \in Run : r = run[t]
    BY <2>1
  <2>3. Owns(r)' /\ token'[r]
    BY <1>4, <2>1, <2>2, OwnerStays DEF TokenIsSet, HandlesMove
  <2>4. phase' = Cancelling(r) /\ phase' # Idle
    BY <1>4, <2>2, BusyPhases
  <2> QED
    BY <2>3, <2>4 DEF PhaseIsOwned, Cancelling, Idle, Owns
<1> QED
  BY <1>1, <1>2, <1>3, <1>4 DEF PhaseMoves

LEMMA KeepsSlot ==
    ASSUME Disciplined, PhaseInv, CallsAreOwn', NEW t \in Thread, Effects(t)
    PROVE  SlotIsCurrent'
<1> OwnerInv /\ PhaseIsOwned /\ SlotIsCurrent /\ CallsAreOwn
  BY DEF PhaseInv
<1> PhaseMoves(t) /\ WorkShows(t) /\ SlotMoves(t) /\ OnlyMoves(t) /\ LabelsMove(t)
  BY DEF Effects
<1> USE PhaseLabels
<1>1. ASSUME NEW r, OwnedBy(r)
      PROVE  OwnedBy(r)' \/ pc[t] \in SettleLabels
  <2>1. phase # Idle /\ phase.run = r
    BY <1>1, NamedIsOwner
  <2>2. pc[t] = "aa_mark" => run[t] = r
    BY <2>1, NamedIsOwner DEF SlotIsCurrent
  <2> QED
    BY <1>1, <2>1, <2>2 DEF PhaseMoves, OwnedBy
<1>2. ASSUME NEW u \in Thread, pc[u] \in {"aa_idle_queues", "aa_slot"},
             activeRun' = run[u], activeRun' # NoRun
      PROVE  \E w \in Thread : /\ pc'[w] \in {"aa_idle_queues", "aa_slot"}
                               /\ run'[w] = activeRun'
  BY <1>2 DEF OnlyMoves, SlotMoves
<1>3. ASSUME NEW r, activeRun' = r, r # NoRun
      PROVE  \/ OwnedBy(r)'
             \/ \E w \in Thread : /\ pc'[w] \in {"aa_idle_queues", "aa_slot"}
                                  /\ run'[w] = r
  <2>1. CASE activeRun = r /\ OwnedBy(r) /\ pc[t] = "aa_idle"
    <3>1. run[t] \in Run /\ Owns(run[t])
      BY <2>1, RunsOfCalls DEF Owns
    <3>2. run[t] = r
      BY <2>1, <3>1, OwnerIsNamed, NamedIsOwner
    <3> QED
      BY <2>1, <3>2 DEF SlotMoves
  <2>2. CASE activeRun = r /\ OwnedBy(r) /\ pc[t] # "aa_idle"
    BY <1>1, <1>3, <2>2 DEF SlotMoves
  <2>3. CASE activeRun = r /\ ~OwnedBy(r)
    BY <1>2, <1>3, <2>3 DEF SlotIsCurrent
  <2>4. CASE pc[t] = "publish" /\ r = run[t]
    <3>1. r \in Run /\ Owns(r)
      BY <2>4, RunsOfCalls DEF Owns
    <3> QED
      BY <1>1, <2>4, <3>1, OwnerIsNamed
  <2> QED
    BY <1>3, <2>1, <2>2, <2>3, <2>4 DEF SlotMoves
<1>4. ASSUME NEW u \in Thread, NEW r, run'[u] = r,
             pc'[u] \in {"aa_cancel", "aa_run", "aa_mark"}
      PROVE  phase' = Idle \/ OwnedBy(r)'
  <2>1. CASE pc[u] \in {"aa_cancel", "aa_run", "aa_mark"} /\ run[u] = r
    <3>1. pc[t] \in {"claim"} => t = u
      BY <2>1, OneDriver
    <3>2. phase = Idle => phase' = Idle
      BY <2>1, <3>1 DEF PhaseMoves
    <3> QED
      BY <1>1, <2>1, <3>2 DEF SlotIsCurrent, WorkShows
  <2>2. CASE u = t /\ pc'[t] = "aa_cancel"
    <3>1. ASSUME NEW w \in Thread, pc[w] \in {"aa_idle_queues", "aa_slot"} PROVE FALSE
      <4>1. Controls(w) /\ Controls(t)
        BY <2>2, <3>1 DEF CallsAreOwn
      <4> QED
        BY <2>2, <3>1, <4>1 DEF Disciplined, LabelsMove
    <3>2. activeRun = r /\ r # NoRun /\ phase' = phase
      BY <1>4, <2>2 DEF LabelsMove
    <3> QED
      BY <3>1, <3>2 DEF SlotIsCurrent, OwnedBy
  <2> QED
    BY <1>4, <2>1, <2>2 DEF LabelsMove, OnlyMoves
<1> QED
  <2>1. activeRun' # NoRun =>
          \/ phase' \in {Running(activeRun'), Cancelling(activeRun')}
          \/ \E w \in Thread : /\ pc'[w] \in {"aa_idle_queues", "aa_slot"}
                               /\ run'[w] = activeRun'
    BY <1>3 DEF OwnedBy
  <2>2. \A u \in Thread : pc'[u] \in {"aa_cancel", "aa_run", "aa_mark"} =>
          phase' = Idle \/ phase' \in {Running(run'[u]), Cancelling(run'[u])}
    BY <1>4 DEF OwnedBy
  <2> QED
    BY <2>1, <2>2 DEF SlotIsCurrent, OwnedBy

LEMMA KeepsHandles ==
    ASSUME PhaseInv, WorkIsRunning', NEW t \in Thread, Effects(t)
    PROVE  HandlesEndRuns'
<1> OwnerInv /\ HandlesEndRuns
  BY DEF PhaseInv
<1> HandlesMove(t) /\ OnlyMoves(t) /\ RunsMove(t)
  BY DEF Effects
<1> USE PhaseLabels
<1>1. ASSUME NEW r \in Run, Known(r)' PROVE handle'[r] # "none"
  <2>1. Known(r) \/ (pc[t] = "publish" /\ r = run[t])
    BY <1>1, RunsOfCalls DEF RunsMove, Known
  <2> QED
    BY <2>1 DEF HandlesMove, HandlesEndRuns
<1>2. ASSUME NEW r \in Run, handle'[r] = "dropped"
      PROVE  IsTerminal(r)' \/ \E u \in Thread : pc'[u] = "ha_run" /\ run'[u] = r
  <2>1. CASE IsTerminal(r)
    BY <2>1, TerminalStays DEF IsTerminal
  <2>2. ASSUME NEW u \in Thread, pc[u] = "ha_run", run[u] = r
        PROVE  \/ IsTerminal(r)'
               \/ \E w \in Thread : pc'[w] = "ha_run" /\ run'[w] = r
    BY <2>2 DEF OnlyMoves, HandlesMove, WorkIsRunning, IsTerminal
  <2> QED
    BY <1>2, <2>1, <2>2 DEF HandlesMove, HandlesEndRuns
<1> QED
  BY <1>1, <1>2 DEF HandlesEndRuns

LEMMA KeepsCommits ==
    ASSUME Disciplined, PhaseInv, NEW t \in Thread, Effects(t)
    PROVE  CommitsAreKept'
<1> OwnerInv /\ CallsAreOwn /\ WorkIsRunning /\ CommitsAreKept
  BY DEF PhaseInv
<1> CommitsMove(t) /\ OnlyMoves(t) /\ RunsMove(t)
  BY DEF Effects
<1> USE PhaseLabels
<1> DEFINE Kept(r) ==
      \/ runPhase'[r] \in {"Succeeded", "Failed"}
      \/ /\ runPhase'[r] = "Running"
         /\ \E u \in Thread : pc'[u] \in {"committed", "Succeeded", "Failed"}
                              /\ run'[u] = r
<1>1. ASSUME NEW r \in committed' \ committed PROVE Kept(r)
  BY <1>1 DEF CommitsMove, WorkIsRunning
<1>2. ASSUME NEW r \in committed PROVE Kept(r)
  <2> r \in Run
    BY DEF OwnerInv, TypeOK
  <2>1. CASE runPhase[r] \in {"Succeeded", "Failed"}
    BY <2>1, TerminalStays DEF IsTerminal
  <2>2. ASSUME NEW u \in Thread, runPhase[r] = "Running", run[u] = r,
               pc[u] \in {"committed", "Succeeded", "Failed"}
        PROVE  Kept(r)
    <3>1. CASE u = t
      BY <2>2, <3>1 DEF CommitsMove, IsTerminal
    <3>2. CASE u # t
      <4>1. pc[t] \notin DriverLabels /\ (pc[t] = "publish" => r # run[t])
        BY <2>2, <3>2, OneDriver, RunsOfCalls DEF Known
      <4>2. runPhase'[r] = runPhase[r]
        BY <2>2, <4>1 DEF RunsMove
      <4> QED
        BY <2>2, <3>2, <4>2 DEF OnlyMoves
    <3> QED
      BY <3>1, <3>2
  <2> QED
    BY <1>2, <2>1, <2>2 DEF CommitsAreKept
<1> QED
  BY <1>1, <1>2 DEF CommitsAreKept

-----------------------------------------------------------------------------
LEMMA PhaseStep ==
    ASSUME Disciplined, PhaseInv, NEW t \in Thread, ThreadStep(t)
    PROVE  PhaseInv'
<1>1. OwnerInv' /\ TypeOK'
  BY StepOwner DEF PhaseInv, OwnerInv, ThreadStep
<1>2. Effects(t) /\ CallsAreOwn'
  BY StepEffects, StepCalls
<1>3. WorkIsRunning'
  BY <1>1, <1>2, KeepsWork
<1> QED
  BY <1>1, <1>2, <1>3, KeepsTokens, KeepsPhase, KeepsSlot, KeepsHandles,
     KeepsCommits DEF PhaseInv

LEMMA PhaseInit == Init => PhaseInv
<1> SUFFICES ASSUME Init PROVE PhaseInv
  OBVIOUS
<1>1. OwnerInv
  BY InitOwner
<1>2. \A t \in Thread : pc[t] = "ready"
  BY DEF Init
<1>3. \A r \in Run : runPhase[r] = "None" /\ handle[r] = "none" /\ kind[r] = "prompt"
  BY DEF Init
<1> QED
  BY <1>1, <1>2, <1>3, PhaseLabels
     DEF Init, PhaseInv, CallsAreOwn, WorkIsRunning, TokenIsSet, PhaseIsOwned,
         SlotIsCurrent, HandlesEndRuns, CommitsAreKept, Known, Idle

LEMMA PhaseStutter == PhaseInv /\ UNCHANGED vars => PhaseInv'
<1> SUFFICES ASSUME PhaseInv, UNCHANGED vars PROVE PhaseInv'
  OBVIOUS
<1>1. OwnerInv'
  BY StutterOwner DEF PhaseInv
<1> QED
  BY <1>1 DEF PhaseInv, CallsAreOwn, WorkIsRunning, TokenIsSet, PhaseIsOwned,
     SlotIsCurrent, HandlesEndRuns, CommitsAreKept, Known, Owns, OwnedBy,
     IsTerminal, vars, agentVars, runVars, wakerVars

\* What the invariant says of an agent, in the terms of the properties.
LEMMA PhaseInvIsTrue == PhaseInv => PhaseIsTrue
<1> SUFFICES ASSUME PhaseInv PROVE PhaseIsTrue
  OBVIOUS
<1> OwnerInv /\ TypeOK /\ PhaseIsOwned /\ TokenIsSet /\ SlotIsCurrent
  BY DEF PhaseInv, OwnerInv
<1>1. IdleIsClean
  BY DEF IdleIsClean, PhaseIsOwned
<1>2. IdleMeansNoWork
  <2>1. WorkLabels \subseteq InWork
    BY DEF InWork
  <2> QED
    BY <2>1, WorkerOwns DEF IdleMeansNoWork, OwnerInv, OneOwner
<1>3. CancellingIsTrue
  BY DEF CancellingIsTrue, PhaseIsOwned, TokenIsSet, Idle
<1>4. NoOrphan
  <2> SUFFICES ASSUME \A t \in Thread : pc[t] \in {"ready", "parked"},
                      \A r \in Run : handle[r] # "live"
               PROVE  phase = Idle /\ activeRun = NoRun /\ ~transient
    BY DEF NoOrphan
  <2>1. \A r \in Run : ~Owns(r)
    <3>1. ASSUME NEW r \in Run, runPhase[r] \in Live PROVE FALSE
      <4>1. Known(r) /\ ~IsTerminal(r)
        BY <3>1, PhaseLabels DEF Known, IsTerminal
      <4>2. handle[r] = "dropped"
        BY <4>1 DEF PhaseInv, HandlesEndRuns, TypeOK
      <4> QED
        BY <4>1, <4>2 DEF PhaseInv, HandlesEndRuns
    <3> QED
      BY <3>1, PhaseLabels DEF Owns
  <2>2. phase = Idle
    BY <2>1 DEF PhaseIsOwned
  <2>3. \A r : ~OwnedBy(r)
    BY <2>2, BusyPhases DEF OwnedBy
  <2> QED
    BY <2>2, <2>3 DEF PhaseIsOwned, SlotIsCurrent
<1> QED
  BY <1>1, <1>2, <1>3, <1>4 DEF PhaseIsTrue

-----------------------------------------------------------------------------
(* The theorems.  They hold for any number of threads, runs and messages.   *)

\* The inductive invariant holds throughout, for every host that keeps the
\* discipline of tea-agent (app/runtime.rs, spawn_run and spawn_operation).
THEOREM PhaseInvHolds == ASSUME Disciplined PROVE Spec => []PhaseInv
<1>1. PhaseInv /\ [Next]_vars => PhaseInv'
  BY PhaseStep, PhaseStutter DEF Next, ThreadStep
<1> QED
  BY PhaseInit, <1>1, PTL DEF Spec

\* The agent's phase is true: an idle agent is clean and nobody works on it, a
\* cancelling one names a run somebody cancelled and that is still to be
\* settled, and no agent stays busy once its handles are gone.
THEOREM PhaseTruth == ASSUME Disciplined PROVE Spec => []PhaseIsTrue
BY PhaseInvHolds, PhaseInvIsTrue, PTL

\* A compaction that replaced the transcript never reports a cancellation,
\* however late the abort (commit_replacement, finish).
THEOREM CommitExcludesCancel == ASSUME Disciplined PROVE Spec => []CommitIsNotCancelled
<1>1. PhaseInv => CommitIsNotCancelled
  BY DEF PhaseInv, CommitsAreKept, CommitIsNotCancelled
<1> QED
  BY PhaseInvHolds, <1>1, PTL
=============================================================================
