------------------------------ MODULE LuauCalls ------------------------------
(***************************************************************************)
(* Calls of Luau code that waits for the host: the tool handler a policy   *)
(* declares, as an AgentTool (tool_handler/runtime.rs), and the task of    *)
(* async_runtime.rs.  Both are futures: a poll resumes the coroutine until *)
(* it waits for a host future, returns or fails.  The host's capability    *)
(* asks a CapabilityGate first (capability/gate.rs, manifest.rs).          *)
(*                                                                         *)
(* A poll is a loop, one iteration of which is a few steps here: the       *)
(* token may be cancelled by another thread between any two of them.  The  *)
(* task that owns the future polls it again only after a wake-up.          *)
(***************************************************************************)
EXTENDS LuauPolicy

CONSTANTS
    Adapters,     \* subset of {"handler", "task"}
    Declared,     \* ToolHandlerSpec::capability
    Bindings,     \* names bound with CapabilityBindings::insert, in order
    Grants,       \* manifests a host may write: sequences of [module, operations]
    Operations,   \* the operations of each module: CapabilityOperation
    Asked,        \* the requests Luau may yield: [capability, operation]
    MaxCalls,     \* HandlerLimits::max_capability_calls
    MaxTaskCalls  \* bound on the host calls of a task

ASSUME CallsAssumption ==
    /\ Adapters \subseteq {"handler", "task"}
    /\ MaxCalls \in Nat \ {0} /\ MaxTaskCalls \in Nat

VARIABLES
    adapter,    \* whose call this is
    manifest,   \* CapabilityGate.manifest
    call,       \* where the call is: "none", "idle", or the step of its poll
    result,     \* how it settled
    cancelled,  \* its CancellationToken
    woken,      \* the task that owns the call was woken since its last poll
    listening,  \* its waker is registered with a CancellationWait
    pending,    \* capability_future
    answer,     \* resume_value: the request it answers, 0 for none
    issued,     \* requests given to the host, in order
    delivered,  \* answers the coroutine was resumed with
    performed   \* what the provider did

callVars == <<adapter, manifest, call, result, cancelled, woken, listening, pending, answer,
              issued, delivered, performed>>
vars == <<policyVars, callVars>>

-----------------------------------------------------------------------------
(* Capabilities.                                                           *)

\* parse_grant and parse_operation; CapabilityGrant::new.
OperationParses(module, operation) == operation \in Operations[module]
Granted(grant) ==
    /\ \A i \in DOMAIN grant.operations : OperationParses(grant.module, grant.operations[i])
    /\ IsInjective(grant.operations)

\* CapabilityManifest::from_json: known modules, none twice.
Parses(grants) ==
    /\ \A i \in DOMAIN grants : grants[i].module \in DOMAIN Operations /\ Granted(grants[i])
    /\ \A i, j \in DOMAIN grants : grants[i].module = grants[j].module => i = j

\* CapabilityManifest::check: an exact operation of an exact module.
Grant(module, operation) ==
    \E i \in DOMAIN manifest :
      manifest[i].module = module /\ operation \in ToSet(manifest[i].operations)

\* The binding the host makes dispatches what it is asked to its gate.
Module(operation) == CHOOSE m \in DOMAIN Operations : operation \in Operations[m]
Known(operation) == \E m \in DOMAIN Operations : operation \in Operations[m]
Authorized(operation) == Known(operation) /\ Grant(Module(operation), operation)

\* CapabilityBindings::insert refuses a name that is empty or bound already.
Bound == IF IsInjective(Bindings) THEN ToSet(Bindings) \ {""} ELSE {}

NoFuture == [state |-> "none", id |-> 0, asks |-> "none", polled |-> FALSE]

-----------------------------------------------------------------------------
\* LuaToolHandler::new refuses a capability that is not bound; the run starts an
\* invocation once the policy's hook has allowed the call.  A task is started
\* by its embedding.
StartHandler == adapter = "handler" /\ Declared \in Bound /\ decision = "allow" /\ frames = <<>>
StartTask == adapter = "task"
Start ==
    /\ call = "none"
    /\ StartHandler \/ StartTask
    /\ call' = "idle" /\ woken' = TRUE
    /\ UNCHANGED <<policyVars, adapter, manifest, result, cancelled, listening, pending, answer,
                   issued, delivered, performed>>

Poll ==
    /\ call = "idle" /\ woken
    /\ call' = "top" /\ woken' = FALSE
    /\ UNCHANGED <<policyVars, adapter, manifest, result, cancelled, listening, pending, answer,
                   issued, delivered, performed>>

\* Mutant: the host future outlives the call.
Settle_KeepsFuture(how) == call' = "settled" /\ result' = how /\ pending' = pending

\* The future settles and drops the host future it owns.
Settle(how) == call' = "settled" /\ result' = how /\ pending' = NoFuture
GoOn(step) == call' = step /\ UNCHANGED result


\* The handler polls its CancellationWait on every iteration, which registers
\* the waker; the task reads the flag.
CheckCancelled ==
    /\ call = "top"
    /\ listening' = (listening \/ adapter = "handler")
    /\ IF cancelled THEN Settle("cancelled") ELSE GoOn("future") /\ UNCHANGED pending
    /\ UNCHANGED <<policyVars, adapter, manifest, cancelled, woken, answer, issued, delivered,
                   performed>>

\* resume_value after the host future was polled.
Received == IF pending.state = "ready" THEN pending.id ELSE answer

\* The host future.  The task first polls the CancellationWait of the pending
\* call, and reads the flag again before it resumes the coroutine.
PollFuture ==
    /\ call = "future"
    /\ listening' = (listening \/ pending.state # "none")
    /\ answer' = Received
    /\ IF adapter = "task" /\ pending.state # "none" /\ cancelled
       THEN Settle("cancelled")
       ELSE CASE pending.state = "failed" -> Settle("refused")
              [] pending.state = "none" -> GoOn("resume") /\ UNCHANGED pending
              [] pending.state = "working" ->
                   GoOn("idle") /\ pending' = [pending EXCEPT !.polled = TRUE]
              [] pending.state = "ready" ->
                   /\ GoOn(IF adapter = "handler" THEN "top" ELSE "answered")
                   /\ pending' = NoFuture
    /\ UNCHANGED <<policyVars, adapter, manifest, cancelled, woken, issued, delivered, performed>>

CheckAnswered ==
    /\ call = "answered"
    /\ IF cancelled THEN Settle("cancelled") ELSE GoOn("resume") /\ UNCHANGED pending
    /\ UNCHANGED <<policyVars, adapter, manifest, cancelled, woken, listening, answer, issued,
                   delivered, performed>>

\* The coroutine is resumed with the answer, or, at first, with the call.
Resume ==
    /\ call = "resume"
    /\ answer' = 0
    /\ delivered' = (IF answer = 0 THEN delivered ELSE Append(delivered, answer))
    /\ UNCHANGED <<policyVars, adapter, manifest, cancelled, woken, listening, performed>>

\* The coroutine fails, or returns what parse_tool_result cannot read.
LuauFails == Resume /\ Settle("failed") /\ UNCHANGED issued

LuauReturns ==
    /\ Resume /\ UNCHANGED issued
    /\ Settle(IF adapter = "task" /\ cancelled THEN "cancelled" ELSE "ok")

\* What it yields is no request.
YieldsOther ==
    /\ Resume /\ UNCHANGED issued
    /\ Settle(IF adapter = "task" /\ cancelled THEN "cancelled" ELSE "failed")

Issue(asks) ==
    /\ GoOn("top")
    /\ issued' = Append(issued, asks)
    /\ pending' = [state |-> "working", id |-> Len(issued) + 1, asks |-> asks, polled |-> FALSE]

\* The handler refuses a capability that is not its own, and stops at its limit.
HandlerYields ==
    /\ adapter = "handler" /\ Resume
    /\ \E asks \in Asked :
         IF asks.capability # Declared THEN Settle("blocked") /\ UNCHANGED issued
         ELSE IF Len(issued) = MaxCalls THEN Settle("failed") /\ UNCHANGED issued
         ELSE Issue(asks)

\* The host of a task takes any name.
TaskYields ==
    /\ adapter = "task" /\ Resume
    /\ Len(issued) < MaxTaskCalls
    /\ \E asks \in Asked :
         IF cancelled THEN Settle("cancelled") /\ UNCHANGED issued ELSE Issue(asks)

-----------------------------------------------------------------------------
(* The host and the canceller.                                             *)

\* Mutant: the gate is not asked.
Provide_Unchecked ==
    /\ pending.state = "working"
    /\ woken' = (woken \/ pending.polled)
    /\ \/ /\ pending' = [pending EXCEPT !.state = "failed"]
          /\ performed' = performed
       \/ /\ pending' = [pending EXCEPT !.state = "ready"]
          /\ performed' = Append(performed, pending.asks)
    /\ UNCHANGED <<policyVars, adapter, manifest, call, result, cancelled, listening, answer,
                   issued, delivered>>


\* CapabilityGate::provide checks before it calls the provider; an answer wakes
\* whoever polled the future.
Provide ==
    /\ pending.state = "working"
    /\ woken' = (woken \/ pending.polled)
    /\ \/ /\ pending' = [pending EXCEPT !.state = "failed"]
          /\ performed' = performed
       \/ /\ Authorized(pending.asks.operation)
          /\ pending' = [pending EXCEPT !.state = "ready"]
          /\ performed' = Append(performed, pending.asks)
    /\ UNCHANGED <<policyVars, adapter, manifest, call, result, cancelled, listening, answer,
                   issued, delivered>>

Cancel ==
    /\ ~cancelled /\ call # "settled"
    /\ cancelled' = TRUE /\ woken' = (woken \/ listening)
    /\ UNCHANGED <<policyVars, adapter, manifest, call, result, listening, pending, answer, issued,
                   delivered, performed>>

-----------------------------------------------------------------------------
Init ==
    /\ PolicyInit
    /\ adapter \in Adapters /\ manifest \in {grants \in Grants : Parses(grants)}
    /\ call = "none" /\ result = "none" /\ cancelled = FALSE /\ woken = FALSE /\ listening = FALSE
    /\ pending = NoFuture /\ answer = 0 /\ issued = <<>> /\ delivered = <<>> /\ performed = <<>>

Adapter ==
    \/ Poll \/ CheckCancelled \/ PollFuture \/ CheckAnswered
    \/ LuauFails \/ LuauReturns \/ YieldsOther \/ HandlerYields \/ TaskYields

Next ==
    \/ PolicyNext /\ UNCHANGED callVars
    \/ Start \/ Adapter \/ Provide \/ Cancel

Spec == Init /\ [][Next]_vars

\* Luau code runs in the thread that called it, and the executor polls a future
\* that was woken.  A host future need not complete.
FairSpec ==
    /\ Spec
    /\ WF_vars(Luau /\ UNCHANGED callVars) /\ WF_vars(Adapter)

-----------------------------------------------------------------------------
(* Properties.                                                             *)

\* A settled call owns no host future: nothing of it is performed afterwards.
NothingAfterSettling == [][call = "settled" => UNCHANGED performed]_vars

\* Only what the manifest grants, exactly, is performed; by a handler, only
\* through the capability its tool declares and at most MaxCalls times.
OnlyGranted ==
    /\ \A i \in DOMAIN performed : Authorized(performed[i].operation)
    /\ adapter = "handler" => /\ Len(performed) <= MaxCalls
                              /\ \A i \in DOMAIN performed : performed[i].capability = Declared

\* The coroutine gets every answer once, in the order of its requests, and no
\* request before the previous one was answered.
AnswersInOrder ==
    /\ delivered = [i \in DOMAIN delivered |-> i]
    /\ call # "settled" => Len(issued) \in {Len(delivered), Len(delivered) + 1}

\* Cancellation settles the call, though the host never answers (docs/
\* luau-extensions.md: "Cancellation wakes a pending capability call").
CancelSettles == (cancelled /\ call # "none") ~> call = "settled"

\* A module is imported once, by the module that asks for it.
ModulesAreConsistent == ImportsFollowCalls /\ OneValuePerModule

\* The coroutine gets what it was granted, once and in order.
AnswersAreGranted == OnlyGranted /\ AnswersInOrder

\* Loading and calling come to an end, and a call that has leaves nothing behind.
CallsEnd == NothingAfterSettling /\ EvaluationEnds /\ CancelSettles
=============================================================================
