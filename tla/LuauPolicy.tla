----------------------------- MODULE LuauPolicy -----------------------------
(***************************************************************************)
(* A policy of tea-luau: the closed bundle it is loaded from (bundle.rs),  *)
(* the evaluation of its modules in one VM (bundle_runtime.rs), and the    *)
(* before_tool_call hook it declares (policy/loading.rs, parsing.rs).      *)
(*                                                                         *)
(* The Luau code is external: a module may require what it likes, catch an *)
(* error or let it pass, loop, return or fail.  Each of these passes an    *)
(* interrupt check; once the budget is spent every check raises, and a     *)
(* pcall that catches one meets the next.                                  *)
(***************************************************************************)
EXTENDS Naturals, FiniteSets, SequencesExt

CONSTANTS
    Records,    \* bundles a host may build: [capabilities, entrypoint, sources]
    Requests,   \* arguments Luau code may give require, cut at `/'
    MaxChecks,  \* PolicyLimits::max_interrupt_checks
    MaxHooks    \* bound on the calls of before_tool_call

ASSUME PolicyAssumption == MaxChecks \in Nat /\ MaxHooks \in Nat

VARIABLES
    bundle,     \* the modules of the bundle: a set of canonical paths
    entrypoint, \* BundleManifest::entrypoint
    policy,     \* "none", "loaded" or "rejected"
    cache,      \* RuntimeState.cache: the value kept for a module, 0 for none
    loading,    \* RuntimeState.loading: the import stack
    frames,     \* the Luau activations: a module's path, or "hook"
    thrown,     \* an error has reached the top activation
    budget,     \* interrupt_budget
    made,       \* values that evaluations have returned so far
    given,      \* what require answered: <<module, value>>
    decision,   \* of the last before_tool_call
    hooks       \* calls of before_tool_call so far

vm == <<cache, loading, frames, thrown, budget, made, given>>
policyVars == <<bundle, entrypoint, policy, vm, decision, hooks>>

\* The activation of a hook, which is no module: no path has an empty segment.
Hook == <<"", "hook">>

-----------------------------------------------------------------------------
(* bundle.rs.                                                              *)

\* ModulePath::new: a canonical path is a sequence of proper segments.
Canonical(path) == path # <<>> /\ ToSet(path) \cap {"", ".", "..", "C:", "a\\b"} = {}

\* CapabilityName::new and BundleManifest::new.
Named(name) == name # ""
ManifestBuilds(record) ==
    /\ Canonical(record.entrypoint)
    /\ \A i \in DOMAIN record.capabilities : Named(record.capabilities[i])
    /\ IsInjective(record.capabilities)

\* Bundle::from_sources.
Builds(record) ==
    /\ ManifestBuilds(record)
    /\ \A i \in DOMAIN record.sources : Canonical(record.sources[i])
    /\ IsInjective(record.sources)
    /\ record.entrypoint \in ToSet(record.sources)

\* resolve_relative on a request that begins with `.' or `..': the directory of
\* the requester, one segment after the other; Escapes when it leaves the root.
Escapes == <<"..">>
Walk(directory, segment) ==
    IF directory = Escapes THEN Escapes
    ELSE CASE segment = "." -> directory
           [] segment = ".." -> IF directory = <<>> THEN Escapes ELSE Front(directory)
           [] OTHER -> Append(directory, segment)
Resolve(requester, request) == FoldLeft(Walk, Front(requester), request)

-----------------------------------------------------------------------------
(* bundle_runtime.rs.                                                      *)

\* load_required accepts relative requests only, and only while a module is
\* being evaluated: the requester is the one on top of the import stack.
Relative(request) == request # <<>> /\ request[1] \in {".", ".."}
Required(request) ==
    IF Relative(request) /\ loading # <<>> THEN Resolve(Last(loading), request) ELSE Escapes

\* load_module finds a value, refuses, or begins an evaluation.
Cached(path) == path \in bundle /\ cache[path] # 0

Refused(path) == path \notin bundle \/ (~Cached(path) /\ Contains(loading, path))

Evaluate(path) ==
    /\ loading' = Append(loading, path) /\ frames' = Append(frames, path)
    /\ UNCHANGED <<cache, thrown, made, given>>

\* finish_loading removes the last occurrence of the module.
FinishLoading(path) ==
    IF ~Contains(loading, path) THEN loading
    ELSE RemoveAt(loading, CHOOSE i \in DOMAIN loading :
                             loading[i] = path /\ \A j \in i + 1..Len(loading) : loading[j] # path)

-----------------------------------------------------------------------------
(* Luau code, the activation on top.                                       *)

Top == Last(frames)
Runs == frames # <<>> /\ ~thrown

\* A step passes the interrupt check.
Checked == Runs /\ budget > 0 /\ budget' = budget - 1

LuaRequire ==
    /\ Checked
    /\ \E request \in Requests :
         LET path == Required(request)
         IN  CASE Cached(path) -> /\ given' = given \cup {<<path, cache[path]>>}
                                  /\ UNCHANGED <<cache, loading, frames, thrown, made>>
               [] Refused(path) -> /\ thrown' = TRUE
                                   /\ UNCHANGED <<cache, loading, frames, made, given>>
               [] OTHER -> Evaluate(path)
    /\ UNCHANGED <<bundle, entrypoint, policy, decision, hooks>>

LuaLoop ==
    Checked /\ UNCHANGED <<bundle, entrypoint, policy, cache, loading, frames, thrown, made,
                           given, decision, hooks>>

LuaFail ==
    /\ Runs /\ thrown' = TRUE
    /\ UNCHANGED <<bundle, entrypoint, policy, cache, loading, frames, budget, made, given,
                   decision, hooks>>


\* pcall.
LuaCatch ==
    /\ frames # <<>> /\ thrown /\ budget > 0
    /\ thrown' = FALSE /\ budget' = budget - 1
    /\ UNCHANGED <<bundle, entrypoint, policy, cache, loading, frames, made, given, decision,
                   hooks>>

\* A required module returns: its value is kept and given to the requester.
ModuleReturns ==
    /\ Checked /\ Len(frames) > 1
    /\ made' = made + 1
    /\ cache' = [cache EXCEPT ![Top] = made + 1]
    /\ given' = given \cup {<<Top, made + 1>>}
    /\ loading' = FinishLoading(Top) /\ frames' = Front(frames)
    /\ UNCHANGED <<bundle, entrypoint, policy, thrown, decision, hooks>>

\* The entry point returns, and parse_declaration reads what it returned.
EntrypointReturns ==
    /\ Checked /\ frames = <<entrypoint>>
    /\ made' = made + 1
    /\ cache' = [cache EXCEPT ![Top] = made + 1]
    /\ loading' = FinishLoading(Top) /\ frames' = <<>>
    /\ policy' \in {"loaded", "rejected"}
    /\ UNCHANGED <<bundle, entrypoint, thrown, given, decision, hooks>>

\* Mutant: a module that fails stays on the import stack.
Unwind_KeepsLoading ==
    /\ frames # <<>> /\ thrown
    /\ frames' = Front(frames)
    /\ loading' = loading
    /\ IF Top = Hook
         THEN decision' = "error" /\ thrown' = FALSE /\ policy' = policy
         ELSE /\ decision' = decision
              /\ thrown' = (Len(frames) > 1)
              /\ policy' = (IF Len(frames) = 1 THEN "rejected" ELSE policy)
    /\ UNCHANGED <<bundle, entrypoint, cache, budget, made, given, hooks>>


\* An error leaves the activation: a module fails, and its requester may catch;
\* the entry point's failure refuses the policy.
Unwind ==
    /\ frames # <<>> /\ thrown
    /\ frames' = Front(frames)
    /\ IF Top = Hook
         THEN decision' = "error" /\ thrown' = FALSE /\ UNCHANGED <<loading, policy>>
         ELSE /\ loading' = FinishLoading(Top)
              /\ decision' = decision
              /\ thrown' = (Len(frames) > 1)
              /\ policy' = (IF Len(frames) = 1 THEN "rejected" ELSE policy)
    /\ UNCHANGED <<bundle, entrypoint, cache, budget, made, given, hooks>>

\* The interrupt raises once the budget is spent.
Interrupt ==
    /\ Runs /\ budget = 0
    /\ thrown' = TRUE
    /\ UNCHANGED <<bundle, entrypoint, policy, cache, loading, frames, budget, made, given,
                   decision, hooks>>

-----------------------------------------------------------------------------
(* The host.                                                               *)

\* load_bundle: the runtime is installed, the entry point evaluated.
LoadBundle ==
    /\ policy = "none" /\ frames = <<>>
    /\ budget' = MaxChecks
    /\ loading' = <<entrypoint>> /\ frames' = <<entrypoint>>
    /\ UNCHANGED <<bundle, entrypoint, policy, cache, thrown, made, given, decision, hooks>>

\* before_tool_call: one call at a time, under the policy's mutex, with a budget
\* of its own; a policy without a hook allows.
BeforeToolCall ==
    /\ policy = "loaded" /\ frames = <<>> /\ hooks < MaxHooks
    /\ hooks' = hooks + 1
    /\ \/ /\ decision' = "allow" /\ UNCHANGED <<frames, budget>>
       \/ /\ decision' = "none" /\ frames' = <<Hook>> /\ budget' = MaxChecks
    /\ UNCHANGED <<bundle, entrypoint, policy, cache, loading, thrown, made, given>>

\* parse_decision: a string that is not "allow", a table without a reason or
\* with another action is an error.
HookReturns ==
    /\ Checked /\ Top = Hook
    /\ frames' = <<>>
    /\ decision' \in {"allow", "block", "terminate", "error"}
    /\ UNCHANGED <<bundle, entrypoint, policy, cache, loading, thrown, made, given, hooks>>

-----------------------------------------------------------------------------
PolicyInit ==
    /\ \E record \in Records :
         /\ Builds(record)
         /\ bundle = ToSet(record.sources) /\ entrypoint = record.entrypoint
    /\ policy = "none" /\ cache = [path \in bundle |-> 0] /\ loading = <<>> /\ frames = <<>>
    /\ thrown = FALSE /\ budget = 0 /\ made = 0 /\ given = {} /\ decision = "none" /\ hooks = 0

Luau ==
    \/ LuaRequire \/ LuaLoop \/ LuaFail \/ LuaCatch
    \/ ModuleReturns \/ EntrypointReturns \/ HookReturns \/ Unwind \/ Interrupt

PolicyNext == LoadBundle \/ BeforeToolCall \/ Luau

-----------------------------------------------------------------------------
(* Properties.                                                             *)

\* The import stack is the stack of the modules being evaluated, after any mix
\* of failures that the Luau code catches: a request resolves against the
\* module that makes it, and a hook, which evaluates none, may require nothing.
ImportsFollowCalls == loading = IF frames = <<Hook>> THEN <<>> ELSE frames

\* A module is evaluated to a value at most once in a VM: whoever requires it is
\* given the same value.
OneValuePerModule == \A x, y \in given : x[1] = y[1] => x[2] = y[2]

\* Neither the load of a policy nor a hook goes on for ever: the budget ends
\* loops, imports that retry, and code that catches the interrupt.
EvaluationEnds == frames # <<>> ~> frames = <<>>
=============================================================================
