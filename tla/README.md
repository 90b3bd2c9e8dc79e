# A verification model of tea

`src/` is a Rust agent runtime (`crates/tea-core`), the wire protocol it shares
with its extensions (`tea-protocol`), Luau extensions (`tea-luau`), a trace
format (`tea-trace`), a terminal application (`tea-agent`) and a Python
evaluation harness (`evals/`). This directory is a TLA+ model of the part of it
whose correctness depends on the order in which things happen, the TLC
configurations that check it, and proofs about it.

Everything is run inside this directory:

    tlc -workers 2 -config loop.cfg MCRunLoop
    tlc -workers 2 -config tea_app.cfg TeaApp
    tlapm AgentOwnershipProofs.tla

Section 4 names the module of each configuration, section 5 the proofs.

## 1. Inventory

Paths are relative to `src/crates/`.

| part | state | operations | interacts with | hard | correct when | module |
|---|---|---|---|---|---|---|
| agent ownership: `tea-core` `agent/mod.rs`, `state/lifecycle.rs`, `run/mod.rs`, `compaction.rs` | phase, active run, run phases and tokens, each behind a mutex of its own; wakers of waiters | start, continue, compact, drive, abort, drop, reset, wait_for_idle | any thread may call; no mutex is held across an await | every pair of critical sections is a window | one owner, one settlement per run, an idle agent has no leftovers, waiters return | `AgentOwnership` |
| run loop: `run/mod.rs` | transcript, open calls, event log, turn, policy counters | turns, injection, automatic compaction, four settlements | provider, tools, hooks, awaited observers, the host's queues | an error at any await has to close what was opened; retries after an overflow | event grammar, answered calls, input once and in order, a refused compaction changes nothing | `RunLoop`, `EventContract` |
| tool batches: `run/tool_execution.rs`, `scheduler.rs` | futures, update queue, wakers, waiters of the token | prepare, launch, poll, settle, abort the rest, answer | tools call back from threads of their own; the host cancels in two steps | lost wake-ups, late updates, one more poll after a cancel | each call ends and is answered once and in order; a cancelled batch ends | `ToolBatch` |
| providers: `provider/http.rs`, `retry.rs`, `openrouter`, `local`, `commandcode` | queue of a body worker, decoder, retry counters | request, read, decode, poll, retry | a worker thread per request; the server; the run's token | bodies cut anywhere, cancellation and time-outs during a read, nested retries | the caller keeps what the server said, nothing is held back, it ends | `ProviderStream` |
| tools: `tools/*`, `tool.rs`, `schema_validation.rs` | files of a workspace, capture files, shells | seven tools, validation, projection | other agents and processes on the same files | another agent between the read and the write of an edit, or inside a walk; limits in bytes and lines, capture names, hanging shells | results say what the files held; captures are own and removed; schemas suffice | `WorkspaceTools`, `ToolText`, `JsonSchema`, `CommandCapture` |
| Luau: `tea-luau` | modules, import stack, budgets, coroutine, host future | load, require, hook, call, poll, settle | Luau code that does what it likes; a capability gate | errors that are caught, cancellation inside a poll | one value per module, no ungranted answer, an end with nothing left | `LuauPolicy`, `LuauCalls` |
| extensions: `tea-agent/src/app/tea.rs`, `host.rs` | registry, manifests, modules, the active snapshot | load, reload, compose; list, read, draft, validate | the user's editor between any two reads; runs that draft | links, partial reads, a run in progress, the window between a draft's look and its write | snapshots whole and fresh once reaped, drafts inside, first denial decides | `Extensions` |
| sessions: `app/session.rs`, `preferences.rs` | one file per session, temporary names | save, load, list | other terminals, other programs, crashes | every step of a write may be the last | what is on disk is a conversation somebody held | `SessionStore`, `DurableSessions` |
| application: `app/runtime.rs`, `state.rs`, `input.rs`, `picker.rs`, `commands.rs` | view, composer, operation, session | keys, commands, drain, reap, redraw | the agent on another thread, through events and a result channel | a key between the end of a run and its events | the view is true, saves are safe, a lost prompt returns, quitting ends | `TeaApp` |
| terminal input: `terminal.rs`, `composer.rs`, `ui/visual_layout.rs`, `editor.rs` | bytes, decoder, buffer, cursor, menus, history | decode, edit, complete, recall | the clock; the user | keys that arrive in chunks, stale menus | every event is a typed key, menus and drafts are current | `TerminalInput`, `Composer` |
| accounting, measurement, trace, profile, binaries | sums and reports | | | | output only | not modelled |
| `tea-protocol`, `tea-trace`, rendering, `evals/` | wire types, records, cells, reports | | | | section 7 | not modelled |

`PROJECT.json` lists each component with its files, its hazards at their lines,
and for each definition the lines it stands for.

## 2. Plan

Done, in this order: `AgentOwnership` (everything else runs inside a run that
owns the agent) and its proof, `EventContract` and `RunLoop`, `ToolBatch` and its
proof; then `SessionStore` with `DurableSessions` and its proof, `TeaApp`,
`ProviderStream`, `Extensions`, `LuauPolicy` and `LuauCalls`, the tools, and the
terminal's input.

Theorems are proved in the same order (section 5): those of `AgentOwnership`,
`ToolBatch`, `RunLoop` with its refinement of `EventContract`, `Extensions`, `SessionStore`
with its refinement of `DurableSessions`, `LuauCalls`, `TeaApp` and `TerminalInput`. Every safety
property of their runs is a theorem. To add: `AnswerIsTrue` and `NothingHeldBack` of
`ProviderStream`.

Modules still worth writing: the list of observers with removals during delivery;
decimal accounting against a reference addition; the evaluation controller.

## 3. The modules

### AgentOwnership, MCAgentOwnership

An action is one critical section of one thread, so every interleaving of public
calls is a behaviour. `pc[t]` names the place between two critical sections and
`run[t]` the run the call is about; the other variables are the fields named in
the module. `Calls[t]` says which public calls a thread makes.

| code | actions |
|---|---|
| `start_run`, `start_prompt` | precheck, claim of the phase, publication in `active_run`: three sections |
| `start_continue` | drains of the two queues, then the same claim |
| `start_manual_compaction` | the same claim with its own handle |
| `RunHandle::drive` | start_turn, then one action per token or phase check and per await of the turn loop |
| `finish`, `settle_agent` | Finish, SettleAgent, Notify |
| `RunHandle::abort` | token and run phase; then, after the lock is released, the agent phase |
| `Agent::abort` | five sections: clone the slot, cancel, run phase, agent phase, queues |
| drop of a handle or of a drive future | the calls `drop` and `abandon` |
| `wait_for_idle` | check, register, check again, park |

The turn loop is its ownership checks and its outcomes; the transcript is absent;
both queues are one count; the transient fields are one flag.

### EventContract, RunLoop, MCRunLoop

`EventContract` is what an observer of one run may rely on: the grammar of the
event log, with nothing about how the loop decides what to emit. It is the
abstract specification of `RunLoop`, whose property `Promised` is its
specification over `RunLoop`'s log.

`RunLoop` is `drive` and `drive_inner` of one run. `out` holds the events of the
step in progress; `Emit` publishes them one at a time, since `emit` awaits the
observers at each; the host may act and an observer may fail between any two.
`pc` names the points of the loop at which something is decided. The locals of
the Rust functions are the records `loop`, `batch` and `policy`; `snapshot` is
the transcript from which a compaction that has not been committed started.
`scenario`, chosen at the start and constant, is the agent's configuration and
what its provider, observers and host may do; `MCRunLoop` has six.

| code | actions |
|---|---|
| `drive_inner`, start and initial injection | Start, InitialDrain, Inject, Injected |
| automatic compaction | BelowThreshold, AboveThreshold, CompactionLimit, StartCompaction, CompactionFails, CompactionCancelled, CommitReplacement |
| request and stream | Request, TextDelta, StreamFails, StreamEnds, RetryOverflow |
| how a response ends | ResponseFailed, ModelFailed, ResponseCancelled, UseTools, UnexpectedCalls, NoTools |
| tool calls and breaker | Announce, EndTool, Answer, Observe, SkipCall, ToolsDone, BreakerTripped |
| turn boundary | HookFails, ShouldStop, GoOn, DrainSteering, DrainFollowUp, AdvanceTurn, LastTurn |
| settlement | SettleFailure, SettleCancellation, SettleCompactionFailure, SettleCompactionCancellation, Finish |
| host | Abort, ClearQueues, Steer, FollowUp |

Contents, usage and hook results are absent; later text deltas repeat the first;
events on which no decision depends (`context_estimate`, `model_turn_usage`,
tool updates, tool failures) are left out; the order inside a batch is any that
its mode allows, which is what `ToolBatch` is about.

### ToolBatch

One batch, sequential or parallel. A task action is one access to shared state:
a lock section, a read of the token, a poll of one future, the publication of one
event. `Callback`, `Advance` are the tools' threads; `CancelFlag` and
`CancelWake` the two steps of `cancel()`; `HostLeaves` a host that had raced the
run with the token's `cancelled()` and drops that wait. A future is the stage its tool has
reached. `woken` is cleared when a poll begins, which is the pessimistic choice:
a wake that arrives while the task awaits an observer counts as used up.
`waiters` keeps the rule of `register_waker` that a waker already in the list,
whoever put it there, is not added again. A tool of `Chatty` may call back without end: its first
`MaxUpdates` updates are followed to the log, the further ones are taken, published and
looked at as the code does, but not logged (`extra`), so that the run stays finite
and the tool does not stop for the bound's sake. `CallbackAgain` is that callback.

### SessionStore, DurableSessions, MCSessionStore

`DurableSessions` is what a user of several terminals is promised: a stored
session is one a terminal held when it saved it, replaced as a whole, and opening
it gives what was stored. `SessionStore` is the files: a save is truncation, write,
chmod and rename of a temporary file, each a step that may fail or be the
process's last; `fd` is what a process has open, which a rename takes along. The
encoding of every record and the decoding with its normalisations (stop reasons,
arguments that are not JSON, usage) are operators, line by line as a recursive function, so that
they can be reasoned about; `ContentsAssumption` says that what the runs and other programs
contribute are messages and lines of the format; `Found` decodes every file in
search of an identifier, as the code does. `Promised` is `DurableSessions`'
specification under the mapping that decodes the files. `Sent` is what a request carries, a tool
result's details, its failure and the status and guidance made of it included. The format does not
keep how a call failed: what `Promised` says of an opened session is everything else (`Kept`), and the
counterexample of `session_context.cfg` is about the rest (4.1).

### TeaApp

The loop of the terminal application: drain, reap, redraw, key, with the operation on
the executor's thread in between. `view` is folded from the events by
`ApplyEvent` as `AppState::apply_event` does; `agent` is the transcript, the
queues and the phase; `session` the files. `ViewIsTrue` looks for the wanted messages among
the rows in one pass (`ShownUpTo`); user rows and partial responses in between are allowed. Commands (`/new`, `/resume`,
`/compact`, `/clear`, `/reload-extensions`, `/quit`, ...), pickers and Ctrl-C are the
actions of a key. A response has at most one call here; `RunLoop` has the rest.

An operation may also panic at any await (`OperationPanics`): its sender is dropped, which the loop
sees as `Disconnected` (`ReapDisconnected`), apart from a result that is not there yet. That concerns
development and test builds, which unwind; the release profile aborts the process (Cargo.toml:35).
The agent stays cancelling after it, since nobody settles its run. `/resume`
restores a model that `select_model` may refuse, and then changes nothing (`ResumeRefused`).

### ProviderStream, MCProviderStream

One response. The body worker of `http.rs` and the polling task meet in a queue
with one waker; the position in the body counts half lines, so that a chunk may
end inside a record. OpenRouter decodes as lines arrive, Local keeps its events
for the end of the body, Command Code collects and retries a finite response, in a retry loop inside another. The
caller is `consume_assistant_stream`, which settles, refuses, or finds no end.

### Extensions, MCExtensions

A home directory as a tree of files and links, which the user's editor changes
between any two reads of a load; `LoadEntry` reads one extension, `Compose` builds
the hook chain and the tools. The hooks are asked through
`BeforeToolCall`, which composes the application's list with the hook of each policy.

A draft is three steps: `BeginDraft` looks at the directories of its path and makes those that miss,
`CheckLeaf` looks at the file, `WriteLeaf` is `fs::write`, which truncates, writes and may fail
between the two. The user edits in between. `Settle` is the end of a run on its own thread; `Reap` is
the event loop, later, which reloads after a run that settled; `StartRun` may come first, as a prompt
submitted in that moment does, and the earlier run is then never reaped. The looks at the two or three
directories of a draft are one step, and so are listing, reading and validating, of which only the text of
the answer depends on what comes in between.

### LuauPolicy, LuauCalls, MCLuauCalls

`LuauPolicy` evaluates the modules of a bundle: path resolution, the cache, the
import stack, the interrupt budget. Luau code is external: it may require, catch,
fail, loop and return in any order. `LuauCalls` adds the calls that wait for the
host: the tool handler and the task, each a future whose poll is a few steps, between
which the token may be cancelled, with the manifest's gate in front of the
capability.

### WorkspaceTools, CommandCapture, ToolText, JsonSchema, MCWorkspaceTools

`JsonSchema` validates arguments, `ToolText` has the text algorithms (edit,
windows, truncation, patterns, projection), `CommandCapture` the shell command with its
capture files, `WorkspaceTools` the calls of several agents over one
workspace: validation, resolution, then the body.

Every agent has a thread of its own, so a body is as many steps as it makes system calls on which others
can act: an edit reads and matches (`EditFile`), a write makes the directories (`WriteFile`), then
both open the file, which makes or empties it (`OpenFile`), and put their text (`PutText`), which
may fail; find, ls and grep walk one directory entry at a time (`WalkEntry`), and grep then
reads one file at a time (`SearchFile`). `work` holds what a body has so far. Its field
`touched` is no part of the code: it collects what others wrote or removed meanwhile, which the
properties need to say what a result is about. Patterns match bytes, as in the code (`AsBytes`).

### TerminalInput, Composer, MCTerminalInput

`Composer` is the buffer and its wrapped rows as operators; `TerminalInput` the
decoder with its 30 ms deadline and the handling of what it decodes: composer, command menu,
picker, history, editor. A character is its class (wide, mark, other), a key the
bytes it sends and the event it means.

## 4. The runs

| run | module | question | result |
|---|---|---|---|
| `own_ui` | MCAgentOwnership | The terminal application's pattern: one thread starts, aborts and resets, one drives and drops, one waits. Does the phase tell the truth (no leftovers, no work while idle, Cancelling only of a run that was asked to stop, nothing left owned), does no cancelled compaction commit, does every waiter return and every cancel settle? | holds, 144 thousand states |
| `own_any` | MCAgentOwnership | Any calls of two threads, shared handles and abandoned futures included: is the inductive invariant of the proof true, and are outcomes final? | holds, 880 thousand states |
| `loop` | MCRunLoop | Six scenarios: all outcomes of responses with two calls, two messages of the host, failing observers, streams, hooks and providers, compactions within and at their limit, each with an abort at any moment. Does the log follow the contract where nothing but the provider fails, and end with `agent_end` whatever fails; do transcript, pending calls and log agree; are calls answered, inputs injected once and in order unless cleared or summarised, refused compactions without trace, retries bounded; does the run settle? | holds, 427 thousand states |
| `tool_batch` | ToolBatch | Two calls, both modes, callbacks at any time, cancel at any access: order, completeness, no lost update, no lost wake-up; a cancelled batch ends once its tools have stopped calling back | holds, 1.19 million states |
| `session_store` | MCSessionStore | Two terminals, a fault or crash at any step of a write, files of another program: does it implement `DurableSessions`, is each session in one file and found, is a file only ever replaced as a whole? | holds, 351 thousand states |
| `tea_app` | TeaApp | Four keys and commands of every kind against an operation that ends in any way at any point: is the view true, are saves safe, does a lost prompt come back, and does quitting end, even if the operation panics? | holds, 891 thousand states |
| `provider_stream` | MCProviderStream | Bodies of every short form and longer ones, cut anywhere, for three adapters, with failures and cancellation: is what the caller keeps what the server said, is nothing held back, does it end? | holds, 415 thousand states |
| `extensions` | MCExtensions | Any of six registries, two directories, links and an edit of the user at any point, two runs of a tool call each, the second before or after the first is reaped: drafts inside but behind a link made during the draft, first denial decides, snapshots whole and, once reaped, fresh | holds, 2.18 million states |
| `luau_calls` | MCLuauCalls | Luau code in any order of requires, catches, failures and loops, then a call under every manifest, cancelled anywhere: one value per module, granted answers once and in order, an end with nothing left | holds, 485 thousand states |
| `workspace_tools` | MCWorkspaceTools | Every tool with arguments inside and outside its schema while another agent edits; two shells with leftovers of an earlier process: own captures, schemas that suffice, projections within their budget, true results, waiting that ends | holds, 644 thousand states |
| `terminal_input` | MCTerminalInput | Four keys of each of three keyboards in any chunks: every event a typed key, menus current, the draft returns, every key is decoded | holds, 242 thousand states |
| `terminal_paste` | MCTerminalInput | The same decoder when a bracketed paste may arrive in several reads | violated, 4.1 |

The table has what `PROJECT.json` lists. Five more configurations beside it show one disagreement each, by a
counterexample of TLC (4.1); they take seconds:

| configuration | module | what TLC finds false |
|---|---|---|
| `tool_poll.cfg` | ToolBatch | `OnePollOnly`: a call that calls back after a cancel is dropped on its next poll |
| `session_context.cfg` | MCSessionStore | `ContextKept`: a session that is opened is sent as it was before |
| `extensions_next.cfg` | MCExtensions | `NextRunIsFresh`: the next run starts with what the last one drafted |
| `workspace_globs.cfg` | MCWorkspaceTools | `GlobsAreOfCharacters`: a `?` takes one character |
| `workspace_total.cfg` | MCWorkspaceTools | `TotalIsMaximum`: no result is longer than the total that `validate` accepted |

### 4.1 Where code and documentation disagree

`terminal_paste`: once the start marker of a paste was taken, `escape_sequence`
calls `next_event` for the rest; when the end marker was not read yet, that
returns None and the caller goes on as if no sequence had matched. It drops the first byte or
two of the pasted text and reports them as Escape or an Alt key. A paste longer than
one read of 4096 bytes always arrives so. The passing run therefore assumes that
pastes and Alt keys are read whole.

`tool_poll`: an update taken on a cancelled run grants its call one more poll, each time
(tool_execution.rs:306; for a parallel call 224-231). A tool that ignores
cancellation and calls back in every poll is never given up, although the comment at 301-305 says it is
dropped on that one poll. `BatchSettles` therefore promises the end of a cancelled batch only when,
from some moment on, no tool calls back (`Quiet`); it asks nothing else of the tools.

`session_context`: a request says how a tool call failed, with a status and guidance made of it (run/mod.rs:1735,
tool.rs:236-277). The session format keeps that a call failed, not how: a call that was
cancelled, retryable, fatal or had invalid arguments is sent as recoverable after `/resume`
(session.rs:631), against docs/tui.md:88-90. `Promised` and its theorem `SessionsDurable` say what is kept.

`extensions_next`: a prompt submitted between the end of a run and the next reap starts a run with the old
snapshot, and replaces the receiver through which the event loop would have heard of the first
(input.rs:203-212): the reload does not happen then either, although the answer to the draft
(tea.rs:544) promises it. `SnapshotIsFresh` speaks of an idle host that has reaped its last run.

`workspace_globs`: `?` takes one byte (search.rs:61), the comment at 7-8 says one character.

`workspace_total`: the notice of a repeated error, 62 bytes, is returned without regard to the limits
(tool.rs:227), and `validate` accepts a total of 58. The model's texts are shorter and keep the order of
these lengths: the notice has seven bytes, the least total is six. `ExchangeIsSound` bounds every other result.

Others were met while modelling. The modules contain their behaviour; the
properties that hold say what holds in spite of it.

* Ownership. `RunHandle::abort` (run/mod.rs:1546) writes the agent phase after it
  released the run's lock; if the run settles in between, the agent stays
  `Cancelling` of a run that is over (the comment at 1525 says idempotent). Two
  threads that abort can do the same through the agent. A drive future dropped at an await,
  then its handle, leaves the agent `Cancelling`; a second `drive` of a shared handle
  fails the run under the first; `start_continue` loses what it drained if another
  start claims first. `own_ui` has none of these calls, `own_any` all of them.
* Run loop. `agent_end` leaves out messages of the run once a compaction shortened
  the transcript (run/mod.rs:1488 against 1476). An observer that fails at
  `agent_end` gets a second one (docs/semantics.md:152); a stream that fails mid-message leaves its
  message without `message_end` (204); a hook that fails at the boundary ends the turn
  twice (11); a cancelled run goes on draining queues (350); a token cancelled after a
  compaction's error adds an aborted message to the transcript (run/mod.rs:317), which
  `RefusedKeepsPrefix` allows for.
* Tool batch. `register_waker` (scheduler.rs:192) takes a `CancellationWait` of the same
  task for its own registration; when that wait is dropped first, `cancel()` no longer wakes
  the parked run. `Holders` in `tool_batch` has the host's wait only next to the run's own.
* Sessions. Two terminals started alike count their temporary names alike
  (session.rs:158): one can publish the other's half-written file. The run and the
  theorem assume numbers that do not meet (`NumbersApart`). After a run that failed
  mid-response, the next success saves the partial response (runtime.rs:407 against
  docs/tui.md:87), and unanswered calls that `/resume` then refuses.
* Providers. A cancellation seen by OpenRouter's stream is reported twice, so that
  the caller refuses the response (openrouter/mod.rs, `poll_next_event`; docs/architecture.md:201).
  Command Code's nested retries give up to the square of the configured
  requests (docs/provider-adapters.md:8); a stalled OpenRouter body is not retried; a
  chunk that fails to decode takes the text before it along.
* Luau. `bundle.rs` documents capabilities as sorted and deduplicated and rejects duplicates.
* Tools. Replacing "aa" in "aaa" counts one match; a trailing `$` is ignored after `^` and
  never matches after `*`; `context` of grep and the ignore files are not
  used, and a cut is not always told; the timeout of bash is not enforced; find reports its
  limit at exactly the limit; fields of an
  error's fingerprint are joined without separators; a first line longer than the byte limit reads as nothing.
  An edit writes back the whole text it read: what another agent wrote in between is lost, and a file removed
  in between is there again (edit.rs:59-104); a write that fails after the file was opened leaves it empty. A
  directory entry that is removed during a walk fails the whole call. `ResultsAreTrue` holds for files
  nobody else touched meanwhile.
* Extensions. A link that the user puts on the path of a draft between the look and the write is
  followed (tea.rs:531-540); `DraftsStayInside` speaks of links that were there at the look.
* Terminal. The Escape deadline survives an Alt key or a paste; a word move can stop inside
  a cluster; Up at the end of a full wrapped row stays on its row; an edit of a recalled prompt is lost on
  Up; a failed compaction can restore a prompt kept from an earlier submit; the files tool without a path
  lists an invalid root (docs/tui.md:138).
* `tea-protocol`'s `wait_blocking` can miss a wake-up between its check and its wait; nothing in
  the repository calls it.

### 4.2 Bounds, and why they are enough

* `AgentOwnership`: two runs, so that the second can meet every leftover of the
  first; two or three threads. The third thread of `own_ui` separates driving from
  waiting. `own_any` has one unit of work, so that a run has input to lose and a second
  turn; `own_ui` has none, which keeps its liveness in reach: its runs have one turn. Its
  invariants are theorems for any amount of work (`PhaseTruth`, section 5).
* `RunLoop`: responses before turn 2 may call tools. Two calls (`Turning`) distinguish "each"
  from "the first" and let a breaker skip one; two messages (`Queueing`) tell one-at-a-time
  draining from draining all. Two compactions and one overflow retry (`Compacting`) and one
  compaction (`Limited`) reach the limits from below and above. `Summarising` is what separates
  input that was lost from input that a summary stands for.
* `ToolBatch`: two calls, of which one races cancellation with its work and may
  lose interest in it; two updates in the log, so that one can be in the queue while another
  is in flight. The callbacks of one call have no bound; those past the second are not logged.
* `SessionStore`: two terminals, two identifiers, one fault of one terminal, an unfinished
  write that leaves no line or three; conversations of three messages, with a failed call whose arguments are
  not JSON, and two imported files. A second fault meets only what the first left, which
  a restart reads anyway.
* `TeaApp`: four keys, because the longest schedule of interest is prompt, abort, another
  command, quit; two turns, one delta, one call, two sessions, faults of the stream, of calls, of the
  compactor, of a save and of a model's selection, and a panic. An extension file that cannot be read is `Extensions`' subject.
* `ProviderStream`: all bodies of two lines over eleven kinds of lines, and eight longer ones: two
  calls whose fragments alternate, a usage a later line erases, lines after the end. Two retries
  distinguish the first, a middle and the last attempt.
* `Extensions`: two directories, four manifests, six policies of which three may be there from the start, six registries; one edit
  of the user, which is what can fall between two reads of a load or between a look and a write; two runs, so that one can
  follow the other before or after the reap, of one call each, which may draft.
* `LuauCalls`: bundles of three modules in two directories, which have cycles of length one and two; five interrupt
  checks; two capability calls (the limit) and three of a task.
* `WorkspaceTools`: texts of up to eleven characters with a two-byte and an invalid one, limits of two
  lines and five bytes, so that each limit is met first by some text; two agents with a call each, in five agendas:
  file calls against an edit or a search, walks against a write that makes a file, two
  commands, a command that removes a file against calls on it, and every argument of every tool with another type or
  missing. One file's name is a character of two bytes.
* `TerminalInput`: four keys, three columns, three keyboards chosen so that each holds what
  interacts: history and menus, editing with wide characters and marks, surfaces.

`CHECK_DEADLOCK FALSE` is set everywhere because the systems really may stop: hosts
need not call again, a settled run and a finished batch stay as they are, and a
tool may take for ever. What must not stop is stated as liveness instead.

### 4.3 Fairness and assumptions

* `AgentOwnership!FairSpec`: a thread inside a call takes its next step, and a
  drive future is polled while it can move. Threads are scheduled by the
  operating system and futures by the host's executor. No fairness is assumed of the decision to make a call.
* `RunLoop!FairSpec`: weak fairness of the loop itself; provider, compactor and
  tools answer, by their timeouts or by cancellation. None of the host.
* `ToolBatch!FairSpec`: the task is polled once woken (a parked task is enabled only when `woken`
  holds), and `cancel()` runs to its end. None of the tools: a tool may never
  settle, which is the case cancellation is for. `BatchSettles` has the premise that callbacks cease.
* `TeaApp!FairSpec`: the operation goes on, and the loop goes round every twenty milliseconds; no
  key need be pressed.
* `ProviderStream!FairSpec`: every read of the worker has a deadline, the executor polls a task that was
  woken, a blocking retry loop runs on. None of cancellation.
* `LuauCalls!FairSpec`: Luau code runs in the thread that called it; a future that was woken is
  polled. A host future need not complete.
* `WorkspaceTools!FairSpec`: a waiting thread goes on looking at its shell. None of the shell.
* `TerminalInput!FairSpec`: bytes that were sent arrive, time passes, the loop polls. The user types the next key only
  after a bare Escape was decoded; the bytes of one key arrive within 30 ms; the
  editor reads what was typed while it is open.

## 5. Proofs

`AgentOwnershipProofs`: for any set of threads, any calls and any bounds,

* `OwnerInvHolds`: `Spec => []OwnerInv`. "One owner" is not inductive: that no
  second run owns the agent when a claim passes depends on who may still settle
  the first. `OwnerInv` adds that runs named by handles, slot and calls are
  published (`Published`), that a claim in progress has an identifier no one else
  has (`Claims`), and that a settlement in progress is that of a terminal run and
  its only one (`Settlers`). The proof goes by kinds of steps: those that touch
  nothing of it (`QuietStep`), that make a run terminal (`TerminateStep`), that
  make the agent idle (`IdleStep`), take an identifier (`FreshStep`), move a claim
  (`ClaimMoveStep`), publish it (`PublishStep`) and begin a turn
  (`StartTurnStep`).
* `SingleOwnership`, `TypeCorrect`, `TerminalFinality` follow from it.

The assumptions are `ThreadAssumption` and `BoundAssumption`: `Calls` gives each
thread known calls, the bounds are naturals.

Its second part, for the same, under the assumption `Disciplined` of `AgentOwnership`,

* `PhaseInvHolds`, and from it `PhaseTruth` and `CommitExcludesCancel`, the invariants
  of `own_ui`. `PhaseInv` adds to `OwnerInv` what the phase relies on: a run is
  Running while its loop or compactor works (`WorkIsRunning`), whoever reports a
  cancellation follows a cancelled token (`TokenIsSet`), a busy phase names its owner
  (`PhaseIsOwned`), the slot and an abort under way name the owner or a settled run
  (`SlotIsCurrent`), a dropped handle leaves a run that is over or about to be
  cancelled (`HandlesEndRuns`), and a commit leads to an outcome other than Cancelled
  (`CommitsAreKept`). The proof first says what any step of a thread can do to each of
  these pieces (`RunsMove`, `PhaseMoves`, `SlotMoves`, ...), then combines them.

`Disciplined` says that one thread starts and aborts, one drives and drops, and
nobody aborts through a handle or abandons a drive future. `MCAgentOwnership` has an
ASSUME that the application's calls satisfy it. Without it the theorems are
false: 4.1 has the calls that break the phase.

`RunLoopProofs`: for any scenarios and bounds,

* `RunInvHolds`, and from it `RunTypes`, `RunEnds` (`agent_end` is last, whatever
  fails), `CompactionSafety` and `CallsAnswered`. Each names a state that is the
  result of several steps. `RunInv` says what holds in between: a drive that is about to
  settle has its `agent_end` behind it (`Closes`); the transcript equals the
  compaction's snapshot until the run settles (`Keeps`); every overflow published
  since the last turn is accounted for by the retry flag (`Bounds`); and where the loop
  rests all calls are answered, inside a batch the first ones (`Asks`).

Its second part, for the same:

* `InputInvHolds`, and from it `InputDelivered`, the property `InputOnceInOrder`. It counts
  places; `InputInv` replaces the count by an order, in which what is injected comes before what
  is drained, and that before what waits in the same queue (`InLine`), by sets of
  numbers that account for all offers (`Accounted`), and by where a drained batch may still be
  held, so that no drain overwrites one (`OneDrain`). Steps on the transcript keep what was
  injected, in order, or put a summary in front of the rest (`Thin`). The claim about
  lost input has the case of a summary because of this proof: without it the property is
  false as soon as a host enqueues and a compaction commits.

Its third part, what the run publishes, for the same:

* `ContractInvHolds`, and from it `ToolsAccounted` and `RunKeepsContract`: the
  specification `EventContract`, over the log of a run in which nothing but the
  provider fails, is implemented; each step publishes one event the contract allows
  or changes nothing of the log. That an event may be published depends on the log
  only, that the loop makes it depends on `pc` and the locals; `ContractInv` relates
  the two: turns and their ends are those of `turn` and `pc` (`TurnsAgree`), messages
  are published under fresh identifiers and only the streamed one is open
  (`MessagesAgree`), running calls are those of the batch (`ToolsAgree`), and all of
  what is queued for publication may follow the log in its order (`OutFollows`).
* `LogCompleteness`: each message of the transcript ended once in the log and in
  order. Its invariant `StoryInv` says that ended messages rise, that every message of
  the run is one of them, and that both also hold of the request a failed stream falls back to.

`ToolBatchProofs`: for any number of calls, tools and callbacks,

* `WakeInvHolds`: `Spec => []WakeInv`, the protocol behind "no wakeup is lost":
  from the registration on, the task's waker is with the queue; between the
  registration with the token and the end of the poll the run's own waiter is in the token
  unless it is cancelled; an update the poll has not seen has called the waker.
  It is needed because `AbortWakes` and `UpdateWakes` speak of the parked task
  only, and what makes them true happens several steps before.
* `CancelWakesRun` and `CallbackWakesRun` are those two.

They assume `BatchAssumption` and `RunFirst`: a host's wait is in the token only
when the run's own waiter is (4.1).

Its second part, for any number of calls, tools, callbacks and cancellations:

* `BatchInvHolds` and `BatchWhole`: every call starts, updates, ends and is answered
  once and in order, results come in source order, and no update of an executed call is
  lost. The events published say too little to be inductive, and so does the
  place of the task. `BatchInv` therefore keeps a ledger: what was said, published or
  about to be (`Said`), holds the start of a call iff the task has announced it, its end iff
  it is announced and no longer held by the task or its lists (`Held`), its result iff
  the task is past its answer; and updates said and updates queued make those accepted
  (`Ledger`). `Plan` describes the lists, disjoint and within the calls, at each
  place; `Flow` that no update is accepted or queued of a call whose end was said, but
  after a cancellation; `Begun` which calls have begun; `InOrder` is the claim about
  `Said`. Steps fall into those that say nothing (`Silent`), one event (`Speak`), the
  queued updates (`Relay`) or accept one (`Listen`); one lemma each shows what they
  do to the ledger, and one lemma per action that it is of its kind.

The only assumption is `BatchAssumption`: the constants have their types.

`SessionStoreProofs`: for any terminals, sessions, faults, crashes and contents,

* `TemporariesHold`: what a terminal has open is its own temporary file, nobody else's
  name, and what waits to be renamed holds all the lines of the save (`OwnNames`,
  `OpenFiles`).
* `FilesReplacedWhole`: therefore a file that can be read changes only to all the lines of one
  save, and no step, crash or failure removes it.

* `SessionsFindable`: a session a picker shows is found when it is chosen, and its identifier
  names one file. The invariant is about the whole directory (`Hold`): a file carries the
  identifier it is named after, Tea's own file can be read and is there only when no other
  program's is (`FilesHold`), and a save in progress goes to the file the session was found in
  (`JobsHold`), so that publishing it never gives an identifier a second readable file.
* `SessionsDurable`: the specification `DurableSessions`, over the decoded files, is
  implemented. What makes it more than bookkeeping is the round trip: decoding what was encoded gives
  the conversation back as a provider would be sent it, apart from how a call failed (`RoundTrip`), although stop
  reasons and arguments are normalised on the way (`SentAgain`). The lemmas before it compute the recursive
  decoding, by induction over the lines.

They assume `BoundsAssumption`, `ContentsAssumption` and `NumbersApart` (4.1); without the last
they are false.

`ExtensionsProofs`: for any home, registries, manifests, policies, edits and runs,

* `ExtensionInvHolds`, and from it `SnapshotFreshness`, `RunsGuarded` and
  `SnapshotsReplacedWhole`, the three properties of `extensions`. That the snapshot in
  force is that of the disk is decided entry by entry while the user may edit what was
  read already; `ExtensionInv` adds that, unless an edit has come in since, what a load
  listed is the registry and each entry read is what its files say (`LoadIsOn`), that the
  run holds the snapshot in force and its last answer is what the hooks say (`RunIsOn`), that a draft
  under way has no link on its path unless the user has edited since it began (`DraftIsOn`), and
  `Types`. `SnapshotFreshness` has the premise that the last run was reaped: a run that another one
  followed first never is (4.1). `RunsGuarded` lets a draft be written behind a link only when the user made it
  after the look. The composition is a fold over the entries; the lemmas before it
  say what `FoldRight` and `FlattenSeq` compute (the first denial, all the
  tools in order). They go by the least counterexample (`LeastNat`, from the library's
  `WFMin`), since the theorems on induction take an operator, which the provers cannot
  instantiate.

The only assumption is `ExtensionAssumption`: the constants have their types, broken and
absent files are no texts, and the base tools have no reserved name.

`LuauCallsProofs`: for any bundle, Luau code, requests, manifests and limits,

* `ModulesConsistent`: the import stack is the stack of the modules being evaluated and a
  module has one value for everybody. `MachineOK` adds that the stack has each module once and none
  with a value (`StackOfImports`), that everything a `require` returned is still in the cache
  (`GivenIsKept`), and what is evaluated before and after loading (`LoadedOnce`): with it a failure
  that Luau catches removes from the stack what it added.
* `AnswersGranted`: only what the manifest grants is performed, a handler asks for what it
  declared, answers arrive once and in order. `CallOK` follows one request from the coroutine to
  the host future and back: at most one is unanswered, and the future and the answer are its own
  (`OwnRequest`, `Conversing`, `Performing`, `Limited`).
* `SettledOwnsNothing`: a settled call has no host future, so nothing is performed afterwards.

They assume `PolicyAssumption` and `CallsAssumption`: limits are naturals and the adapters are
the two of the code.

`TeaAppProofs`: for any prompts, turns, deltas, calls, keys, sessions and faults,

* `ViewTrue`: with the agent idle and its events drained, what counts is on the screen and
  nothing streams. The property speaks of a moment when nothing is left to do, the
  invariant `Inv` of every moment before it. `Shape`: the only row that streams or runs is the last
  one; the first waiting event continues it; the operation continues the last event; what a
  start made active is closed by a later event, or the operation that will close it still
  works. `Shown`: there is an order-preserving placement of the messages that count into the rows of
  the view followed by the rows the waiting events will give, so that delivering an event moves
  the border between the two and appending a message extends the placement. `Streams` and
  `Control` say where the operation and the loop are. That the pass of `HeldIsShown` reaches
  every wanted message follows from a placement, by induction over the rows.
* `SavesSafe`: a save writes the conversation of an idle agent, whole, under its own
  identifier, after success or for `/new`, and `/new` leaves none that is not on disk.
* `PromptBack`: the prompt of a run that failed or was cancelled is in the composer after it was
  reaped, or a draft is, which stays.

The only assumption is `AppAssumption`: bounds are naturals, there is a session, and the model
restored at the start is one of the models or none.

`TerminalInputProofs`: for any keys, commands, models, prompts, editor, width and number of keys,

* `MenusCurrent`: what is false in between makes it worth proving. A key changes the text first
  and looks at the menu afterwards, Submit leaves both a text and a menu of an earlier one,
  and a failed run puts its prompt under whatever is shown. So the lemmas are about two kinds of
  prompts: those whose menu belongs to the text (`Whole`), and those whose menu may be stale but has a
  row (`Half`), from which `Refreshed`, a surface or a closed menu lead back. A failed run may only
  touch an empty text, which matches no command, so that no menu is open there.
* `DraftReturns`: each operation keeps the place in the history (`Stays`), leaves it with Enter
  (`Leaves`), or moves in it (`Moves`, which is the property); away from the newest prompt there is
  always a draft (`HistoryFits`).
* `KeysInOrder`: `EventsAreKeys`, for every keyboard that sends what `AreSent` lists: control and
  other bytes, characters of two bytes, Escape, the sequences, and Alt keys and pastes that are read
  at once. The last condition is the code's: `terminal_paste` shows what becomes of a paste
  that is not, and an Alt key does not clear the deadline its Escape set, so that in pieces it could
  end the wait of a later key early. `MCTerminalInput` evaluates `AreSent` for the three keyboards of the
  run (`KeyboardAssumption`).
  The invariant `KeysInv` says where each waiting key begins and ends in the bytes that were read or
  are on their way (`Divides`), that only the last key may have arrived in part (`LastFits`), and
  that a deadline belongs to an Escape or a sequence which, once it is past, has arrived
  (`DeadlineFits`): without the last, a slow key would be taken for an Escape. The lemmas named
  `…Decodes` say what the decoder makes of each kind of key: no sequence begins another
  (`SequencesApart`), and the first end mark of a paste is its own, as its text has no escape.

They assume `TerminalInputAssumption`: the commands, the models and the histories are lists.

Model-checked only:

* every liveness property (`WaiterReturns`, `CancelSettles`, `RunSettles`, `BatchSettles`,
  `QuitEnds`, `StreamEnds`, `CallsEnd`, `CommandSettles` and the like), outside the prover's reach;
* `AnswerIsTrue` and `NothingHeldBack` of `ProviderStream`, not proved yet: they compare two
  folds over the lines of a body, of which each adapter has its own, with a reference;
* `CapturesAreOwn`, `ExchangeIsSound` and `ResultsAreTrue` of `WorkspaceTools`, which reaches the
  RECURSIVE operators of `JsonSchema` (schemas are trees), which the prover does not support.

## 6. Mutants

Each property of each passing run has an operator in the module of the definition
it changes, named after that definition with a suffix (`PollReady_LeftOpen`,
`Section_NoSeparator`): a dropped guard, a missing reset, a swapped order. With
the definition replaced by it TLC finds the property violated.

## 7. Not modelled, and why

* Ownership inside `RunLoop` and the turn loop inside `AgentOwnership`: each is
  abstracted in the other, and their composition would multiply the states without
  new interactions beyond the phase checks, which both have. `TeaApp` composes
  what the application can see of both.
* The list of observers and its changes during delivery; the capacity of bounded queues, a refusal
  that changes nothing; `Scheduler` and `CompletionSet`, which only tests use.
* `tea-protocol` apart from the JSON values: wire types, validators and a collector that nothing in the
  agent or the application runs; `tea-trace` and the adapter to it: records that feed nothing
  back.
* Usage sums and decimal costs, measurement, payload building, configuration, the model
  catalogue, argument parsing of the binaries: pure input or output.
* Rendering: output, apart from the rows that cursor movement uses.
* Symbolic links inside a workspace; regular expressions are those of the code's own matcher; JSON text is the value it
  parses to.
* `evals/` and the fixture runner: separate programs around the core.
