--------------------------- MODULE ProviderStream ---------------------------
(***************************************************************************)
(* One response of a model provider of tea-core (provider/http.rs,         *)
(* retry.rs, openrouter, local, commandcode): from the request to the      *)
(* events that AgentRun::consume_assistant_stream takes.                   *)
(*                                                                         *)
(* OpenRouter and Local read the body on a thread of their own (http.rs),  *)
(* which queues events under a mutex and wakes the task that waits; the    *)
(* caller's polls decode the chunks.  Command Code blocks the caller: it   *)
(* collects the whole body, retries, and gives a finite stream.            *)
(*                                                                         *)
(* A body is a sequence of lines.  The transport may cut it anywhere: a    *)
(* position counts half lines, so that line i is whole, its line feed      *)
(* included, at position 2i.                                               *)
(***************************************************************************)
EXTENDS Naturals, FiniteSets, SequencesExt

CONSTANTS
    Adapters,   \* subset of {"openrouter", "local", "command-code"}
    Bodies,     \* bodies a server may send: [lines, terminated, accepted]
    Replies,    \* bodies the Command Code gateway may send: sequences of lines
    MaxRetries, \* RetryPolicy::max_retries
    MayCancel   \* BOOLEAN: whether the run may be cancelled

ASSUME ProviderAssumption ==
    /\ Adapters \subseteq {"openrouter", "local", "command-code"}
    /\ MaxRetries \in Nat
    /\ MayCancel \in BOOLEAN
    /\ Bodies # {}

VARIABLES
    request,    \* the adapter, whether it serves the model, the server's body
    cancelled,  \* the run's cancellation token
    worker,     \* the thread that reads the body: its step, the position it read to
    http,       \* StreamState.events: what it queued
    parked,     \* StreamState.waker holds the caller's waker
    stream,     \* the adapter's stream: response, decoder, pending events, ...
    attempt,    \* Command Code's nested retry loops
    got,        \* events the caller was given
    caller,     \* consume_assistant_stream
    turns       \* turns the adapter has accounted for

vars == <<request, cancelled, worker, http, parked, stream, attempt, got, caller, turns>>

Lines == request.body.lines
Size == 2 * Len(Lines)
Incremental == request.adapter # "command-code"

-----------------------------------------------------------------------------
(* Events of a stream.  A text delta and an argument fragment are named by *)
(* the line they came from.                                                *)

Text(i) == [type |-> "text", at |-> i]
ToolCall(call) == [type |-> "call", parts |-> call.parts]
Usage(reported) == [type |-> "usage", reported |-> reported]
End(reason) == [type |-> "end", reason |-> reason]
Error == [type |-> "error"]
ContextOverflow == [type |-> "overflow"]
Aborted == [type |-> "aborted"]

Terminal(e) == e.type \in {"end", "error", "overflow", "aborted"}
Settled(events) == \E k \in DOMAIN events : Terminal(events[k])

-----------------------------------------------------------------------------
(* The SSE decoders (openrouter/response.rs, local/response.rs).           *)

Comment == [kind |-> "comment"]
Garbage == [kind |-> "garbage"]
Indices == {0, 1}
NoCall == [named |-> FALSE, parts |-> <<>>]

NewDecoder ==
    [next |-> 1, calls |-> [i \in Indices |-> NoCall], finish |-> "none",
     reported |-> FALSE, data |-> FALSE, done |-> FALSE]
NoDecoder == [next |-> 0]

\* A later fragment replaces the name and adds to the arguments.
TakeFragment(d, line, i) ==
    [d EXCEPT !.calls[line.index] =
        [named |-> line.named \/ @.named, parts |-> Append(@.parts, i)]]

\* A usage of null erases an earlier one in the OpenRouter decoder only.
TakeUsage(d, line) ==
    IF line.reported \/ request.adapter = "openrouter"
    THEN [d EXCEPT !.reported = line.reported] ELSE d

(* process_line, for a line that is the i-th of the body.                  *)
ProcessLine(s, line, i) ==
    LET d == IF line.kind \in {"comment", "done"} THEN s.decoder
             ELSE [s.decoder EXCEPT !.data = TRUE]
        Keep(decoder) == [s EXCEPT !.decoder = decoder]
    IN CASE line.kind = "comment" -> s
         [] line.kind = "done" -> Keep([d EXCEPT !.done = TRUE])
         [] line.kind \in {"garbage", "error"} ->
              [Keep(d) EXCEPT !.failure = "error"]
         [] line.kind = "overflow" ->
              [Keep(d) EXCEPT !.failure =
                   IF request.adapter = "openrouter" THEN "overflow" ELSE "error"]
         [] line.kind = "text" -> [Keep(d) EXCEPT !.texts = Append(@, Text(i))]
         [] line.kind = "finish" -> Keep([d EXCEPT !.finish = line.reason])
         [] line.kind = "usage" -> Keep(TakeUsage(d, line))
         [] line.kind = "fragment" -> Keep(TakeFragment(d, line, i))

\* Lines that are whole, line feed included, at a position.
Whole(position) ==
    IF position = Size /\ Size > 0 /\ ~request.body.terminated
    THEN Len(Lines) - 1 ELSE position \div 2

(* push: the whole lines of what has arrived, up to the first that fails.  *)
Push(decoder, position) ==
    FoldLeft(LAMBDA s, i : IF s.failure # "none" THEN s ELSE ProcessLine(s, Lines[i], i),
             [decoder |-> [decoder EXCEPT !.next = Whole(position) + 1],
              texts |-> <<>>, failure |-> "none"],
             [k \in 1..(Whole(position) + 1 - decoder.next) |-> decoder.next + k - 1])

\* Mutant: a last line without a line feed is dropped.
Buffered_Dropped(position) == {Comment}

(* What the decoder still holds when the body ends: nothing, the last line *)
(* without its line feed, or a part of a line.  A part is ignored when it  *)
(* is a comment or was cut before the end of "data:", and else is not JSON.*)
Buffered(position) ==
    LET i == Whole(position) + 1
    IN IF position <= 2 * (i - 1) THEN {Comment}
       ELSE IF position = 2 * i \/ Lines[i].kind = "comment" THEN {Lines[i]}
       ELSE {Comment, Garbage}

Calls(d) == SelectSeq(<<d.calls[0], d.calls[1]>>, LAMBDA c : c.parts # <<>>)

StopReason(finish, calls) ==
    IF finish = "length" THEN "length"
    ELSE IF calls # <<>> THEN "tool_use" ELSE "stop"

(* finish: the events that end the response, or the failure.               *)
Finish(decoder, line) ==
    LET s == ProcessLine([decoder |-> decoder, texts |-> <<>>, failure |-> "none"],
                         line, decoder.next)
        d == s.decoder
        calls == Calls(d)
        usage == IF d.reported \/ request.adapter = "local"
                 THEN <<Usage(d.reported)>> ELSE <<>>
    IN IF s.failure # "none" THEN [failure |-> s.failure]
       ELSE IF ~d.data \/ (~d.done /\ d.finish = "none")
               \/ \E k \in DOMAIN calls : ~calls[k].named
       THEN [failure |-> "error"]
       ELSE [failure |-> "none",
             events |-> s.texts \o [k \in DOMAIN calls |-> ToolCall(calls[k])]
                          \o usage \o <<End(StopReason(d.finish, calls))>>]

-----------------------------------------------------------------------------
(* The worker thread of http::stream.                                      *)

\* Mutant: only an event that adds data wakes the caller.
Queue_SilentEnd(event) ==
    /\ http' = Append(http, event)
    /\ parked' = (parked /\ event.type \in {"end", "failure"})

Queue(event) ==
    /\ http' = Append(http, event)
    /\ parked' = FALSE

WorkerKeeps == UNCHANGED <<request, cancelled, stream, attempt, got, caller, turns>>

WorkerEnds(event) ==
    /\ Queue(event)
    /\ worker' = [worker EXCEPT !.at = "done"]
    /\ WorkerKeeps

Cancellation == [type |-> "failure", cancelled |-> TRUE]
Transport == [type |-> "failure", cancelled |-> FALSE]

\* The token is read before the request and before every read.
StopWorker ==
    /\ worker.at \in {"start", "check"}
    /\ cancelled
    /\ WorkerEnds(Cancellation)

StartWorker ==
    /\ worker.at = "start"
    /\ ~cancelled
    /\ worker' = [worker EXCEPT !.at = "open"]
    /\ UNCHANGED <<http, parked>>
    /\ WorkerKeeps

Open ==
    /\ worker.at = "open"
    /\ worker' = [worker EXCEPT !.at = "check"]
    /\ Queue([type |-> "response"])
    /\ WorkerKeeps

CheckWorker ==
    /\ worker.at = "check"
    /\ ~cancelled
    /\ worker' = [worker EXCEPT !.at = "read"]
    /\ UNCHANGED <<http, parked>>
    /\ WorkerKeeps

\* A read returns any part of what is left.
ReadChunk ==
    /\ worker.at = "read"
    /\ \E to \in (worker.read + 1)..Size :
         /\ worker' = [at |-> "check", read |-> to]
         /\ Queue([type |-> "chunk", to |-> to])
    /\ WorkerKeeps

\* The body ends, wherever it was cut.
ReadEnd ==
    /\ worker.at = "read"
    /\ WorkerEnds([type |-> "end"])

\* The request or a read fails or times out.
Fail ==
    /\ worker.at \in {"open", "read"}
    /\ WorkerEnds(Transport)

Worker == StopWorker \/ StartWorker \/ Open \/ CheckWorker \/ ReadChunk \/ ReadEnd \/ Fail

-----------------------------------------------------------------------------
(* OpenRouterEventStream and LocalEventStream, polled by the caller.       *)

NewStream == [response |-> FALSE, decoder |-> NoDecoder, pending |-> <<>>,
              opened |-> FALSE, errorBody |-> 0]

Closed(s) == [s EXCEPT !.response = FALSE, !.decoder = NoDecoder]
Pending(s, events) == [s EXCEPT !.pending = @ \o events]

(* response_failure and transport_failure.  OpenRouter recognises a body   *)
(* that is nothing but an overflow error.                                  *)
OverflowBody(s) ==
    /\ request.adapter = "openrouter"
    /\ Len(Lines) = 1 /\ Lines[1].kind = "overflow" /\ s.errorBody = Size
Failed(s, failure) ==
    Pending(Closed(s), <<IF failure = "overflow" \/ OverflowBody(s)
                         THEN ContextOverflow ELSE Error>>)

\* validate_model: the request names the model the adapter is configured for.
Serves == request.valid

\* start: a stream that never asks the server, or a request and a decoder.
Start ==
    /\ caller = "start"
    /\ Incremental
    /\ caller' = "consume"
    /\ IF cancelled \/ ~Serves
       THEN /\ stream' = Pending(NewStream, <<IF cancelled THEN End("cancelled") ELSE Error>>)
            /\ UNCHANGED worker
       ELSE /\ stream' = [NewStream EXCEPT !.response = TRUE, !.decoder = NewDecoder]
            /\ worker' = [worker EXCEPT !.at = "start"]
    /\ UNCHANGED <<request, cancelled, http, parked, attempt, got, turns>>

(* The caller is given an event.  One that follows a terminal event makes  *)
(* it refuse the whole response.                                           *)
Give(event) ==
    IF Settled(got)
    THEN caller' = "refused" /\ UNCHANGED got
    ELSE got' = Append(got, event) /\ UNCHANGED caller

Polling == caller = "consume" /\ ~parked

TakePending ==
    /\ Polling
    /\ stream.pending # <<>>
    /\ stream' = [stream EXCEPT !.pending = Tail(@)]
    /\ Give(Head(stream.pending))
    /\ UNCHANGED <<request, cancelled, worker, http, parked, attempt, turns>>

PollCancelled ==
    /\ Polling /\ Incremental
    /\ stream.pending = <<>>
    /\ cancelled
    /\ stream' = Closed(stream)
    /\ Give(End("cancelled"))
    /\ UNCHANGED <<request, cancelled, worker, http, parked, attempt, turns>>

\* Ok(None): the caller keeps the response if it has a terminal event.
PollClosed ==
    /\ Polling
    /\ stream.pending = <<>>
    /\ ~stream.response
    /\ Incremental => ~cancelled
    /\ caller' = IF Settled(got) THEN "settled" ELSE "unfinished"
    /\ UNCHANGED <<request, cancelled, worker, http, parked, stream, attempt, got, turns>>

Polled ==
    /\ Polling
    /\ stream.pending = <<>>
    /\ stream.response
    /\ ~cancelled

\* Nothing is queued: the waker is stored under the same lock.
Park ==
    /\ Polled
    /\ http = <<>>
    /\ parked' = TRUE
    /\ UNCHANGED <<request, cancelled, worker, http, stream, attempt, got, caller, turns>>

Pop(type) ==
    /\ Polled
    /\ http # <<>>
    /\ Head(http).type = type
    /\ http' = Tail(http)
    /\ UNCHANGED <<request, cancelled, worker, parked, attempt, got, caller>>

PopResponse ==
    /\ Pop("response")
    /\ stream' = [stream EXCEPT !.opened = TRUE]
    /\ UNCHANGED turns

PopChunk ==
    /\ Pop("chunk")
    /\ LET to == Head(http).to
           pushed == Push(stream.decoder, to)
       IN stream' =
            IF ~request.body.accepted THEN [stream EXCEPT !.errorBody = to]
            ELSE IF pushed.failure # "none" THEN Failed(stream, pushed.failure)
            ELSE Pending([stream EXCEPT !.decoder = pushed.decoder], pushed.texts)
    /\ UNCHANGED turns

(* finish_sse and finish_response.  The OpenRouter adapter accounts for a  *)
(* turn whose usage was reported.                                          *)
PopEnd ==
    /\ Pop("end")
    /\ IF ~request.body.accepted
       THEN stream' = Failed(stream, "error") /\ UNCHANGED turns
       ELSE \E line \in Buffered(worker.read) :
              LET finished == Finish(stream.decoder, line)
              IN IF finished.failure # "none"
                 THEN stream' = Failed(stream, finished.failure) /\ UNCHANGED turns
                 ELSE /\ stream' = Pending(Closed(stream), finished.events)
                      /\ turns' = IF request.adapter = "openrouter"
                                     /\ \E e \in Range(finished.events) :
                                          e.type = "usage" /\ e.reported
                                  THEN turns + 1 ELSE turns

\* Mutant: a failure of the transport is not reported.
PopFailure_Ignored ==
    /\ Pop("failure")
    /\ UNCHANGED <<stream, turns>>

\* A failure that arrives when the token is set is a cancellation.
PopFailure ==
    /\ Pop("failure")
    /\ stream' = IF Head(http).cancelled
                 THEN Pending(Closed(stream), <<End("cancelled")>>)
                 ELSE Pending(Closed(stream), <<Error>>)
    /\ UNCHANGED turns

\* The task may be polled without having been woken.
Repoll ==
    /\ caller = "consume" /\ parked
    /\ parked' = FALSE
    /\ UNCHANGED <<request, cancelled, worker, http, stream, attempt, got, caller, turns>>

Poll == TakePending \/ PollCancelled \/ PollClosed \/ Park
          \/ PopResponse \/ PopChunk \/ PopEnd \/ PopFailure

-----------------------------------------------------------------------------
(* Command Code (commandcode/mod.rs, response.rs).                         *)

(* parse_ndjson_response.  An envelope without a type is accepted anywhere,*)
(* other lines only before the terminal one.  failure is "retry" for the   *)
(* messages is_retryable_response_error knows and "fail" for others.       *)
ParseLine(p, line, i) ==
    LET Add(e) == [p EXCEPT !.events = Append(@, e), !.terminal = Terminal(e)]
    IN CASE line.kind = "garbage" -> [p EXCEPT !.failure = "retry"]
         [] line.kind = "envelope" ->
              [Add(Error) EXCEPT !.transient = line.transient]
         [] p.terminal /\ line.kind \notin {"garbage", "envelope"} ->
              IF line.kind = "metadata" THEN p ELSE [p EXCEPT !.failure = "retry"]
         [] ~p.terminal /\ line.kind = "text" -> Add(Text(i))
         [] ~p.terminal /\ line.kind = "call" -> Add(ToolCall([parts |-> <<i>>]))
         [] ~p.terminal /\ line.kind = "finish" ->
              [Add(End(line.reason)) EXCEPT !.reported = line.reported]
         [] ~p.terminal /\ line.kind = "error" ->
              [Add(Error) EXCEPT !.transient = line.transient]
         [] ~p.terminal /\ line.kind = "abort" -> Add(Aborted)
         [] ~p.terminal /\ line.kind = "malformed" -> [p EXCEPT !.failure = "fail"]
         [] ~p.terminal /\ line.kind \in {"metadata", "reasoning"} -> p

NoAnswer == [events |-> <<>>, terminal |-> FALSE, reported |-> FALSE,
             transient |-> FALSE, failure |-> "none"]

(* A reply that is not UTF-8 is not retried: the message that              *)
(* is_retryable_response_error lists for it is not the one that is given.  *)
Parse(reply) ==
    LET p == FoldLeft(LAMBDA s, i : IF s.failure # "none" THEN s
                                    ELSE ParseLine(s, reply[i], i),
                      NoAnswer, [k \in DOMAIN reply |-> k])
    IN IF \E k \in DOMAIN reply : reply[k].kind = "foreign"
       THEN [NoAnswer EXCEPT !.failure = "fail"]
       ELSE IF p.failure = "none" /\ ~p.terminal THEN [p EXCEPT !.failure = "retry"]
       ELSE p

\* The usage goes before the last event.
WithUsage(p) ==
    IF p.reported THEN Front(p.events) \o <<Usage(TRUE), Last(p.events)>> ELSE p.events

NoAttempt == [at |-> "none", sent |-> 0, inner |-> 0, outer |-> 0, reply |-> <<>>]

AttemptKeeps == UNCHANGED <<request, cancelled, worker, http, parked, got>>
Blocking == AttemptKeeps /\ UNCHANGED <<stream, caller, turns>>

Answer(events) ==
    /\ stream' = Pending(stream, events)
    /\ caller' = "consume"

\* response_stream and complete, up to the first request.
StartFinite ==
    /\ caller = "start"
    /\ ~Incremental
    /\ attempt.at = "none"
    /\ IF cancelled
       THEN /\ Answer(<<End("cancelled")>>)
            /\ UNCHANGED attempt
       ELSE /\ attempt' = [attempt EXCEPT !.at = IF Serves THEN "attempt" ELSE "failed"]
            /\ UNCHANGED <<stream, caller>>
    /\ UNCHANGED turns
    /\ AttemptKeeps

\* retry_with_backoff: the token is read before every attempt.
Attempt ==
    /\ attempt.at = "attempt"
    /\ attempt' = IF cancelled THEN [attempt EXCEPT !.at = "failed"]
                  ELSE [attempt EXCEPT !.at = "sending", !.sent = @ + 1]
    /\ Blocking

SendSucceeds ==
    /\ attempt.at = "sending"
    /\ \E reply \in Replies :
         attempt' = [attempt EXCEPT !.at = "parse", !.reply = reply]
    /\ Blocking

\* A failure of the transport is transient unless the token is set.
SendFails ==
    /\ attempt.at = "sending"
    /\ attempt' = IF cancelled \/ attempt.inner >= MaxRetries
                  THEN [attempt EXCEPT !.at = "failed"]
                  ELSE [attempt EXCEPT !.at = "backoff", !.inner = @ + 1]
    /\ Blocking

(* wait_with_cancellation, in both loops.                                  *)
Backoff ==
    /\ attempt.at = "backoff"
    /\ attempt' = [attempt EXCEPT !.at = IF cancelled THEN "failed" ELSE "attempt"]
    /\ Blocking

(* complete: a reply that cannot be parsed or that reports a transient     *)
(* error is asked for again, with a new run of the inner loop.             *)
Again(p) == p.failure = "retry" \/ (p.failure = "none" /\ p.transient)

ParseRetries ==
    /\ attempt.at = "parse"
    /\ Again(Parse(attempt.reply))
    /\ attempt.outer < MaxRetries
    /\ attempt' = [attempt EXCEPT !.at = "backoff", !.outer = @ + 1, !.inner = 0]
    /\ Blocking

ParseFails ==
    /\ attempt.at = "parse"
    /\ Parse(attempt.reply).failure # "none"
    /\ ~Again(Parse(attempt.reply)) \/ attempt.outer >= MaxRetries
    /\ attempt' = [attempt EXCEPT !.at = "failed"]
    /\ Blocking

ParseSucceeds ==
    /\ attempt.at = "parse"
    /\ LET p == Parse(attempt.reply)
       IN /\ p.failure = "none"
          /\ ~Again(p) \/ attempt.outer >= MaxRetries
          /\ Answer(WithUsage(p))
          /\ turns' = IF p.reported THEN turns + 1 ELSE turns
    /\ attempt' = [attempt EXCEPT !.at = "done"]
    /\ AttemptKeeps

AnswerFailure ==
    /\ attempt.at = "failed"
    /\ Answer(<<IF cancelled THEN End("cancelled") ELSE Error>>)
    /\ attempt' = [attempt EXCEPT !.at = "done"]
    /\ UNCHANGED turns
    /\ AttemptKeeps

Finite == StartFinite \/ Attempt \/ SendSucceeds \/ SendFails \/ Backoff
            \/ ParseRetries \/ ParseFails \/ ParseSucceeds \/ AnswerFailure

-----------------------------------------------------------------------------
Cancel ==
    /\ MayCancel
    /\ ~cancelled
    /\ caller \in {"start", "consume"}
    /\ cancelled' = TRUE
    /\ UNCHANGED <<request, worker, http, parked, stream, attempt, got, caller, turns>>

NoBody == CHOOSE body \in Bodies : TRUE

Init ==
    /\ request \in [adapter : Adapters, valid : BOOLEAN, body : Bodies]
    /\ request.adapter = "command-code" \/ ~request.valid => request.body = NoBody
    /\ cancelled = FALSE
    /\ worker = [at |-> "none", read |-> 0]
    /\ http = <<>>
    /\ parked = FALSE
    /\ stream = NewStream
    /\ attempt = NoAttempt
    /\ got = <<>>
    /\ caller = "start"
    /\ turns = 0

Next == Start \/ Poll \/ Repoll \/ Worker \/ Finite \/ Cancel

Spec == Init /\ [][Next]_vars

(* The worker ends its request: every read has a deadline.  The executor   *)
(* polls a task that was woken, and a retry loop runs on.                  *)
FairSpec ==
    /\ Spec
    /\ WF_vars(Start) /\ WF_vars(Poll) /\ WF_vars(Worker) /\ WF_vars(Finite)

-----------------------------------------------------------------------------
(* Properties.                                                             *)

TypeOK ==
    /\ request \in [adapter : Adapters, valid : BOOLEAN, body : Bodies]
    /\ cancelled \in BOOLEAN
    /\ worker.at \in {"none", "start", "open", "check", "read", "done"}
    /\ worker.read \in 0..Size
    /\ \A k \in DOMAIN http : http[k].type \in {"response", "chunk", "end", "failure"}
    /\ parked \in BOOLEAN
    /\ {stream.response, stream.opened} \subseteq BOOLEAN
    /\ stream.response <=> stream.decoder # NoDecoder
    /\ attempt.at \in {"none", "attempt", "sending", "backoff", "parse", "failed", "done"}
    /\ {attempt.sent, attempt.inner, attempt.outer} \subseteq Nat
    /\ caller \in {"start", "consume", "settled", "refused", "unfinished"}
    /\ turns \in 0..1

\* What a server said in the lines that arrived whole.
Said(kind) ==
    LET arrived == [k \in 1..(worker.read \div 2) |-> k]
    IN SelectSeq(arrived, LAMBDA i : Lines[i].kind = kind)
SaidCall(index) == SelectSeq(Said("fragment"), LAMBDA i : Lines[i].index = index)
SaidUsage ==
    LET last == SelectSeq(Said("usage"),
                          LAMBDA i : Lines[i].reported \/ request.adapter = "openrouter")
    IN last # <<>> /\ Lines[Last(last)].reported

SseAnswer ==
    LET calls == SelectSeq(<<SaidCall(0), SaidCall(1)>>, LAMBDA c : c # <<>>)
        finish == IF Said("finish") = <<>> THEN "none"
                  ELSE Lines[Last(Said("finish"))].reason
    IN [k \in DOMAIN Said("text") |-> Text(Said("text")[k])]
         \o [k \in DOMAIN calls |-> [type |-> "call", parts |-> calls[k]]]
         \o (IF request.adapter = "local" \/ SaidUsage THEN <<Usage(SaidUsage)>> ELSE <<>>)
         \o <<End(StopReason(finish, calls))>>

Content(reply) ==
    LET said == SelectSeq([k \in DOMAIN reply |-> k],
                          LAMBDA i : reply[i].kind \in {"text", "call"})
    IN [k \in DOMAIN said |-> IF reply[said[k]].kind = "text" THEN Text(said[k])
                              ELSE ToolCall([parts |-> <<said[k]>>])]
FiniteAnswer ==
    LET line == SelectSeq(attempt.reply, LAMBDA l : l.kind = "finish")[1]
    IN Content(attempt.reply) \o (IF line.reported THEN <<Usage(TRUE)>> ELSE <<>>)
                              \o <<End(line.reason)>>

(* A response the caller keeps as a success is what the server said, all   *)
(* of it and in order, however the transport cut it: texts, then one call  *)
(* per index with all its fragments, then the usage, then the reason.  And *)
(* the server said that it was finished, and nothing that is an error.     *)
Success == caller = "settled" /\ Last(got).type = "end" /\ Last(got).reason # "cancelled"

WholeAnswer ==
    Success =>
      IF Incremental
      THEN /\ got = SseAnswer
           /\ Said("finish") # <<>> \/ Said("done") # <<>>
           /\ Said("garbage") \o Said("error") \o Said("overflow") = <<>>
           /\ request.body.accepted
      ELSE /\ got = FiniteAnswer
           /\ \A k \in DOMAIN attempt.reply :
                attempt.reply[k].kind \notin {"garbage", "error", "abort", "foreign"}

(* A task that waits has been given all that arrived: nothing is queued,   *)
(* and the texts of the whole lines read so far have been delivered.  A    *)
(* lost wake-up, or text kept for the end of the response, breaks it.      *)
NothingHeldBack ==
    parked =>
      /\ http = <<>>
      /\ request.body.accepted =>
           SelectSeq(got, LAMBDA e : e.type = "text") =
             LET texts == SelectSeq([k \in 1..Whole(worker.read) |-> k],
                                    LAMBDA i : Lines[i].kind = "text")
             IN [k \in DOMAIN texts |-> Text(texts[k])]

(* The caller refuses a response, or finds it without an end, only if it   *)
(* was cancelled or if the gateway sent an error after its terminal line.  *)
RefusedOnlyWhen ==
    caller \in {"refused", "unfinished"} =>
      \/ cancelled
      \/ /\ ~Incremental
         /\ \E j, k \in DOMAIN attempt.reply :
              j < k /\ attempt.reply[k].kind = "envelope"

(* The adapter's accounts and the events agree: a turn is counted once,    *)
(* when its usage was given to the caller or is about to be.               *)
UsageRecorded ==
    caller # "refused" /\ (Incremental => request.adapter = "openrouter") =>
      turns = Cardinality({k \in DOMAIN (got \o stream.pending) :
                             LET e == (got \o stream.pending)[k]
                             IN e.type = "usage" /\ e.reported})

(* Two nested loops of MaxRetries retries bound the requests of a turn.    *)
RequestsAreBounded == attempt.sent <= (MaxRetries + 1) * (MaxRetries + 1)

(* An error of the server is not hidden: a request it rejected, or a       *)
(* response it gave up, is not settled as an answer and not as a           *)
(* cancellation unless the run was cancelled.                              *)
CancelledIfAsked ==
    \A k \in DOMAIN got : got[k] = End("cancelled") => cancelled

\* What the caller is told of a response is what became of it, within the
\* requests the retries allow.
AnswerIsTrue ==
    /\ TypeOK /\ WholeAnswer /\ RefusedOnlyWhen /\ UsageRecorded
    /\ CancelledIfAsked /\ RequestsAreBounded

(* Whatever the server and the transport do, the caller gets its answer.   *)
StreamEnds == <>(caller \in {"settled", "refused", "unfinished"})

=============================================================================
