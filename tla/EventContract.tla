--------------------------- MODULE EventContract ---------------------------
(***************************************************************************)
(* What an observer of one run is promised (tea-core event.rs): the event  *)
(* log only grows, by one event at a time, and only by an event the        *)
(* grammar of a run allows next.  Nothing here knows how the turn loop     *)
(* decides what to emit; RunLoop is shown to implement this.               *)
(*                                                                         *)
(* An event is its kind and what it is about: a turn, a message or a tool  *)
(* call identifier, or a reason.                                           *)
(***************************************************************************)
EXTENDS Naturals, Sequences, FiniteSets

VARIABLE events     \* the events delivered so far, in sequence order

At(kind) == {i \in DOMAIN events : events[i].kind = kind}
About(kind) == {events[i].of : i \in At(kind)}

Turns == Cardinality(At("turn_start"))
InTurn == Turns > Cardinality(At("turn_end"))
OpenMessages == About("message_start") \ About("message_end")
OpenTools == About("tool_execution_start") \ About("tool_execution_end")
Quiet == OpenMessages = {}
Settled == Quiet /\ OpenTools = {}

\* The events that may follow the log.
Allowed(e) ==
    \/ e.kind = "agent_start" /\ events = <<>>
    \/ /\ events # <<>>
       /\ At("agent_end") = {}
       /\ \/ e.kind = "turn_start" /\ ~InTurn /\ e.of = Turns + 1
          \/ /\ InTurn
             /\ \/ /\ e.kind = "message_start"
                   /\ Quiet /\ e.of \notin About("message_start")
                \/ /\ e.kind \in {"message_update", "message_end"}
                   /\ e.of \in OpenMessages
                \/ /\ e.kind = "tool_execution_start"
                   /\ Quiet /\ e.of \notin About("tool_execution_start")
                \/ e.kind = "tool_execution_end" /\ Quiet /\ e.of \in OpenTools
                \/ /\ e.kind \in {"automatic_compaction_start",
                                  "automatic_compaction_end",
                                  "provider_request_skipped"}
                   /\ Settled
                \/ e.kind = "turn_end" /\ Settled /\ e.of = Turns
          \/ e.kind = "agent_end" /\ ~InTurn /\ Turns > 0 /\ Settled

Init == events = <<>>

Deliver ==
    /\ events' # events
    /\ events' = Append(events, events'[Len(events')])
    /\ Allowed(events'[Len(events')])

Spec == Init /\ [][Deliver]_events
=============================================================================
