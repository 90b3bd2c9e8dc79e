------------------------------ MODULE MCRunLoop ------------------------------
(* Scenarios of a run for TLC.                                              *)
EXTENDS RunLoop

\* Tool turns with every outcome of a response, host input and an abort.
Turning ==
    [durable |-> 1, prompts |-> 1, skipInitialSteering |-> FALSE,
     steeringMode |-> "All", followUpMode |-> "OneAtATime",
     autoCompaction |-> FALSE, overflowRecovery |-> FALSE, hasCompactor |-> FALSE,
     maxCompactions |-> 0, maxOverflowRetries |-> 0,
     responses |-> StopReasons, faults |-> {"provider"},
     hostCalls |-> {"abort", "steer"},
     maxTurn |-> 2, maxCalls |-> 2, maxInput |-> 1]

\* Two messages of the host, in either queue.
Queueing ==
    [Turning EXCEPT !.responses = {"Stop", "ToolUse"}, !.faults = {},
                    !.hostCalls = {"abort", "steer", "follow_up"},
                    !.maxCalls = 1, !.maxInput = 2]

\* A continue with failing observers, sources and hooks.
Failing ==
    [Turning EXCEPT !.durable = 0, !.skipInitialSteering = TRUE,
                    !.faults = {"observer", "stream", "hook", "provider"},
                    !.hostCalls = {"abort", "steer", "clear"}, !.maxCalls = 1]

\* A continue that compacts at its threshold and after overflowed responses.
Compacting ==
    [Turning EXCEPT !.prompts = 0, !.autoCompaction = TRUE,
                    !.overflowRecovery = TRUE, !.hasCompactor = TRUE,
                    !.maxCompactions = 2, !.maxOverflowRetries = 1,
                    !.responses = {"Stop", "ToolUse", "Overflow"},
                    !.hostCalls = {"abort"}, !.maxCalls = 1, !.maxInput = 0]

\* The same at its compaction limit.
Limited == [Compacting EXCEPT !.maxCompactions = 1]

\* Input of the host before and after a threshold's compaction.
Summarising ==
    [Limited EXCEPT !.prompts = 1, !.overflowRecovery = FALSE,
                    !.responses = {"Stop"}, !.hostCalls = {"steer", "follow_up"},
                    !.maxTurn = 1, !.maxInput = 2]

SomeScenarios == {Turning, Queueing, Failing, Compacting, Limited, Summarising}
=============================================================================
