--------------------------- MODULE CommandCapture ---------------------------
(***************************************************************************)
(* The bash tool over local operations (src/crates/tea-core/src/tools/     *)
(* bash.rs, local_operations.rs): one call of each agent of a process runs *)
(* a shell whose output goes to two capture files of the shared temporary  *)
(* directory, waits for that shell alone, and removes the files.           *)
(*                                                                         *)
(* A capture file is named by the sequence number of the process and by    *)
(* its stream.  Files of an earlier process with the same id may be there, *)
(* with a descendant that still writes to them.  A shell keeps the files   *)
(* it was given open: it writes to a removed file without effect.          *)
(***************************************************************************)
EXTENDS TLC, ToolText

CONSTANTS
    Agents,         \* each runs one call at a time, on a thread of its own
    MaxAttempts,    \* the names command_capture_file tries: 16 in the code
    StaleNames      \* the sets of names an earlier process may have left

ASSUME CommandCaptureAssumption ==
    /\ IsFiniteSet(Agents) /\ "earlier" \notin Agents /\ "none" \notin Agents
    /\ MaxAttempts \in Nat \ {0}

VARIABLES
    step,           \* per agent: where its call stands
    request,        \* per agent: the call
    cancelled,      \* per agent: the CancellationToken of its run
    result,         \* per agent: the settled result
    sequence,       \* COMMAND_CAPTURE_SEQUENCE
    captures,       \* the temporary directory: name -> [writers, text]
    capture,        \* per agent: attempt, and the names of its two files
    shell,          \* per agent: the shell and what it left running
    output          \* per agent: what was read from the two files

commandVars == <<sequence, captures, capture, shell, output>>
callVars == <<step, request, cancelled, result>>

NoName == <<0, "none">>
Streams == {"stdout", "stderr"}
NoCapture == [attempt |-> 0, stdout |-> NoName, stderr |-> NoName]
NoShell == [state |-> "none", wrote |-> 0]
NoOutput == [stdout |-> <<>>, stderr |-> <<>>]
Idle == [kind |-> "none"]

MoveTo(agent, next) == step' = [step EXCEPT ![agent] = next]
Settled(agent, outcome) ==
    /\ MoveTo(agent, "settled")
    /\ result' = [result EXCEPT ![agent] = outcome]
SettledAs(agent, kind) == Settled(agent, [kind |-> kind])
Without(files, names) == [name \in DOMAIN files \ names |-> files[name]]
Names(agent) == {capture[agent].stdout, capture[agent].stderr}

-----------------------------------------------------------------------------
\* check_cancelled of the tool and of execute_local_command.
EnterCommand(agent) ==
    /\ step[agent] = "ready" /\ request[agent].tool = "bash"
    /\ IF cancelled[agent] THEN SettledAs(agent, "cancelled")
       ELSE MoveTo(agent, "stdout") /\ UNCHANGED result
    /\ capture' = [capture EXCEPT ![agent] = NoCapture]
    /\ output' = [output EXCEPT ![agent] = NoOutput]
    /\ UNCHANGED <<request, cancelled, sequence, captures, shell>>

\* Mutant: the file is opened whether it exists or not.
Taken_Never(name) == FALSE

\* create_new refuses a name that exists.
Taken(name) == name \in DOMAIN captures

\* Whoever holds an existing file goes on writing to it.
Opened(agent, name) ==
    IF name \in DOMAIN captures
      THEN [captures[name] EXCEPT !.writers = @ \cup {agent}]
      ELSE [writers |-> {agent}, text |-> <<>>]

\* command_capture_file, one attempt: the number is drawn from the counter that
\* all calls share.  After the last one, or when the directory refuses, the call
\* fails, and the first file is removed with the failure of the second.
CaptureFile(agent, stream, next) ==
    LET name == <<sequence, stream>>
        Give(files) == captures' = Without(files, {capture[agent].stdout})
    IN /\ step[agent] = stream
       /\ sequence' = sequence + 1
       /\ \/ /\ ~Taken(name)
             /\ captures' = (name :> Opened(agent, name)) @@ captures
             /\ capture' = [capture EXCEPT ![agent] = [@ EXCEPT ![stream] = name, !.attempt = 0]]
             /\ MoveTo(agent, next) /\ UNCHANGED result
          \/ /\ Taken(name) /\ capture[agent].attempt + 1 < MaxAttempts
             /\ capture' = [capture EXCEPT ![agent].attempt = @ + 1]
             /\ UNCHANGED <<captures, step, result>>
          \/ /\ Taken(name) /\ capture[agent].attempt + 1 = MaxAttempts
             /\ Give(captures) /\ SettledAs(agent, "failed") /\ UNCHANGED capture
          \/ /\ Give(captures) /\ SettledAs(agent, "failed") /\ UNCHANGED capture
       /\ UNCHANGED <<request, cancelled, shell, output>>
CaptureStdout(agent) == CaptureFile(agent, "stdout", "stderr")
CaptureStderr(agent) == CaptureFile(agent, "stderr", "spawn")

\* Command::spawn; a failure removes both files.
Spawn(agent) ==
    /\ step[agent] = "spawn"
    /\ \/ /\ shell' = [shell EXCEPT ![agent] = [NoShell EXCEPT !.state = "running"]]
          /\ MoveTo(agent, "waiting") /\ UNCHANGED <<captures, result>>
       \/ /\ captures' = Without(captures, Names(agent))
          /\ SettledAs(agent, "failed") /\ UNCHANGED shell
    /\ UNCHANGED <<request, cancelled, sequence, capture, output>>

\* try_wait looks at the shell alone.
ShellIsDone(agent) == shell[agent].state \in {"exited", "over"}

\* Mutant: the loop does not look at the token.
WaitForShell_Uncancelled(agent) ==
    /\ step[agent] = "waiting" /\ ShellIsDone(agent) /\ MoveTo(agent, "reading")
    /\ UNCHANGED <<request, cancelled, result, sequence, captures, capture, shell, output>>

\* wait_for_shell_or_cancellation: the shell has exited, or the call is
\* cancelled and kills and reaps it.
WaitForShell(agent) ==
    /\ step[agent] = "waiting" /\ MoveTo(agent, "reading")
    /\ \/ ShellIsDone(agent) /\ UNCHANGED shell
       \/ /\ ~ShellIsDone(agent) /\ cancelled[agent]
          /\ shell' = [shell EXCEPT ![agent].state = "exited"]
    /\ UNCHANGED <<request, cancelled, result, sequence, captures, capture, output>>

\* The system refuses to wait or to kill: the call fails and leaves its files
\* behind.
WaitRefused(agent) ==
    /\ step[agent] = "waiting" /\ shell[agent].state # "over" /\ SettledAs(agent, "lost")
    /\ UNCHANGED <<request, cancelled, sequence, captures, capture, shell, output>>

\* Both files are read and removed, and only then a failed read is reported.
ReadCaptures(agent) ==
    /\ step[agent] = "reading"
    /\ captures' = Without(captures, Names(agent))
    /\ \/ /\ output' = [output EXCEPT ![agent] =
                          [stream \in Streams |-> captures[capture[agent][stream]].text]]
          /\ MoveTo(agent, "finishing") /\ UNCHANGED result
       \/ SettledAs(agent, "failed") /\ UNCHANGED output
    /\ UNCHANGED <<request, cancelled, sequence, capture, shell>>

\* stdout and, on a line of its own, stderr.
Combined(out) ==
    out.stdout \o (IF out.stdout # <<>> /\ out.stderr # <<>> THEN <<Newline>> ELSE <<>>) \o out.stderr

\* The last look at the token, the update, and the result the tool makes of it.
FinishCommand(agent) ==
    /\ step[agent] = "finishing"
    /\ IF cancelled[agent] THEN SettledAs(agent, "cancelled")
       ELSE \E text \in {Combined(output[agent])} : \E tail \in {TailOf(text)} :
            LET failed == request[agent].exit # 0
            IN Settled(agent, [kind |-> IF failed THEN "error" ELSE "ok",
                               text |-> tail.text, truncated |-> tail.truncated /\ ~failed])
    /\ UNCHANGED <<request, cancelled, sequence, captures, capture, shell, output>>

-----------------------------------------------------------------------------
(* The shell and what it leaves in the background (outside src/).          *)

\* The process writes the next character of its output: the shell what is in
\* the foreground, and a descendant the rest after the shell has exited.
ShellWrites(agent) ==
    LET done == shell[agent].wrote
    IN /\ shell[agent].state \in {"running", "exited"}
       /\ done < (IF shell[agent].state = "running" THEN request[agent].foreground
                  ELSE Len(request[agent].prints))
       /\ LET print == request[agent].prints[done + 1]
              name == capture[agent][print.stream]
          IN captures' = IF name \in DOMAIN captures /\ agent \in captures[name].writers
                           THEN [captures EXCEPT ![name].text = Append(@, print.char)]
                           ELSE captures
       /\ shell' = [shell EXCEPT ![agent].wrote = @ + 1]
       /\ UNCHANGED <<callVars, sequence, capture, output>>

\* The shell exits when its foreground output is written, unless it hangs.
ShellExits(agent) ==
    /\ shell[agent].state = "running" /\ ~request[agent].hangs
    /\ shell[agent].wrote = request[agent].foreground
    /\ shell' = [shell EXCEPT ![agent].state = "exited"]
    /\ UNCHANGED <<callVars, sequence, captures, capture, output>>

\* Nothing of it runs any more: a descendant need not end.
ShellIsOver(agent) ==
    /\ shell[agent].state = "exited"
    /\ shell[agent].wrote = Len(request[agent].prints)
    /\ shell' = [shell EXCEPT ![agent].state = "over"]
    /\ UNCHANGED <<callVars, sequence, captures, capture, output>>

\* A descendant of the earlier process writes to a file it still holds.
EarlierWrites ==
    /\ \E name \in DOMAIN captures :
         /\ "earlier" \in captures[name].writers
         /\ ~\E k \in DOMAIN captures[name].text : captures[name].text[k] = "earlier"
         /\ captures' = [captures EXCEPT ![name].text = Append(@, "earlier")]
    /\ UNCHANGED <<callVars, sequence, capture, shell, output>>

-----------------------------------------------------------------------------
CommandInit ==
    /\ step = [agent \in Agents |-> "idle"] /\ request = [agent \in Agents |-> Idle]
    /\ cancelled = [agent \in Agents |-> FALSE] /\ result = [agent \in Agents |-> Idle]
    /\ sequence = 0
    /\ \E names \in StaleNames :
         captures = [name \in names |-> [writers |-> {"earlier"}, text |-> <<>>]]
    /\ capture = [agent \in Agents |-> NoCapture] /\ shell = [agent \in Agents |-> NoShell]
    /\ output = [agent \in Agents |-> NoOutput]

Command(agent) ==
    \/ EnterCommand(agent) \/ CaptureStdout(agent) \/ CaptureStderr(agent) \/ Spawn(agent)
    \/ WaitForShell(agent) \/ WaitRefused(agent) \/ ReadCaptures(agent) \/ FinishCommand(agent)

Shell(agent) == ShellWrites(agent) \/ ShellExits(agent) \/ ShellIsOver(agent)
=============================================================================
