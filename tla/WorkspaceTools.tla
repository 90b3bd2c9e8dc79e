--------------------------- MODULE WorkspaceTools ---------------------------
(***************************************************************************)
(* The standard coding tools over one workspace (src/crates/tea-core/src/  *)
(* tools).  Every agent of the process makes one call at a time: its       *)
(* arguments are validated, execute() parses them and resolves the path,   *)
(* and the future does the work when it is polled.  Every agent has a      *)
(* thread of its own: between two system calls of a body other agents and  *)
(* the shells work on the same files.  Over local operations nothing in    *)
(* the body of a file tool suspends, so a cancellation is not seen in it.  *)
(* bash is in CommandCapture.  Symbolic links are left out: a path stands  *)
(* for itself.                                                             *)
(***************************************************************************)
EXTENDS CommandCapture, JsonSchema, FiniteSetsExt

CONSTANTS
    Agendas,        \* the calls [tool, arguments, ...] each agent may make
    Earlier,        \* the results each agent's session has already
    Spelling,       \* name of a file -> its characters
    PathOrder,      \* the paths that may come to exist, in their order
    InitialFiles,   \* path -> text
    InitialDirs,
    MaxCalls        \* the number of calls of each agent

VARIABLES
    files,          \* path -> text
    dirs,           \* the paths of the directories
    agenda,         \* the one of Agendas this process has
    target,         \* per agent: the path execute() resolved
    work,           \* per agent: what the body of its file tool has so far
    history,        \* per agent: the results of its calls, in order
    calls           \* per agent: the number of its calls

workspaceVars == <<files, dirs, agenda, target, work, history, calls>>
vars == <<callVars, commandVars, workspaceVars>>

-----------------------------------------------------------------------------
(* Paths.                                                                  *)

Root == <<"w">>
Outside == <<"outside">>
Nowhere == [absolute |-> FALSE, parts |-> <<>>]
Here == [absolute |-> FALSE, parts |-> <<".">>]

\* lexically_resolve.
Resolve(path) ==
    LET Walk(at, part) == CASE at = Outside -> Outside
                            [] part = "." -> at
                            [] part = ".." -> IF at = <<>> THEN Outside ELSE Front(at)
                            [] OTHER -> Append(at, part)
        end == FoldLeft(Walk, <<>>, (IF path.absolute THEN <<>> ELSE Root) \o path.parts)
    IN IF path # Nowhere /\ IsPrefix(Root, end) THEN end ELSE Outside

Exists(path) == path \in dirs \/ path \in DOMAIN files
Below(path, dir) == IsStrictPrefix(dir, path)
Relative(path, dir) == SubSeq(path, Len(dir) + 1, Len(path))
Ancestors(path) == {SubSeq(path, 1, n) : n \in 1..(Len(path) - 1)}
PathText(parts) ==
    FlattenSeq([k \in DOMAIN parts |->
                  IF k = 1 THEN Spelling[parts[k]] ELSE <<"/">> \o Spelling[parts[k]]])
Sorted(paths) == SelectSeq(PathOrder, LAMBDA path : path \in paths)

-----------------------------------------------------------------------------
(* Arguments.                                                              *)

Arguments(agent) == request[agent].arguments.members
Given(agent, key) == key \in DOMAIN Arguments(agent)
NumberOf(agent, key, default) ==
    IF Given(agent, key) THEN Arguments(agent)[key].halves \div 2 ELSE default
Everything == 1000      \* stands for a limit that is not given
FlagOf(agent, key) == Given(agent, key) /\ Arguments(agent)[key].bool
PathOf(agent) == IF Given(agent, "path") THEN Arguments(agent).path.path ELSE Here
EditsOf(agent) ==
    [k \in DOMAIN Arguments(agent).edits.items |->
       LET edit == Arguments(agent).edits.items[k].members
       IN [old |-> edit.oldText.text, new |-> edit.newText.text]]
SchemaOf(call) == IF call.tool = "host" THEN call.schema ELSE StandardSchemas[call.tool]

\* What string_field, optional_string, optional_bool and the array of edits ask
\* of the arguments of a standard tool.
WellTyped(agent) ==
    LET types == [path |-> "string", command |-> "string", content |-> "string",
                  pattern |-> "string", glob |-> "string", ignoreCase |-> "boolean",
                  literal |-> "boolean", context |-> "number", limit |-> "number",
                  offset |-> "number", timeout |-> "number", edits |-> "array"]
        needed == [read |-> {"path"}, bash |-> {"command"}, edit |-> {"path", "edits"},
                   write |-> {"path", "content"}, grep |-> {"pattern"}, find |-> {"pattern"},
                   ls |-> {}]
    IN /\ needed[request[agent].tool] \subseteq DOMAIN Arguments(agent)
       /\ \A key \in DOMAIN Arguments(agent) \cap DOMAIN types :
            Arguments(agent)[key].type = types[key]
       /\ Given(agent, "edits") =>
            \A edit \in ValuesOf(Arguments(agent).edits.items) :
              /\ edit.type = "object" /\ {"oldText", "newText"} \subseteq DOMAIN edit.members
              /\ \A key \in {"oldText", "newText"} : edit.members[key].type = "string"

\* number_to_usize, optional_timeout, parse_edit_args, GlobMatcher::new and
\* TinyPattern::new refuse values of the right type.
Acceptable(agent) ==
    /\ \A key \in {"offset", "limit", "context"} \cap DOMAIN Arguments(agent) :
         Arguments(agent)[key].halves > 0 /\ Arguments(agent)[key].halves % 2 = 0
    /\ Given(agent, "timeout") => Arguments(agent).timeout.halves > 0
    /\ Given(agent, "edits") => Arguments(agent).edits.items # <<>>
    /\ Given(agent, "pattern") /\ ~FlagOf(agent, "literal") => Arguments(agent).pattern.text # <<>>

-----------------------------------------------------------------------------
(* A call up to its future.                                                *)

\* prepare_tool_call: arguments that do not satisfy the schema stop the call.
Begin(agent) ==
    /\ step[agent] = "idle" /\ calls[agent] < MaxCalls
    /\ calls' = [calls EXCEPT ![agent] = @ + 1]
    /\ \E call \in agenda[agent] :
         LET verdict == Validated(SchemaOf(call), call.arguments)
         IN /\ request' = [request EXCEPT ![agent] = call]
            /\ IF verdict = "valid" THEN MoveTo(agent, "chosen") /\ UNCHANGED result
               ELSE SettledAs(agent, IF verdict = "panic" THEN "panic" ELSE "invalid")
    /\ cancelled' = [cancelled EXCEPT ![agent] = FALSE]
    /\ shell' = [shell EXCEPT ![agent] = NoShell]
    /\ UNCHANGED <<sequence, captures, capture, output, files, dirs, agenda, target, work, history>>

\* A result whose text only says that it was done.
Done(agent) == Settled(agent, [kind |-> "ok", text |-> <<"ok">>, truncated |-> FALSE])

\* execute(): the arguments, then the path.  Only read looks at the token here.
Execute(agent) ==
    LET tool == request[agent].tool
        place == Resolve(PathOf(agent))
    IN /\ step[agent] = "chosen"
       /\ CASE tool = "host" -> Done(agent) /\ UNCHANGED target
            [] tool # "host" /\ ~WellTyped(agent) -> SettledAs(agent, "untyped") /\ UNCHANGED target
            [] tool # "host" /\ WellTyped(agent) /\ ~Acceptable(agent) ->
                 SettledAs(agent, "invalid") /\ UNCHANGED target
            [] OTHER ->
                 IF /\ tool # "bash"
                    /\ place = Outside \/ (tool # "write" /\ ~Exists(place))
                   THEN SettledAs(agent, "failed") /\ UNCHANGED target
                 ELSE IF tool = "read" /\ cancelled[agent]
                   THEN SettledAs(agent, "cancelled") /\ UNCHANGED target
                 ELSE /\ MoveTo(agent, "ready") /\ UNCHANGED result
                      /\ target' = [target EXCEPT ![agent] = place]
       /\ UNCHANGED <<request, cancelled, commandVars, files, dirs, agenda, work, history, calls>>

-----------------------------------------------------------------------------
(* The bodies of the file tools: `original' and `text' are what an edit read *)
(* and what it or a write puts, `named' is whether the file it opened still  *)
(* has its name; `stack' is the directories of a walk, with the entries of   *)
(* each that are left, and `met' what it took; `touched' is not of the code: *)
(* what others wrote or removed since the body began.                        *)

NoWork == [original |-> <<>>, text |-> <<>>, named |-> FALSE, stack |-> <<>>, met |-> {},
           hits |-> <<>>, touched |-> {}]

Polled(agent, tool) == step[agent] = "ready" /\ request[agent].tool = tool
Place(agent) == target[agent]
Unwritten == UNCHANGED <<files, dirs>>
Found(paths, limited) == [kind |-> "ok", paths |-> paths, limited |-> limited]
Body(agent) == UNCHANGED <<request, cancelled, commandVars, agenda, target, history, calls>>
Refused(agent, kind) == SettledAs(agent, kind) /\ UNCHANGED <<files, dirs, work>>

\* The body goes on, with nothing to show yet.
Goes(agent, next) == MoveTo(agent, next) /\ UNCHANGED result

\* What one agent does to some paths is known to the bodies of the others, and
\* its own work is mine.
Working == {"opening", "writing", "walking", "searching"}
WorkWith(agent, mine, paths) ==
    work' = [other \in Agents |->
               IF other = agent THEN mine
               ELSE IF step[other] \in Working THEN [work[other] EXCEPT !.touched = @ \cup paths]
               ELSE work[other]]

\* The lines that offset and limit name.
Window(text, offset, limit) ==
    LET lines == SplitLines(text)
    IN SubSeq(lines, offset, Min({offset + limit - 1, Len(lines)}))
WindowOf(agent, text) ==
    Window(text, NumberOf(agent, "offset", 1), NumberOf(agent, "limit", Everything))

ReadFile(agent) ==
    /\ Polled(agent, "read") /\ Body(agent)
    /\ UNCHANGED <<files, dirs, work>>
    /\ IF \/ Place(agent) \notin DOMAIN files
          \/ NumberOf(agent, "offset", 1) > Len(SplitLines(files[Place(agent)]))
         THEN SettledAs(agent, "failed")
       ELSE \E window \in {WindowOf(agent, files[Place(agent)])} :
              Settled(agent, [kind |-> "ok"] @@ HeadOf(window))

IsUtf8(text) == \A k \in DOMAIN text : text[k] # "invalid"

\* The file is read, every edit is located in what was read, and the whole text
\* is to be written back.
EditFile(agent) ==
    /\ Polled(agent, "edit") /\ Body(agent)
    /\ IF cancelled[agent] THEN Refused(agent, "cancelled")
       ELSE IF Place(agent) \notin DOMAIN files \/ ~IsUtf8(files[Place(agent)])
         THEN Refused(agent, "failed")
       ELSE \E edited \in {Edited(files[Place(agent)], EditsOf(agent))} :
              IF edited.fault # "none" THEN Refused(agent, edited.fault)
              ELSE /\ work' = [work EXCEPT ![agent] =
                                 [NoWork EXCEPT !.original = files[Place(agent)],
                                                !.text = edited.text]]
                   /\ Goes(agent, "opening") /\ Unwritten

\* create_dir_all: the directories stay when the file fails.
WriteFile(agent) ==
    /\ Polled(agent, "write") /\ Body(agent)
    /\ IF cancelled[agent] THEN Refused(agent, "cancelled")
       ELSE IF Ancestors(Place(agent)) \cap DOMAIN files # {} THEN Refused(agent, "failed")
       ELSE /\ dirs' = dirs \cup Ancestors(Place(agent)) /\ UNCHANGED files
            /\ WorkWith(agent, [NoWork EXCEPT !.text = Arguments(agent).content.text],
                        Ancestors(Place(agent)) \ dirs)
            /\ Goes(agent, "opening")

\* fs::write opens the file, which makes it or empties it.
OpenFile(agent) ==
    /\ step[agent] = "opening" /\ Body(agent) /\ UNCHANGED dirs
    /\ IF Place(agent) \in dirs THEN Refused(agent, "failed")
       ELSE /\ files' = (Place(agent) :> <<>>) @@ files
            /\ WorkWith(agent, [work[agent] EXCEPT !.named = TRUE], {Place(agent)})
            /\ Goes(agent, "writing")

\* Then it writes from the start of the file, over what another call may have
\* put there since, or to a file that has no name any more.  When the system
\* refuses, the file stays as it is.
PutText(agent) ==
    /\ step[agent] = "writing" /\ Body(agent) /\ UNCHANGED dirs
    /\ \/ Refused(agent, "failed")
       \/ /\ Done(agent)
          /\ LET place == Place(agent)
                 text == work[agent].text
             IN files' = IF work[agent].named
                           THEN [files EXCEPT ![place] = text \o SubSeq(@, Len(text) + 1, Len(@))]
                           ELSE files
          /\ WorkWith(agent, work[agent], IF work[agent].named THEN {Place(agent)} ELSE {})

\* A glob is matched against the path below the search root, and the name.
Selected(dir, glob, path) ==
    GlobMatch(glob, PathText(Relative(path, dir))) \/ GlobMatch(glob, Spelling[Last(path)])

\* read_dir: the entries of a directory, in no fixed order.  A directory that is
\* larger than one block of the system is left out.
Entries(dir) == {path \in dirs \cup DOMAIN files : path # <<>> /\ Front(path) = dir}

Walks(agent, stack, met) ==
    /\ WorkWith(agent, [work[agent] EXCEPT !.stack = stack, !.met = met], {})
    /\ UNCHANGED <<files, dirs>>
StartWalk(agent) ==
    /\ work' = [work EXCEPT ![agent] = [NoWork EXCEPT !.stack = <<Entries(Place(agent))>>]]
    /\ Goes(agent, "walking") /\ Unwritten

\* find and ls want a directory; grep also searches a single file.
FindFiles(agent) ==
    /\ \E tool \in {"find", "ls"} : Polled(agent, tool)
    /\ Body(agent)
    /\ IF cancelled[agent] THEN Refused(agent, "cancelled")
       ELSE IF Place(agent) \notin dirs THEN Refused(agent, "failed")
       ELSE StartWalk(agent)
GrepFiles(agent) ==
    /\ Polled(agent, "grep") /\ Body(agent)
    /\ IF cancelled[agent] THEN Refused(agent, "cancelled")
       ELSE IF ~Exists(Place(agent)) THEN Refused(agent, "failed")
       ELSE IF Place(agent) \in dirs THEN StartWalk(agent)
       ELSE /\ work' = [work EXCEPT ![agent] = [NoWork EXCEPT !.met = {Place(agent)}]]
            /\ Goes(agent, "searching") /\ Unwritten

Limit(agent) == NumberOf(agent, "limit", Everything)

\* find: `results.len() >= limit`.
Limited(count, limit) == count >= limit
Full(agent) == request[agent].tool = "find" /\ Limited(Cardinality(work[agent].met), Limit(agent))

\* What a walk takes of the files it meets.
Takes(agent, path) ==
    CASE request[agent].tool = "find" -> Selected(Place(agent), Arguments(agent).pattern.text, path)
      [] request[agent].tool = "grep" ->
           Given(agent, "glob") => Selected(Place(agent), Arguments(agent).glob.text, path)
      [] OTHER -> TRUE

\* walk_files, collect_files and the read_dir of ls: one entry of the directory
\* that was opened last is looked at, and one that is gone fails the call.  ls
\* looks at all of its directory, the others below it, past what Git and npm keep.
WalkEntry(agent) ==
    LET stack == work[agent].stack
        met == work[agent].met
        deep == request[agent].tool # "ls"
    IN /\ step[agent] = "walking" /\ stack # <<>> /\ ~Full(agent) /\ Body(agent)
       /\ \/ Last(stack) = {} /\ Walks(agent, Front(stack), met) /\ UNCHANGED <<step, result>>
          \/ \E path \in Last(stack) :
               LET rest == Append(Front(stack), Last(stack) \ {path})
                   skipped == deep /\ Last(path) \in {".git", "node_modules"}
               IN IF ~skipped /\ ~Exists(path) THEN Refused(agent, "failed")
                  ELSE /\ Walks(agent,
                                IF ~skipped /\ deep /\ path \in dirs
                                  THEN Append(rest, Entries(path)) ELSE rest,
                                IF ~skipped /\ (path \in dirs => ~deep) /\ Takes(agent, path)
                                  THEN met \cup {path} ELSE met)
                       /\ UNCHANGED <<step, result>>

\* ls sorts before it cuts, and says so only when it cut something.
WalkEnds(agent) ==
    LET met == work[agent].met
        listed == Sorted(met)
    IN /\ step[agent] = "walking" /\ (work[agent].stack = <<>> \/ Full(agent)) /\ Body(agent)
       /\ UNCHANGED <<files, dirs, work>>
       /\ CASE request[agent].tool = "find" ->
                 Settled(agent, Found(met, Limited(Cardinality(met), Limit(agent))))
            [] request[agent].tool = "ls" ->
                 Settled(agent, Found(SubSeq(listed, 1, Min({Len(listed), Limit(agent)})),
                                      Len(listed) > Limit(agent)))
            [] OTHER -> Goes(agent, "searching")

Lower(text) == [k \in DOMAIN text |-> IF text[k] = "A" THEN "a" ELSE text[k]]
LineMatches(agent, line) ==
    LET pattern == Arguments(agent).pattern.text
        Cased(text) == IF FlagOf(agent, "ignoreCase") THEN Lower(text) ELSE text
    IN IF FlagOf(agent, "literal") THEN Includes(Cased(line), Cased(pattern))
       ELSE TinyMatches(Cased(pattern), Cased(line))

\* local_grep: the files in order, the lines of each, up to the limit; a file
\* that cannot be read is skipped.  The context lines that were asked for are not
\* looked at, and a cut is not told.
SearchFile(agent) ==
    LET met == work[agent].met
        hits == work[agent].hits
        path == Head(Sorted(met))
        lines == IF path \in DOMAIN files /\ IsUtf8(files[path]) THEN LinesOf(files[path]) ELSE <<>>
        found == SelectSeq([k \in DOMAIN lines |-> <<path, k>>],
                           LAMBDA hit : LineMatches(agent, lines[hit[2]]))
    IN /\ step[agent] = "searching" /\ Body(agent) /\ Unwritten
       /\ IF met = {} \/ Len(hits) >= Limit(agent)
            THEN Settled(agent, Found(hits, FALSE)) /\ UNCHANGED work
            ELSE /\ WorkWith(agent,
                       [work[agent] EXCEPT
                          !.met = met \ {path},
                          !.hits = hits \o SubSeq(found, 1, Min({Len(found),
                                                                 Limit(agent) - Len(hits)}))],
                       {})
                 /\ UNCHANGED <<step, result>>

-----------------------------------------------------------------------------
\* The result is kept for the contexts that follow.
Record(agent) ==
    /\ step[agent] = "settled" /\ MoveTo(agent, "idle")
    /\ history' = [history EXCEPT ![agent] = Append(@, result[agent])]
    /\ work' = [work EXCEPT ![agent] = NoWork]
    /\ UNCHANGED <<request, cancelled, result, commandVars, files, dirs, agenda, target, calls>>

Cancel(agent) ==
    /\ step[agent] \notin {"idle", "settled"} /\ ~cancelled[agent]
    /\ cancelled' = [cancelled EXCEPT ![agent] = TRUE]
    /\ UNCHANGED <<step, request, result, commandVars, workspaceVars>>

\* A command may remove a file while other calls work on it.
ShellRemoves(agent) ==
    /\ shell[agent].state = "running"
    /\ request[agent].removes \in DOMAIN files
    /\ files' = Without(files, {request[agent].removes})
    /\ work' = [other \in Agents |->
                  IF step[other] \notin Working THEN work[other]
                  ELSE [work[other] EXCEPT
                          !.named = @ /\ target[other] # request[agent].removes,
                          !.touched = @ \cup {request[agent].removes}]]
    /\ UNCHANGED <<callVars, commandVars, dirs, agenda, target, history, calls>>

Init ==
    /\ CommandInit
    /\ agenda \in Agendas
    /\ files = InitialFiles /\ dirs = InitialDirs
    /\ target = [agent \in Agents |-> Root] /\ history = Earlier
    /\ work = [agent \in Agents |-> NoWork]
    /\ calls = [agent \in Agents |-> 0]

Tool(agent) ==
    \/ Execute(agent) \/ ReadFile(agent)
    \/ EditFile(agent) \/ WriteFile(agent) \/ OpenFile(agent) \/ PutText(agent)
    \/ FindFiles(agent) \/ GrepFiles(agent)
    \/ WalkEntry(agent) \/ WalkEnds(agent) \/ SearchFile(agent)

Next ==
    \/ \E agent \in Agents : Begin(agent) \/ Tool(agent) \/ Record(agent) \/ Cancel(agent)
    \/ \E agent \in Agents : (Command(agent) \/ Shell(agent)) /\ UNCHANGED workspaceVars
    \/ \E agent \in Agents : ShellRemoves(agent)
    \/ EarlierWrites /\ UNCHANGED workspaceVars

\* The thread of an agent goes on looking at its shell, which need not do anything.
FairSpec ==
    /\ Init /\ [][Next]_vars
    /\ \A agent \in Agents : WF_vars(WaitForShell(agent) /\ UNCHANGED workspaceVars)

-----------------------------------------------------------------------------
(* Properties.                                                             *)

Succeeds(agent, tool) ==
    /\ step[agent] # "settled" /\ step'[agent] = "settled"
    /\ result'[agent].kind = "ok" /\ request[agent].tool = tool

\* All edits of a call at once, in one pass over the text they were matched in.
Simultaneous(text, edits) ==
    LET from[i \in 1..(Len(text) + 1)] ==
          LET here == {k \in DOMAIN edits : StandsAt(text, i, edits[k].old)}
          IN IF i > Len(text) THEN <<>>
             ELSE IF here = {} THEN <<text[i]>> \o from[i + 1]
             ELSE LET edit == edits[CHOOSE k \in here : TRUE]
                  IN edit.new \o from[i + Len(edit.old)]
    IN from[1]

\* An edit that succeeds has replaced all its blocks as they were in the original
\* file.  What others did to the file between its read and its write is lost.
EditIsSimultaneous ==
    [][\A agent \in Agents :
         Succeeds(agent, "edit") /\ Place(agent) \notin work[agent].touched =>
           files' = [files EXCEPT ![Place(agent)] =
                       Simultaneous(work[agent].original, EditsOf(agent))]]_vars

\* A read is the window that was asked for, or, marked as truncated, the first
\* lines of it, whole and within both limits.
ReadsWholeLines ==
    [][\A agent \in Agents : Succeeds(agent, "read") =>
         \A window \in {Join(WindowOf(agent, files[Place(agent)]))} :
         LET text == result'[agent].text
         IN IF ~result'[agent].truncated THEN text = window
            ELSE /\ Bytes(text) <= MaxBytes /\ Len(SplitLines(text)) <= MaxLines
                 /\ text = <<>> \/ IsPrefix(Append(text, Newline), Append(window, Newline))]_vars

\* The meaning of a glob: its tokens cover the text one after the other.
Tokens(glob) ==
    LET from[p \in 1..(Len(glob) + 1)] ==
          LET Is(part) == StandsAt(glob, p, part)
          IN CASE p > Len(glob) -> <<>>
               [] Is(<<"*", "*", "/">>) -> << <<"*", "*", "/">> >> \o from[p + 3]
               [] Is(<<"*", "*">>) /\ ~Is(<<"*", "*", "/">>) -> << <<"*", "*">> >> \o from[p + 2]
               [] OTHER -> << <<glob[p]>> >> \o from[p + 1]
    IN from[1]
Covers(token, part) ==
    CASE token = <<"*", "*", "/">> -> part = <<>> \/ Last(part) = "/"
      [] token = <<"*", "*">> -> TRUE
      [] token = <<"*">> -> \A k \in DOMAIN part : part[k] # "/"
      [] OTHER -> Len(part) = 1 /\ token[1] \in {"?", part[1]}
Denotes(glob, text) ==
    LET tokens == Tokens(glob)
    IN \E cuts \in [0..Len(tokens) -> 0..Len(text)] :
         /\ cuts[0] = 0 /\ cuts[Len(tokens)] = Len(text)
         /\ \A k \in DOMAIN tokens :
              cuts[k - 1] <= cuts[k] /\ Covers(tokens[k], SubSeq(text, cuts[k - 1] + 1, cuts[k]))

\* A find names only files that the glob denotes, outside .git and node_modules,
\* and, when it does not say it was cut, every one of them that was there all along.
FindNames(agent, Is(_)) ==
    Succeeds(agent, "find") =>
      LET found == result'[agent].paths
          Denoted(path) ==
            /\ Below(path, Place(agent))
            /\ ToSet(Relative(path, Place(agent))) \cap {".git", "node_modules"} = {}
            /\ Is(PathText(Relative(path, Place(agent)))) \/ Is(Spelling[Last(path)])
          still == DOMAIN files \ work[agent].touched
      IN /\ \A path \in found : Denoted(path)
         /\ found \subseteq DOMAIN files \cup work[agent].touched
         /\ ~result'[agent].limited => {path \in still : Denoted(path)} \subseteq found
GlobOf(agent) == Arguments(agent).pattern.text
FindIsComplete ==
    [][\A agent \in Agents :
         FindNames(agent, LAMBDA text : Denotes(AsBytes(GlobOf(agent)), AsBytes(text)))]_vars

\* "`?` matches one character" (search.rs).
GlobsAreOfCharacters ==
    [][\A agent \in Agents : FindNames(agent, LAMBDA text : Denotes(GlobOf(agent), text))]_vars

\* The file tools do and say what was asked, or say that they did not.
ResultsAreTrue == EditIsSimultaneous /\ ReadsWholeLines /\ FindIsComplete

\* A bash result holds what its own command printed, from the beginning, all
\* of the foreground when the shell ended by itself, and nothing another call
\* or an earlier process wrote.
PrintedTo(agent, stream, n) ==
    LET prints == SelectSeq(SubSeq(request[agent].prints, 1, n), LAMBDA print : print.stream = stream)
    IN [k \in DOMAIN prints |-> prints[k].char]
OutputIsOwn ==
    \A agent \in Agents : step[agent] = "finishing" =>
        \A stream \in Streams :
            /\ IsPrefix(output[agent][stream],
                        PrintedTo(agent, stream, Len(request[agent].prints)))
            /\ ~cancelled[agent] =>
                 IsPrefix(PrintedTo(agent, stream, request[agent].foreground), output[agent][stream])

\* The capture files of a call are gone when it has settled, unless the system
\* refused to wait for its shell.
CapturesAreReleased ==
    \A name \in DOMAIN captures : \A agent \in captures[name].writers \ {"earlier"} :
        \/ name \in Names(agent) /\ step[agent] \in {"stderr", "spawn", "waiting", "reading"}
        \/ result[agent].kind = "lost"
        \/ \E k \in DOMAIN history[agent] : history[agent][k].kind = "lost"

\* The capture files of a command are its own while it runs, and gone after it.
CapturesAreOwn == OutputIsOwn /\ CapturesAreReleased

\* A call stops waiting once its shell has exited or it is cancelled, though the
\* shell hangs or leaves something running.
CommandSettles ==
    \A agent \in Agents :
        step[agent] = "waiting" /\ (ShellIsDone(agent) \/ cancelled[agent])
          ~> step[agent] # "waiting"

\* Arguments that satisfy the schema of a tool have the types its parser asks
\* for, and a schema that was accepted never stops the validator.
SchemasAreEnough == \A agent \in Agents : result[agent].kind \notin {"untyped", "panic"}

\* What a context shows of a result fits the limit, but for the notice of a
\* repetition, and shows an error as one.
AsContext(agent) ==
    Projected([k \in DOMAIN history[agent] |->
                 LET entry == history[agent][k]
                 IN [content |-> IF "text" \in DOMAIN entry
                                   THEN entry.text ELSE <<entry.kind>>,
                     details |-> <<>>, failure |-> IF entry.kind = "ok" THEN "none" ELSE entry.kind]])
ProjectionFits ==
    \A agent \in Agents : \A context \in {AsContext(agent)} : \A k \in DOMAIN context :
        LET shown == context[k]
        IN \/ history[agent][k].kind # "ok" /\ shown = Repeated
           \/ /\ Bytes(shown) <= Policy.total
              /\ history[agent][k].kind # "ok" => IsPrefix(StatusHeader, shown)

\* "Maximum combined bytes in a model-facing tool result" (tool.rs).
TotalIsMaximum ==
    \A agent \in Agents : \A context \in {AsContext(agent)} : \A k \in DOMAIN context :
        Bytes(context[k]) <= Policy.total

\* What the model sends is understood, and what it is shown fits its context.
ExchangeIsSound == SchemasAreEnough /\ ProjectionFits
=============================================================================
