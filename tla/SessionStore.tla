---------------------------- MODULE SessionStore ----------------------------
(***************************************************************************)
(* The files tea-agent keeps under its home: one JSONL file per session    *)
(* (app/session.rs) and the last selected model (app/preferences.rs).      *)
(* Several terminals, each a process that may die at any step, share the   *)
(* directory.  A write goes to a temporary file that is then renamed.  A   *)
(* process that has a file open goes on writing to it under whatever name  *)
(* it has by then, so fd follows renames.                                  *)
(*                                                                         *)
(* A file is the sequence of its lines.  Of a message the model keeps what *)
(* the encoding treats differently; texts, timestamps and usage numbers    *)
(* are carried through unchanged.                                          *)
(***************************************************************************)
EXTENDS Naturals, FiniteSets, SequencesExt

CONSTANTS
    Processes,      \* terminals
    Ids,            \* session identifiers
    Models,         \* provider/model pairs
    Thinking,       \* the thinking level the terminals were started with
    Exchanges,      \* what one run can add to a conversation
    Imported,       \* contents of files that other programs left behind
    FirstId,        \* FirstId[p]: NEXT_ID of p when it makes its first session
    MaxLines,       \* MAX_SESSION_BYTES, counted in lines
    MaxMessages,    \* bound: messages of one conversation
    LastId,         \* LastId[p]: bound on the numbers it takes from NEXT_ID
    Cuts,           \* how many lines an unfinished write may leave whole
    FirstChoice,    \* FirstChoice[p]: NEXT_TEMPORARY of p when it starts
    LastChoice,     \* LastChoice[p]: bound on the numbers it takes from it
    MaxFaults,      \* MaxFaults[p]: bound on the faults p meets
    Faults          \* subset of {"open", "write", "chmod", "rename", "crash"}

ASSUME BoundsAssumption ==
    /\ MaxLines \in Nat /\ MaxMessages \in Nat /\ Cuts \subseteq Nat
    /\ MaxFaults \in [Processes -> Nat]
    /\ FirstId \in [Processes -> Nat] /\ LastId \in [Processes -> Nat]
    /\ FirstChoice \in [Processes -> Nat] /\ LastChoice \in [Processes -> Nat]

VARIABLES
    directory,      \* the session directory: "missing", "real" or "symlink"
    file,           \* the files that exist: file[n] is the lines of the file n
    fd,             \* fd[p]: the name of the file a process has open
    pc,             \* where a process is
    job,            \* the file a process is writing
    record,         \* the SessionRecord a process works on
    next,           \* NEXT_ID of a process
    choices,        \* NEXT_TEMPORARY of a process
    listed,         \* the sessions its picker shows
    faults          \* faults a process has met

disk == <<directory, file, fd>>
vars == <<directory, file, fd, pc, job, record, next, choices, listed, faults>>

NoModel == "none"
NoRecord == [id |-> "none", model |-> NoModel, thinking |-> "off", messages |-> <<>>]
NoJob == [kind |-> "none", lines |-> <<>>, to |-> <<"none">>, temp |-> <<"none">>]

\* Names in the home: a session file is named after its id, or was put there
\* by another program; temporary files carry a process-local number.
SessionNames == {<<kind, i>> : kind \in {"tea", "pi"}, i \in Ids}
Preference == <<"last-model">>
Temporary(kind, n) == <<kind, n>>
Numbers == (UNION {FirstId[p] .. LastId[p] : p \in Processes})
           \cup (UNION {FirstChoice[p] .. LastChoice[p] : p \in Processes})
TemporaryNames == {Temporary(kind, n) : kind \in {"session", "model"}, n \in Numbers}
Readable == SessionNames \cup {Preference}
Names == Readable \cup TemporaryNames

Closed == <<"closed">>
Unlinked == <<"unlinked">>      \* open, but no name refers to it any more

-----------------------------------------------------------------------------
(* The encoding: what a message becomes on disk and what is read back. *)

\* parse_or_string, then to_json_string: text that is not JSON becomes a JSON
\* string, other text its canonical form.
ParseOrString ==
    [object |-> "Object", spaced |-> "Object", bare |-> "String",
     quoted |-> "String", null |-> "Null"]
ToJson == [Object |-> "object", String |-> "quoted", Null |-> "null"]

\* A response that never got a stop reason is written as one that stopped.
StopName ==
    [None |-> "stop", Stop |-> "stop", ToolUse |-> "toolUse", Length |-> "length",
     Aborted |-> "aborted", Cancelled |-> "cancelled", Error |-> "error"]
ParseStop ==
    [stop |-> "Stop", toolUse |-> "ToolUse", tool_use |-> "ToolUse", length |-> "Length",
     aborted |-> "Aborted", cancelled |-> "Cancelled", error |-> "Error",
     pending |-> "Stop", deferred |-> "Stop"]

\* Usage and details are optional: a sequence of at most one value.  Reasoning
\* tokens are not written; details that are the text null are read as absent.
EncodeUsage(u) == [i \in DOMAIN u |-> [input |-> u[i].input]]
DecodeUsage(u) == [i \in DOMAIN u |-> [input |-> u[i].input, reasoning |-> 0]]
EncodeDetails(d) == IF d = <<>> THEN "Null" ELSE ParseOrString[d[1]]
DecodeDetails(d) == IF d = "Null" THEN <<>> ELSE <<ToJson[d]>>

EncodeCalls(calls) ==
    [i \in DOMAIN calls |->
       [id |-> calls[i].id, arguments |-> ParseOrString[calls[i].arguments]]]
DecodeCalls(calls) ==
    [i \in DOMAIN calls |-> [id |-> calls[i].id, arguments |-> ToJson[calls[i].arguments]]]

EncodeMessage(m, model) ==
    CASE m.role = "user" -> m
      [] m.role = "assistant" ->
            [role |-> "assistant", text |-> m.text, calls |-> EncodeCalls(m.calls),
             model |-> model, stop |-> StopName[m.stop]]
      [] m.role = "toolResult" ->
            [role |-> "toolResult", call |-> m.call, isError |-> m.isError,
             details |-> EncodeDetails(m.details), usage |-> EncodeUsage(m.usage)]

EncodeFile(r) ==
    <<[type |-> "session", id |-> r.id, model |-> NoModel]>>
    \o (IF r.model = NoModel THEN <<>>
        ELSE <<[type |-> "model_change", model |-> r.model]>>)
    \o <<[type |-> "thinking_level_change", level |-> r.thinking]>>
    \o [i \in DOMAIN r.messages |->
          [type |-> "message", message |-> EncodeMessage(r.messages[i], r.model)]]

\* Whether a tool asked to end the run, and how it failed, is not written.
DecodeMessage(m) ==
    CASE m.role = "user" -> m
      [] m.role = "assistant" ->
            [role |-> "assistant", text |-> m.text, calls |-> DecodeCalls(m.calls),
             stop |-> ParseStop[m.stop]]
      [] m.role = "toolResult" ->
            [role |-> "toolResult", call |-> m.call, isError |-> m.isError,
             details |-> DecodeDetails(m.details), usage |-> DecodeUsage(m.usage),
             terminate |-> FALSE, failure |-> "none"]

\* decode_file fails on a file that is too large, has no session header, or
\* has a line that is JSON but no entry, or an entry with an unknown stop
\* reason.  Lines that are not JSON, and entries of other types, are skipped.
Decodable(lines) ==
    /\ Len(lines) \in 1 .. MaxLines
    /\ lines[1].type = "session"
    /\ \A i \in 2 .. Len(lines) :
         /\ lines[i].type # "invalid"
         /\ lines[i].type = "message" /\ lines[i].message.role = "assistant" =>
                lines[i].message.stop \in DOMAIN ParseStop

Entries(lines, type) == {i \in DOMAIN lines : lines[i].type = type}

\* read[n]: the messages of the first n lines.
MessagesIn(lines) ==
    LET read[n \in 0 .. Len(lines)] ==
          IF n = 0 THEN <<>>
          ELSE IF lines[n].type = "message"
               THEN Append(read[n - 1], DecodeMessage(lines[n].message))
          ELSE read[n - 1]
    IN  read[Len(lines)]

\* The last model_change decides; without one the header, and without that the
\* first assistant message that names a model.
ModelIn(lines) ==
    LET changes == Entries(lines, "model_change")
        named == {i \in Entries(lines, "message") : /\ lines[i].message.role = "assistant"
                                                    /\ lines[i].message.model # NoModel}
    IN  IF changes # {} THEN lines[Max(changes)].model
        ELSE IF lines[1].model # NoModel THEN lines[1].model
        ELSE IF named # {} THEN lines[Min(named)].message.model
        ELSE NoModel

ThinkingIn(lines) ==
    LET changes == Entries(lines, "thinking_level_change")
    IN  IF changes = {} THEN "off" ELSE lines[Max(changes)].level

DecodeFile(lines) ==
    [id |-> lines[1].id, model |-> ModelIn(lines), thinking |-> ThinkingIn(lines),
     messages |-> MessagesIn(lines)]

\* AgentMessage, and what another program may leave on a line.
IsMessage(m) ==
    /\ m.role \in {"user", "assistant", "toolResult"}
    /\ m.role = "assistant" =>
         /\ m.stop \in DOMAIN StopName
         /\ \A i \in DOMAIN m.calls : m.calls[i].arguments \in DOMAIN ParseOrString
    /\ m.role = "toolResult" => m.details \in {<<>>} \cup {<<d>> : d \in DOMAIN ParseOrString}
IsEntry(l) ==
    l.type = "message" =>
        /\ l.message.role \in {"user", "assistant", "toolResult"}
        /\ l.message.role = "assistant" =>
             \A i \in DOMAIN l.message.calls : l.message.calls[i].arguments \in DOMAIN ToJson
        /\ l.message.role = "toolResult" => l.message.details \in DOMAIN ToJson

ASSUME ContentsAssumption ==
    /\ NoRecord.id \notin Ids
    /\ \A x \in Exchanges : x \in Seq(Range(x)) /\ \A m \in Range(x) : IsMessage(m)
    /\ \A x \in Imported : x \in Seq(Range(x)) /\ \A l \in Range(x) : IsEntry(l)

-----------------------------------------------------------------------------
(* Looking into the directory. *)

Exists(n) == n \in DOMAIN file

\* The files after the lines of one were written.
With(n, lines) == [m \in DOMAIN file \cup {n} |-> IF m = n THEN lines ELSE file[m]]

\* Mutant: the file is looked for under its own name.
Found_OwnName(i) ==
    {n \in DOMAIN file : n = <<"tea", i>> /\ Decodable(file[n]) /\ file[n][1].id = i}

\* find_path: the files whose header carries the id, whatever their names.
Found(i) ==
    IF directory = "missing" THEN {}
    ELSE {n \in DOMAIN file : /\ n \in SessionNames
                              /\ Decodable(file[n])
                              /\ file[n][1].id = i}

\* list: the files that decode.
Listable ==
    IF directory = "missing" THEN {}
    ELSE {file[n][1].id : n \in {n \in DOMAIN file : n \in SessionNames /\ Decodable(file[n])}}

Known == {record[p].id : p \in Processes} \cup Listable

-----------------------------------------------------------------------------
(* One terminal. *)

At(p, label) == pc[p] = label
GoTo(p, label) == pc' = [pc EXCEPT ![p] = label]

\* The session a terminal begins: a new identifier (a time and the next number;
\* no two processes make one in the same millisecond with the same number) and
\* the model it was started with.
BeginSession(p, model) ==
    \E i \in Ids \ Known :
        /\ record' = [record EXCEPT ![p] =
                       [id |-> i, model |-> model, thinking |-> Thinking, messages |-> <<>>]]
        /\ next' = [next EXCEPT ![p] = @ + 1]

\* load_last_model: an unreadable preference is reported and ignored.
LastModel ==
    IF Exists(Preference) /\ Len(file[Preference]) = 1
                          /\ file[Preference][1].type = "model"
    THEN file[Preference][1].model
    ELSE NoModel

Start(p) ==
    /\ At(p, "down")
    /\ BeginSession(p, LastModel)
    /\ GoTo(p, "idle")
    /\ UNCHANGED <<disk, job, choices, listed, faults>>

\* A run that settled adds an exchange.
Converse(p) ==
    /\ At(p, "idle")
    /\ \E x \in Exchanges :
         /\ Len(record[p].messages) + Len(x) <= MaxMessages
         /\ record' = [record EXCEPT ![p].messages = @ \o x]
    /\ UNCHANGED <<disk, pc, job, next, choices, listed, faults>>

NewSession(p) ==
    /\ At(p, "idle")
    /\ next[p] < LastId[p]
    /\ BeginSession(p, record[p].model)
    /\ UNCHANGED <<disk, pc, job, choices, listed, faults>>

\* select_model: the session names the model, and save_last_model writes it.
SelectModel(p, model) ==
    /\ At(p, "idle")
    /\ choices[p] <= LastChoice[p]
    /\ record' = [record EXCEPT ![p].model = model]
    /\ job' = [job EXCEPT ![p] =
                 [kind |-> "model", to |-> Preference,
                  temp |-> Temporary("model", choices[p]),
                  lines |-> <<[type |-> "model", model |-> model]>>]]
    /\ choices' = [choices EXCEPT ![p] = @ + 1]
    /\ GoTo(p, "open")
    /\ UNCHANGED <<disk, next, listed, faults>>

\* persist_session saves what is not empty; save up to the choice of the
\* temporary name.  Every line but the header takes a number, and so does the
\* temporary file.
Save(p) ==
    LET lines == EncodeFile(record[p])
        number == next[p] + Len(lines) - 1
        places == IF Found(record[p].id) = {} THEN {<<"tea", record[p].id>>}
                  ELSE Found(record[p].id)
    IN  /\ At(p, "idle")
        /\ record[p].messages # <<>>
        /\ number \in FirstId[p] .. LastId[p] - 1
        /\ directory # "symlink"
        /\ directory' = "real"
        /\ IF Len(lines) > MaxLines
           THEN /\ next' = [next EXCEPT ![p] = number]
                /\ UNCHANGED <<pc, job>>
           ELSE /\ next' = [next EXCEPT ![p] = number + 1]
                /\ GoTo(p, "open")
                /\ \E n \in places :
                     job' = [job EXCEPT ![p] =
                               [kind |-> "session", to |-> n,
                                temp |-> Temporary("session", number), lines |-> lines]]
        /\ UNCHANGED <<file, fd, record, choices, listed, faults>>

-----------------------------------------------------------------------------
(* fs::write, set_private_file and fs::rename, one system call at a time. *)

Fail(p, kind) ==
    /\ kind \in Faults
    /\ faults[p] < MaxFaults[p]
    /\ faults' = [faults EXCEPT ![p] = @ + 1]

GiveUp(p) ==
    /\ GoTo(p, "idle")
    /\ job' = [job EXCEPT ![p] = NoJob]

\* Mutant: the session file itself is opened.
OpenTemporary_InPlace(p) ==
    /\ At(p, "open")
    /\ file' = With(job[p].to, <<>>)
    /\ fd' = [fd EXCEPT ![p] = job[p].to]
    /\ GoTo(p, "write")
    /\ UNCHANGED <<directory, job, record, next, choices, listed, faults>>

\* Creates the temporary file or truncates the one that is there.
OpenTemporary(p) ==
    /\ At(p, "open")
    /\ \/ /\ file' = With(job[p].temp, <<>>)
          /\ fd' = [fd EXCEPT ![p] = job[p].temp]
          /\ GoTo(p, "write")
          /\ UNCHANGED <<job, faults>>
       \/ /\ Fail(p, "open")
          /\ GiveUp(p)
          /\ UNCHANGED <<file, fd>>
    /\ UNCHANGED <<directory, record, next, choices, listed>>

Malformed == [type |-> "malformed"]

\* The lines of a write that was cut short.
Torn(lines) ==
    {Append(SubSeq(lines, 1, k), Malformed) : k \in {k \in Cuts : k < Len(lines)}}

\* Writing from the start of the file; what another process wrote beyond stays.
Overwrite(old, lines) ==
    IF old = <<>> \/ Len(old) <= Len(lines) THEN lines
    ELSE lines \o <<Malformed>> \o SubSeq(old, Len(lines) + 2, Len(old))

PutThrough(p, lines) ==
    file' = IF fd[p] = Unlinked THEN file ELSE With(fd[p], lines)
Close(p) == fd' = [fd EXCEPT ![p] = Closed]

\* Mutant: the error of the write is dropped.
WriteTemporary_Unchecked(p) ==
    /\ At(p, "write")
    /\ Close(p)
    /\ \/ PutThrough(p, job[p].lines) /\ UNCHANGED faults
       \/ /\ Fail(p, "write")
          /\ \E cut \in Torn(job[p].lines) : PutThrough(p, cut)
    /\ GoTo(p, "publish")
    /\ UNCHANGED <<directory, job, record, next, choices, listed>>

WriteTemporary(p) ==
    /\ At(p, "write")
    /\ Close(p)
    /\ \/ /\ PutThrough(p, IF fd[p] = Unlinked THEN <<>>
                           ELSE Overwrite(file[fd[p]], job[p].lines))
          /\ GoTo(p, "publish")
          /\ UNCHANGED <<job, faults>>
       \/ /\ Fail(p, "write")
          /\ \E cut \in Torn(job[p].lines) : PutThrough(p, cut)
          /\ GiveUp(p)
    /\ UNCHANGED <<directory, record, next, choices, listed>>

\* fs::remove_file and fs::rename, for whoever has the files open.
RemoveFile(n) ==
    /\ file' = Restrict(file, DOMAIN file \ {n})
    /\ fd' = [q \in Processes |-> IF fd[q] = n THEN Unlinked ELSE fd[q]]
RenameFile(n, to) ==
    /\ file' = [m \in (DOMAIN file \ {n}) \cup {to} |-> file[IF m = to THEN n ELSE m]]
    /\ fd' = [q \in Processes |-> IF fd[q] = n THEN to
                                  ELSE IF fd[q] = to THEN Unlinked ELSE fd[q]]

\* set_private_file and fs::rename; both fail when the temporary is not there,
\* and whichever fails, the temporary is removed.
Publish(p) ==
    /\ At(p, "publish")
    /\ GiveUp(p)
    /\ \/ /\ Exists(job[p].temp)
          /\ RenameFile(job[p].temp, job[p].to)
          /\ UNCHANGED faults
       \/ /\ \/ Fail(p, "chmod") \/ Fail(p, "rename")
             \/ ~Exists(job[p].temp) /\ UNCHANGED faults
          /\ RemoveFile(job[p].temp)
    /\ UNCHANGED <<directory, record, next, choices, listed>>

-----------------------------------------------------------------------------
(* The picker. *)

List(p) ==
    /\ At(p, "idle")
    /\ listed' = [listed EXCEPT ![p] = Listable]
    /\ GoTo(p, IF Listable = {} THEN "idle" ELSE "picking")
    /\ UNCHANGED <<disk, job, record, next, choices, faults>>

ClosePicker(p) ==
    /\ At(p, "picking")
    /\ listed' = [listed EXCEPT ![p] = {}]
    /\ GoTo(p, "idle")
    /\ UNCHANGED <<disk, job, record, next, choices, faults>>

\* load: find_path, then decode_file on what it found.
Load(p) ==
    /\ At(p, "picking")
    /\ \E i \in listed[p] : \E n \in Found(i) :
         record' = [record EXCEPT ![p] = DecodeFile(file[n])]
    /\ listed' = [listed EXCEPT ![p] = {}]
    /\ GoTo(p, "idle")
    /\ UNCHANGED <<disk, job, next, choices, faults>>

\* The process dies wherever it is; an unfinished write leaves what reached
\* the disk.
Crash(p) ==
    /\ ~At(p, "down")
    /\ Fail(p, "crash")
    /\ \/ UNCHANGED file
       \/ /\ At(p, "write")
          /\ \E cut \in Torn(job[p].lines) : PutThrough(p, cut)
    /\ Close(p)
    /\ GoTo(p, "down")
    /\ job' = [job EXCEPT ![p] = NoJob]
    /\ record' = [record EXCEPT ![p] = NoRecord]
    /\ next' = [next EXCEPT ![p] = FirstId[p]]
    /\ choices' = [choices EXCEPT ![p] = FirstChoice[p]]
    /\ listed' = [listed EXCEPT ![p] = {}]
    /\ UNCHANGED directory

-----------------------------------------------------------------------------
\* At most one file of another program: no file yet, or a directory that is
\* there, real or a link.
Init ==
    /\ \/ /\ directory \in {"missing", "real", "symlink"}
          /\ file = <<>>
       \/ /\ directory = "real"
          /\ \E i \in Ids, lines \in Imported :
               file = [n \in {<<"pi", i>>} |->
                         <<[type |-> "session", id |-> i, model |-> NoModel]>> \o lines]
    /\ fd = [p \in Processes |-> Closed]
    /\ pc = [p \in Processes |-> "down"]
    /\ job = [p \in Processes |-> NoJob]
    /\ record = [p \in Processes |-> NoRecord]
    /\ next = FirstId
    /\ choices = FirstChoice
    /\ listed = [p \in Processes |-> {}]
    /\ faults = [p \in Processes |-> 0]

Step(p) ==
    \/ Start(p) \/ Converse(p) \/ NewSession(p) \/ Save(p)
    \/ \E model \in Models : SelectModel(p, model)
    \/ OpenTemporary(p) \/ WriteTemporary(p) \/ Publish(p)
    \/ List(p) \/ ClosePicker(p) \/ Load(p) \/ Crash(p)

Next == \E p \in Processes : Step(p)

Spec == Init /\ [][Next]_vars

-----------------------------------------------------------------------------
TypeOK ==
    /\ directory \in {"missing", "real", "symlink"}
    /\ DOMAIN file \subseteq Names
    /\ fd \in [Processes -> Names \cup {Closed, Unlinked}]
    /\ pc \in [Processes -> {"down", "idle", "open", "write", "publish", "picking"}]
    /\ \A p \in Processes :
         /\ fd[p] = Closed <=> ~At(p, "write")
         /\ record[p].id \in Ids \cup {"none"}
         /\ next[p] \in Nat /\ choices[p] \in Nat
         /\ listed[p] \subseteq Ids

\* What the next request to the provider carries of a message: of a failed tool
\* call also how it failed, which without a ToolFailure reads "recoverable".
Status(m) ==
    IF ~m.isError THEN "none" ELSE IF m.failure = "none" THEN "recoverable" ELSE m.failure
Sent(m) ==
    CASE m.role = "user" -> m
      [] m.role = "assistant" -> [role |-> "assistant", text |-> m.text, calls |-> m.calls]
      [] m.role = "toolResult" ->
            [role |-> "toolResult", call |-> m.call, isError |-> m.isError,
             status |-> Status(m), details |-> m.details]

\* What the format keeps of it: that a call failed and not how, and JSON up to
\* its form, with text that is not JSON as a string and null details as none.
Kept(m) ==
    CASE m.role = "user" -> m
      [] m.role = "assistant" ->
            [role |-> "assistant", text |-> m.text, calls |-> EncodeCalls(m.calls)]
      [] m.role = "toolResult" ->
            [role |-> "toolResult", call |-> m.call, isError |-> m.isError,
             details |-> DecodeDetails(EncodeDetails(m.details))]

Conversation(r) ==
    [id |-> r.id, model |-> r.model, thinking |-> r.thinking,
     messages |-> [i \in DOMAIN r.messages |-> Kept(r.messages[i])]]
Context(r) ==
    [Conversation(r) EXCEPT !.messages = [i \in DOMAIN r.messages |-> Sent(r.messages[i])]]

Nothing == Conversation(NoRecord)
Stored(i) ==
    LET readable == {DecodeFile(lines) : lines \in {file[n] : n \in Found(i)}}
    IN  IF Found(i) = {} THEN Nothing
        ELSE CHOOSE c \in {Conversation(r) : r \in readable} : TRUE

Durable == INSTANCE DurableSessions WITH
    Nothing <- Nothing,
    store <- [i \in Ids |-> Stored(i)],
    working <- [p \in Processes |-> Conversation(record[p])]

\* Whatever fails and whenever a terminal dies, a session on disk only ever
\* changes from one complete conversation to another that a terminal held, and
\* opening it gives that conversation as far as the format keeps it.
Promised == Durable!Spec

\* "writes canonical user, assistant, and tool-result payloads without
\* redaction because redacting them would change resumed model context"
\* (docs/tui.md:88): what is being saved gives, when it is opened, the context
\* that the terminal saving it would have sent.
ContextKept ==
    \A p \in Processes :
        job[p].kind = "session" =>
            Context(DecodeFile(job[p].lines)) = Context(record[p])

\* A session the picker showed can be found when it is chosen.
ListedIsFound ==
    \A p \in Processes : \A i \in listed[p] : Found(i) # {}

\* One file per session: find_path has one answer, whatever the name of the
\* file that carries the identifier.
OneFile == \A i \in Ids : Cardinality(Found(i)) <= 1

\* A session is found under its identifier, and once.
Findable == TypeOK /\ ListedIsFound /\ OneFile

\* A file that can be read changes only when a finished temporary takes its
\* place: it then has all the lines of the save that wrote them, and no step,
\* crash or failure removes it.
ReplacedWhole ==
    [][\A n \in Readable :
         \/ n \notin DOMAIN file \cup DOMAIN file'
         \/ n \in DOMAIN file /\ n \in DOMAIN file' /\ file'[n] = file[n]
         \/ /\ n \in DOMAIN file'
            /\ \E p \in Processes : At(p, "publish") /\ job[p].to = n
                                      /\ file'[n] = job[p].lines]_vars

\* No two processes ever take the same number.
NumbersApart ==
    \A p, q \in Processes : p # q =>
        /\ (FirstId[p] .. LastId[p]) \cap (FirstId[q] .. LastId[q]) = {}
        /\ (FirstChoice[p] .. LastChoice[p]) \cap (FirstChoice[q] .. LastChoice[q]) = {}
=============================================================================
