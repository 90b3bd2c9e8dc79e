----------------------------- MODULE Extensions -----------------------------
(***************************************************************************)
(* The Tea extensions of the terminal host (tea-agent/src/app/tea.rs,      *)
(* host.rs, runtime.rs): the registry and the extension files the user     *)
(* keeps, the files tool with which a model drafts extensions, the load of *)
(* the registry while the agent is idle, and the policies a run asks       *)
(* before each tool call (tea-luau/src/policy).                            *)
(*                                                                         *)
(* A load reads one extension at a time; the user's editor may write       *)
(* between two reads.  A file is named by what it says: a manifest by a    *)
(* key of ManifestText, a Luau source by a key of PolicyText; any other    *)
(* text is Broken.                                                         *)
(***************************************************************************)
EXTENDS Naturals, FiniteSets, SequencesExt

CONSTANTS
    Dirs,         \* directories <home>/extensions may hold
    ManifestText, \* texts of a manifest.json, and what each declares
    PolicyText,   \* texts of a main.luau, and the declaration each returns
    RegistryText, \* texts of extensions.json, and the entries each lists
    BaseTools,    \* names of the host's own tools
    FirstPolicies,\* the main.luau texts a home may hold at first
    MaxEdits,     \* bound on the user's edits
    MaxRuns,      \* bound on the runs
    MaxCalls      \* bound on the tool calls of a run

Handbook == "tea_extension_handbook"
FilesTool == "tea_extension_files"
Reserved == {Handbook, FilesTool}
Broken == "broken"
Absent == "absent"
Link == "link"

ASSUME ExtensionAssumption ==
    /\ \A text \in DOMAIN RegistryText :
         RegistryText[text] \in Seq([name : STRING, path : Seq(STRING)])
    /\ \A text \in DOMAIN PolicyText : PolicyText[text].tools \in Seq(STRING)
    /\ FirstPolicies \subseteq DOMAIN PolicyText
    /\ BaseTools \cap Reserved = {}
    /\ {MaxEdits, MaxRuns, MaxCalls} \subseteq Nat
    /\ {Broken, Absent, Link} \cap (DOMAIN ManifestText \cup DOMAIN PolicyText
                                      \cup DOMAIN RegistryText) = {}

VARIABLES
    registry,   \* <home>/extensions.json
    top,        \* <home>/extensions: "absent", "dir", or a link out of the home
    dirs,       \* what is at <home>/extensions/<d>, and in it
    outside,    \* of each draft that was written behind a link, whether the user
                \* had edited since its path was looked at
    active,     \* AppRuntime.tea_extensions, the agent's configuration
    load,       \* the load in progress: the entries listed, those read
    phase,      \* "start", "starting", "idle", "running", "loading"; "down" when
                \* the first load failed
    run,        \* the configuration the run captured, its token, the calls left
    draft,      \* the draft that is being written
    reaped,     \* whether the host knows that the last run has settled
    answer,     \* the last tool call of the run, and how it was answered
    stale,      \* the user edited since the last load began
    edits, runs

vars == <<registry, top, dirs, outside, active, load, phase, run, draft, reaped, answer,
          stale, edits, runs>>
disk == <<registry, top, dirs, outside>>

NoLoad == [entries |-> <<>>, done |-> <<>>]
NoRun == [exts |-> <<>>, cancelled |-> FALSE, calls |-> 0]
NoDraft == [at |-> "none", dir |-> "none", leaf |-> "none", text |-> "none", raced |-> FALSE]
NoAnswer == [tool |-> "none", verdict |-> "allow", result |-> "none"]

-----------------------------------------------------------------------------
(* Reading files.                                                          *)

\* contained_path: no empty path, no `.' that begins it, no `..'.
Contained(path) == path # <<>> /\ ToSet(path) \cap {".", ".."} = {}

\* read_contained_file: a regular file, no link.
Readable(text) == text \notin {Absent, Link}

\* load_extension on the directory d, under the name the registry gives it.
Loads(d, name) ==
    LET manifest == dirs[d].manifest
        main == dirs[d].main
        declared == ManifestText[manifest]
    IN  /\ manifest \in DOMAIN ManifestText
        /\ declared.version = 1
        /\ declared.name \in {"none", name}
        /\ \A i \in DOMAIN declared.modules : declared.modules[i] = "main"
        /\ declared.modules # <<>> => Readable(main)
        /\ IsInjective(declared.capabilities)
        /\ IsInjective(declared.modules) /\ declared.entry \in ToSet(declared.modules)
        /\ main \in DOMAIN PolicyText /\ IsInjective(PolicyText[main].tools)

\* The root of a registry entry: a directory below the home, not a link.
RootLoads(path) ==
    /\ Contained(path)
    /\ \E d \in Dirs : path = <<"extensions", d>>
    /\ top = "dir" /\ dirs[path[2]].root = "dir"

EntryLoads(entry) == RootLoads(entry.path) /\ Loads(entry.path[2], entry.name)
Extension(entry) == [name |-> entry.name, policy |-> dirs[entry.path[2]].main]

\* registry_entries and the check for duplicate names.
Entries == IF registry = Absent THEN <<>> ELSE RegistryText[registry]
RegistryLoads ==
    \/ registry = Absent
    \/ /\ registry \in DOMAIN RegistryText
       /\ \A i, j \in DOMAIN Entries : Entries[i].name = Entries[j].name => i = j

-----------------------------------------------------------------------------
(* compose_tea_configuration.                                              *)

Policy(extension) == PolicyText[extension.policy]
Declared(exts) == FlattenSeq([i \in DOMAIN exts |-> Policy(exts[i]).tools])
\* Mutant: duplicates are looked for in each extension only.
Composes_Each(exts) ==
    /\ \A i \in DOMAIN exts : IsInjective(Policy(exts[i]).tools)
    /\ ToSet(Declared(exts)) \cap (BaseTools \cup Reserved) = {}


Composes(exts) ==
    IsInjective(Declared(exts)) /\ ToSet(Declared(exts)) \cap (BaseTools \cup Reserved) = {}

\* The chain of LuaPolicyHookSet: wrapped in reverse, the first extension is
\* the outermost, and each asks the next one only when its own policy allows.
Decision(extension, tool) ==
    IF Policy(extension).hook.on \in {"any", tool} THEN Policy(extension).hook.says ELSE "allow"

BeforeToolCall(exts, tool) ==
    LET Wrap(extension, inner) ==
            IF Decision(extension, tool) = "allow" THEN inner ELSE Decision(extension, tool)
    IN  FoldRight(Wrap, exts, "allow")

Tools(exts) == BaseTools \cup Reserved \cup ToSet(Declared(exts))

-----------------------------------------------------------------------------
(* load_tea_extensions, then replace_configuration.  A load that fails     *)
(* keeps the previous snapshot; at the start there is none, and the        *)
(* application does not come up.                                           *)

BeginLoad(fails) ==
    /\ stale' = FALSE
    /\ IF RegistryLoads
         THEN load' = [entries |-> Entries, done |-> <<>>] /\ phase' = fails.during
         ELSE load' = NoLoad /\ phase' = fails.after
Starting == [during |-> "starting", after |-> "down"]
Reloading == [during |-> "loading", after |-> "idle"]

\* assemble_agent.
StartUp ==
    /\ phase = "start"
    /\ BeginLoad(Starting)
    /\ UNCHANGED <<disk, active, run, draft, reaped, answer, edits, runs>>

Loading == phase \in {"starting", "loading"}
KeepSnapshot == load' = NoLoad /\ phase' = (IF phase = "starting" THEN "down" ELSE "idle")

LoadEntry ==
    /\ Loading
    /\ Len(load.done) < Len(load.entries)
    /\ LET entry == load.entries[Len(load.done) + 1]
       IN  IF EntryLoads(entry)
             THEN /\ load' = [load EXCEPT !.done = Append(@, Extension(entry))]
                  /\ phase' = phase
             ELSE KeepSnapshot
    /\ UNCHANGED <<disk, active, run, draft, reaped, answer, stale, edits, runs>>

Compose ==
    /\ Loading
    /\ Len(load.done) = Len(load.entries)
    /\ IF Composes(load.done)
         THEN active' = load.done /\ load' = NoLoad /\ phase' = "idle"
         ELSE active' = active /\ KeepSnapshot
    /\ UNCHANGED <<disk, run, draft, reaped, answer, stale, edits, runs>>


\* /reload-extensions: only while no run is active.
Reload ==
    /\ phase = "idle"
    /\ BeginLoad(Reloading)
    /\ UNCHANGED <<disk, active, run, draft, reaped, answer, edits, runs>>

-----------------------------------------------------------------------------
(* A run captures the configuration; when it has settled, on a thread of   *)
(* its own, the event loop reaps it and reloads.                           *)

\* submit_composer asks only whether the agent is idle: the result of a run
\* that was not reaped yet is forgotten, and its reload with it.
StartRun ==
    /\ phase = "idle" /\ runs < MaxRuns
    /\ phase' = "running" /\ runs' = runs + 1
    /\ run' = [exts |-> active, cancelled |-> FALSE, calls |-> MaxCalls]
    /\ reaped' = TRUE
    /\ UNCHANGED <<disk, active, load, draft, answer, stale, edits>>

Cancel ==
    /\ phase = "running" /\ ~run.cancelled
    /\ run' = [run EXCEPT !.cancelled = TRUE]
    /\ UNCHANGED <<disk, active, load, phase, draft, reaped, answer, stale, edits, runs>>

Settle ==
    /\ phase = "running" /\ draft = NoDraft
    /\ phase' = "idle" /\ reaped' = FALSE
    /\ run' = NoRun /\ answer' = NoAnswer
    /\ UNCHANGED <<disk, active, load, draft, stale, edits, runs>>

\* Mutant: a settled run does not reload.
Reap_NoReload ==
    /\ phase = "idle" /\ ~reaped
    /\ reaped' = TRUE
    /\ UNCHANGED <<disk, active, load, phase, run, draft, answer, stale, edits, runs>>

\* reap_task, reload_tea_extensions_after_settlement.
Reap ==
    /\ phase = "idle" /\ ~reaped
    /\ reaped' = TRUE
    /\ BeginLoad(Reloading)
    /\ UNCHANGED <<disk, active, run, draft, answer, edits, runs>>

-----------------------------------------------------------------------------
(* Tool calls.  The hooks are asked first; a call they do not allow ends   *)
(* there.                                                                  *)

Call(tool, result) ==
    /\ phase = "running" /\ run.calls > 0 /\ draft = NoDraft
    /\ run' = [run EXCEPT !.calls = @ - 1]
    /\ answer' = [tool |-> tool, verdict |-> BeforeToolCall(run.exts, tool),
                  result |-> IF BeforeToolCall(run.exts, tool) = "allow" THEN result ELSE "none"]
    /\ UNCHANGED <<registry, active, load, phase, reaped, stale, edits, runs>>
NothingWritten == UNCHANGED <<top, dirs, outside, draft>>

\* TeaDeclaredTool answers every call with an error: no binding is made.
\* The handbook and the host's own tools do not touch the home.
OtherCall ==
    \E tool \in Tools(run.exts) :
      /\ tool # FilesTool \/ BeforeToolCall(run.exts, tool) # "allow"
      /\ Call(tool, IF tool \in ToSet(Declared(run.exts)) THEN "unbound" ELSE "done")
      /\ NothingWritten

MayTouch == BeforeToolCall(run.exts, FilesTool) = "allow"

\* execute_now: the token first, then the lexical check of the path; "." is the
\* path of a call that names none.
Checked(path, result) ==
    IF run.cancelled THEN "cancelled" ELSE IF Contained(path) THEN result ELSE "invalid"

\* resolve_existing follows links and then requires the target to be below
\* the extensions root.
Resolved(path, result) ==
    CASE top = Absent \/ dirs[path[1]].root = Absent -> "io"
      [] dirs[path[1]].root = Link -> "blocked"
      [] OTHER -> result
ResolvedFile(d, text, result) ==
    Resolved(<<d>>, CASE dirs[d].root # "dir" \/ text = Absent -> "io"
                      [] text = Link -> "blocked"
                      [] OTHER -> result)

DirPaths == {<<".">>, <<"..">>} \cup {<<d>> : d \in Dirs}
Directory(path, result) ==
    Checked(path, Resolved(path, IF dirs[path[1]].root = "dir" THEN result ELSE "not a directory"))

\* list: collect_files skips links.
ListFiles ==
    \E path \in DirPaths :
      /\ MayTouch /\ Call(FilesTool, Directory(path, "listed"))
      /\ NothingWritten

Leaves == {"manifest", "main"}
ReadFile ==
    \E d \in Dirs, leaf \in Leaves :
      /\ MayTouch
      /\ Call(FilesTool, Checked(<<d, leaf>>, ResolvedFile(d, dirs[d][leaf], "read")))
      /\ NothingWritten

\* validate loads the draft as the extension of that name; it activates nothing.
Validate ==
    \E path \in DirPaths :
      /\ MayTouch
      /\ Call(FilesTool,
              Directory(path, IF Loads(path[1], path[1]) THEN "valid" ELSE "does not load"))
      /\ NothingWritten

\* Mutant: only the leaf is checked.
Refusal_LeafOnly(d, leaf) ==
    CASE run.cancelled -> "cancelled"
      [] leaf # "root" /\ dirs[d].root = "file" -> "io"
      [] OTHER -> "none"

\* resolve_for_write and create_draft_parent: no directory of the path may be a
\* link.  A draft beside the extensions is a file named as one: leaf "root".
Refusal(d, leaf) ==
    CASE run.cancelled -> "cancelled"
      [] top = Link \/ (leaf # "root" /\ dirs[d].root = Link) -> "blocked"
      [] leaf # "root" /\ dirs[d].root = "file" -> "io"
      [] OTHER -> "none"

\* write_draft.  The directories of the path are looked at, and those that miss
\* are made; then the leaf is looked at; then it is written.  The user's editor
\* does not wait.
BeginDraft ==
    \E d \in Dirs, leaf \in Leaves \cup {"root"} :
    \E text \in (IF leaf = "main" THEN FirstPolicies ELSE DOMAIN ManifestText) :
      /\ MayTouch
      /\ IF Refusal(d, leaf) # "none"
           THEN Call(FilesTool, Refusal(d, leaf)) /\ NothingWritten
           ELSE /\ Call(FilesTool, "drafting")
                /\ top' = IF top = Absent THEN "dir" ELSE top
                /\ dirs' = IF leaf # "root" /\ dirs[d].root = Absent
                           THEN [dirs EXCEPT ![d].root = "dir"] ELSE dirs
                /\ draft' = [at |-> "leaf", dir |-> d, leaf |-> leaf, text |-> text,
                             raced |-> FALSE]
                /\ outside' = outside

\* The registry is refused before anything is looked at.
DraftRegistry ==
    /\ MayTouch
    /\ Call(FilesTool, IF run.cancelled THEN "cancelled" ELSE "blocked")
    /\ NothingWritten

EndDraft(result) ==
    /\ draft' = NoDraft
    /\ answer' = [answer EXCEPT !.result = result]

CheckLeaf ==
    /\ draft.at = "leaf"
    /\ IF dirs[draft.dir][draft.leaf] = Link
         THEN EndDraft("blocked")
         ELSE draft' = [draft EXCEPT !.at = "write"] /\ answer' = answer
    /\ UNCHANGED <<disk, active, load, phase, run, reaped, stale, edits, runs>>

\* What fs::write finds at the end of the path: it follows links, and it needs
\* the directory to be there and the file not to be one.
Behind(d, leaf) == Link \in {top, dirs[d].root, dirs[d][leaf]}
Writable(d, leaf) ==
    IF leaf = "root" THEN dirs[d].root # "dir" ELSE dirs[d].root \in {"dir", Link}

\* fs::write truncates before it writes: a write that fails leaves no text.
WriteLeaf ==
    /\ draft.at = "write"
    /\ LET d == draft.dir
           leaf == draft.leaf
       IN  \E full \in {Writable(d, leaf), FALSE} :
             /\ EndDraft(IF full THEN "written" ELSE "io")
             /\ outside' = IF Writable(d, leaf) /\ Behind(d, leaf)
                           THEN outside \cup {draft.raced} ELSE outside
             /\ dirs' = IF ~Writable(d, leaf) \/ Link \in {dirs[d].root, dirs[d][leaf]}
                        THEN dirs
                        ELSE [dirs EXCEPT ![d][leaf] = IF leaf = "root" THEN "file"
                                                       ELSE IF full THEN draft.text ELSE Broken]
    /\ UNCHANGED <<registry, top, active, load, phase, run, reaped, stale, edits, runs>>

-----------------------------------------------------------------------------
(* The user's editor, at any moment.                                       *)

Gone == [root |-> Absent, manifest |-> Absent, main |-> Absent]

EditRegistry(text) ==
    registry' = text /\ UNCHANGED <<top, dirs>>

EditFile(d, leaf, text) ==
    /\ top = "dir" /\ dirs[d].root = "dir"
    /\ dirs' = [dirs EXCEPT ![d][leaf] = text] /\ UNCHANGED <<registry, top>>

MoveDir(d, at) ==
    /\ top = "dir"
    /\ dirs' = [dirs EXCEPT ![d] = at] /\ UNCHANGED <<registry, top>>

MoveTop ==
    top = "dir" /\ top' = Link /\ UNCHANGED <<registry, dirs>>

UserEdits ==
    /\ edits < MaxEdits /\ edits' = edits + 1
    /\ phase # "down" /\ stale' = TRUE
    /\ \/ \E text \in DOMAIN RegistryText \cup {Absent, Link, Broken} : EditRegistry(text)
       \/ \E d \in Dirs, text \in FirstPolicies \cup {Absent, Link, Broken} :
            EditFile(d, "main", text)
       \/ \E d \in Dirs, text \in DOMAIN ManifestText \cup {Absent, Link, Broken} :
            EditFile(d, "manifest", text)
       \/ \E d \in Dirs, at \in {Gone, [Gone EXCEPT !.root = Link]} : MoveDir(d, at)
       \/ MoveTop
    /\ draft' = IF draft = NoDraft THEN draft ELSE [draft EXCEPT !.raced = TRUE]
    /\ UNCHANGED <<outside, active, load, phase, run, reaped, answer, runs>>

-----------------------------------------------------------------------------
Init ==
    /\ registry \in DOMAIN RegistryText \cup {Absent}
    /\ \/ top = Absent /\ dirs = [d \in Dirs |-> Gone]
       \/ /\ top = "dir"
          /\ \E mains \in [Dirs -> FirstPolicies], manifest \in DOMAIN ManifestText :
               /\ ManifestText[manifest].version = 1 /\ ManifestText[manifest].name = "none"
               /\ dirs = [d \in Dirs |-> [root |-> "dir", manifest |-> manifest, main |-> mains[d]]]
    /\ outside = {} /\ draft = NoDraft /\ reaped = TRUE
    /\ active = <<>> /\ load = NoLoad /\ phase = "start"
    /\ run = NoRun /\ answer = NoAnswer /\ stale = FALSE /\ edits = 0 /\ runs = 0

Next ==
    \/ StartUp \/ LoadEntry \/ Compose \/ Reload
    \/ StartRun \/ Cancel \/ Settle \/ Reap
    \/ OtherCall \/ ListFiles \/ ReadFile \/ Validate
    \/ BeginDraft \/ DraftRegistry \/ CheckLeaf \/ WriteLeaf
    \/ UserEdits

Spec == Init /\ [][Next]_vars

-----------------------------------------------------------------------------
(* Properties.                                                             *)

\* create_draft_parent: no link is followed that was on the path of a draft when
\* it was looked at; the drafts of a model leave the extensions directory only
\* behind a link that the user puts there between the look and the write.
DraftsStayInside == FALSE \notin outside

\* The first extension of the registry whose policy does not allow a call
\* decides it (docs/luau-extensions.md, "Extension composition").
FirstDenialDecides ==
    (phase = "running" /\ answer.tool # "none") =>
      LET denials == {i \in DOMAIN run.exts : Decision(run.exts[i], answer.tool) # "allow"}
      IN  answer.verdict = IF denials = {} THEN "allow"
                           ELSE Decision(run.exts[CHOOSE i \in denials :
                                          \A j \in denials : i <= j], answer.tool)

\* Extensions and the model's drafts stay within what the host guards.
RunsAreGuarded == DraftsStayInside /\ FirstDenialDecides

\* What the registry and the files say, as one snapshot.
Candidate == [i \in DOMAIN Entries |-> Extension(Entries[i])]
Accepted ==
    /\ RegistryLoads /\ \A i \in DOMAIN Entries : EntryLoads(Entries[i])
    /\ Composes(Candidate)

\* The snapshot is that of the disk: once the host is idle and has reaped the
\* last run, and unless the user edited since the load began, a registry that
\* loads is the one in force, the drafts of every run so far included, though it
\* was read one file at a time.
SnapshotIsFresh == (phase = "idle" /\ reaped /\ ~stale /\ Accepted) => active = Candidate

\* "A registered extension reloads after the current run settles" (the answer to
\* write_draft): the next run starts with what the disk says.
NextRunIsFresh ==
    [][(run = NoRun /\ run' # NoRun /\ ~stale /\ Accepted) => run'.exts = Candidate]_vars

\* A snapshot is replaced as a whole: only by one entry for each of the
\* registry that was read, in its order, under names of their own; a load that
\* fails at any entry keeps the previous one.
ReplacedWhole ==
    [][active' # active =>
         /\ Loading /\ ~(\E i, j \in DOMAIN active' : i # j /\ active'[i].name = active'[j].name)
         /\ [i \in DOMAIN active' |-> active'[i].name]
              = [i \in DOMAIN load.entries |-> load.entries[i].name]
         /\ \A i, j \in DOMAIN active' :
              i # j => ToSet(Policy(active'[i]).tools) \cap ToSet(Policy(active'[j]).tools) = {}]_vars

\* A run keeps the prompt, the tools and the hooks it started with, and so does
\* the host, whatever the run drafts and the user edits or asks for meanwhile.
RunKeepsSnapshot ==
    [][(run # NoRun /\ run' # NoRun) => run'.exts = run.exts /\ run.exts = active']_vars

\* A snapshot is replaced as a whole, and between runs only.
SnapshotsAreWhole == ReplacedWhole /\ RunKeepsSnapshot

=============================================================================
