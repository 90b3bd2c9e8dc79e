---------------------------- MODULE TerminalInput ----------------------------
(***************************************************************************)
(* The bytes of the terminal, decoded into events and handled by the       *)
(* prompt (src/crates/tea-agent/src/terminal.rs, app/input.rs,             *)
(* app/picker.rs, editor.rs).                                              *)
(*                                                                         *)
(* A key is typed as bytes that may be read in several chunks.  Inside an  *)
(* escape sequence the decoder waits up to 30 ms: its deadline is none,    *)
(* still ahead or past.  Bytes are abstract: "esc", "cr", "tab", "bs"      *)
(* (0x7f), "ctrl-…" and single ASCII characters; another character is its   *)
(* "lead" byte and one more.                                               *)
(***************************************************************************)
EXTENDS TLC, Composer

CONSTANTS
    Keyboards,      \* the sets of keys, one of which is typed from: [bytes, event]
    MaxKeys,        \* the number of keys typed
    WholeKeys,      \* the keys whose bytes are read at once
    Width,          \* columns of a composer row
    Histories,      \* the prompts already submitted
    Commands,       \* the command names, in their order, as texts
    Models,         \* the names of the models, in their order, as texts
    EditorTexts     \* what an editor may leave in its file

ASSUME TerminalInputAssumption ==
    /\ Width \in Nat \ {0} /\ MaxKeys \in Nat
    /\ \A list \in {Commands, Models} \cup Histories : list \in Seq(Range(list))

VARIABLES
    keyboard,       \* the keys in use
    typed,          \* the number of keys typed
    pending,        \* the keys whose event was not decoded yet
    transit,        \* the typed bytes that were not read yet
    decoder,        \* InputDecoder: bytes, paste, deadline
    guard,          \* TerminalGuard: active or not
    prompt,         \* the composer, its history and its menus
    agent           \* idle or running, and the prompt that was submitted

terminalVars == <<keyboard, typed, pending, transit, decoder, guard>>
vars == <<terminalVars, prompt, agent>>

-----------------------------------------------------------------------------
(* InputDecoder::next_event, from a decoder to an event and the decoder     *)
(* after it.                                                               *)

Key(code) == [code |-> code, mod |-> "none"]
Modified(code, mod) == [code |-> code, mod |-> mod]
Pasted(text) == [paste |-> text]
NoEvent == [none |-> TRUE]

PasteStart == <<"esc", "[", "2", "0", "0", "~">>
PasteEnd == <<"esc", "[", "2", "0", "1", "~">>
Final(char, code) == {[bytes |-> <<"esc", "[", char>>, event |-> Key(code)]}
Numbered(char, code) == {[bytes |-> <<"esc", "[", char, "~">>, event |-> Key(code)]}
Application(char, code) == {[bytes |-> <<"esc", "O", char>>, event |-> Key(code)]}
Sequences ==
    Final("A", "up") \cup Final("B", "down") \cup Final("C", "right") \cup Final("D", "left")
      \cup Final("H", "home") \cup Final("F", "end") \cup Numbered("1", "home")
      \cup Numbered("4", "end") \cup Numbered("3", "delete") \cup Numbered("5", "pageUp")
      \cup Numbered("6", "pageDown") \cup Application("A", "up") \cup Application("B", "down")
      \cup Application("C", "right") \cup Application("D", "left")
      \cup {[bytes |-> <<"esc", "[", "Z">>, event |-> Modified("tab", "shift")]}

Rest(from, count) == [from EXCEPT !.bytes = SubSeq(@, count + 1, Len(@))]
Cleared(from) == [from EXCEPT !.deadline = "none"]
Gives(event, after) == [event |-> event, after |-> after]

\* Mutant: no deadline is set.
Waits_Never(from) == Gives(NoEvent, from)

\* escape_deadline, once set, stays.
Waits(from) == Gives(NoEvent, [from EXCEPT !.deadline = IF @ = "none" THEN "ahead" ELSE @])

\* Up to the first end marker, which the text leaves out.
DecodePaste(from) ==
    LET ends == {k \in 1..Len(from.bytes) : IsPrefix(PasteEnd, SubSeq(from.bytes, k, Len(from.bytes)))}
    IN IF ends = {} THEN Gives(NoEvent, from)
       ELSE Gives(Pasted(SubSeq(from.bytes, 1, Min(ends) - 1)),
                  [Rest(from, Min(ends) - 1 + Len(PasteEnd)) EXCEPT !.paste = FALSE])

\* escape_sequence_prefix.
IsUnfinished(bytes) ==
    \E whole \in {PasteStart} \cup {sequence.bytes : sequence \in Sequences} :
        IsStrictPrefix(bytes, whole)

\* At least 0x20, and not what begins a sequence.
Printable(byte) ==
    byte \notin {"esc", "cr", "tab", "[", "O", "ctrl-g", "ctrl-c", "ctrl-o"}

\* What follows when no sequence was found: wait, Alt and a byte, or Esc.  The
\* bytes need not begin with an escape any more.
NoSequence(from) ==
    CASE IsUnfinished(from.bytes) /\ from.deadline # "past" -> Waits(from)
      [] ~(IsUnfinished(from.bytes) /\ from.deadline # "past") /\ Len(from.bytes) > 1
           /\ Printable(from.bytes[2]) ->
           Gives(Modified(from.bytes[2], "alt"), Rest(from, 2))
      [] OTHER -> Gives(Key("esc"), Cleared(Rest(from, 1)))

DecodeEscape(from) ==
    LET matches == {sequence \in Sequences : IsPrefix(sequence.bytes, from.bytes)}
        paste == DecodePaste([Rest(from, Len(PasteStart)) EXCEPT !.paste = TRUE])
    IN CASE Len(from.bytes) = 1 ->
              IF from.deadline = "past" THEN Gives(Key("esc"), Cleared(Rest(from, 1))) ELSE Waits(from)
         [] Len(from.bytes) > 1 /\ IsPrefix(PasteStart, from.bytes) ->
              IF paste.event # NoEvent THEN Gives(paste.event, Cleared(paste.after))
              ELSE NoSequence(paste.after)
         [] matches # {} ->
              LET sequence == CHOOSE s \in matches : TRUE
              IN Gives(sequence.event, Cleared(Rest(from, Len(sequence.bytes))))
         [] OTHER -> NoSequence(from)

Plain == [cr |-> "enter", tab |-> "tab", bs |-> "backspace"]
ControlKeys == [byte \in {"ctrl-g", "ctrl-c", "ctrl-o"} |->
                  CASE byte = "ctrl-g" -> "g" [] byte = "ctrl-c" -> "c" [] OTHER -> "o"]

\* Mutant: the first byte of a character is not waited for.
DecodeOther_Eager(from) ==
    LET first == Head(from.bytes)
    IN CASE first \in DOMAIN Plain -> Gives(Key(Plain[first]), Rest(from, 1))
         [] first \in DOMAIN ControlKeys -> Gives(Modified(ControlKeys[first], "control"), Rest(from, 1))
         [] first = "lead" /\ Len(from.bytes) > 1 -> Gives(Key(from.bytes[2]), Rest(from, 2))
         [] OTHER -> Gives(Key(first), Rest(from, 1))

\* A character of several bytes waits for all of them.
DecodeOther(from) ==
    LET first == Head(from.bytes)
    IN CASE first \in DOMAIN Plain -> Gives(Key(Plain[first]), Rest(from, 1))
         [] first \in DOMAIN ControlKeys -> Gives(Modified(ControlKeys[first], "control"), Rest(from, 1))
         [] first = "lead" /\ Len(from.bytes) = 1 -> Gives(NoEvent, from)
         [] first = "lead" /\ Len(from.bytes) > 1 -> Gives(Key(from.bytes[2]), Rest(from, 2))
         [] OTHER -> Gives(Key(first), Rest(from, 1))

Decode(from) ==
    CASE from.paste -> DecodePaste(from)
      [] ~from.paste /\ from.bytes = <<>> -> Gives(NoEvent, from)
      [] ~from.paste /\ from.bytes # <<>> /\ Head(from.bytes) = "esc" -> DecodeEscape(from)
      [] OTHER -> DecodeOther(Cleared(from))
NewDecoder == [bytes |-> <<>>, paste |-> FALSE, deadline |-> "none"]

-----------------------------------------------------------------------------
(* The prompt: what its menus show for a text.                             *)

NoMenu == [selected |-> 0, prefix |-> <<>>, matches |-> <<>>]
Shown(p) == p.menu # NoMenu
First(a, b) == IF a < b THEN a ELSE b
Those(names, wanted) ==
    LET upTo[k \in 0..Len(names)] ==
          IF k = 0 THEN <<>>
          ELSE IF names[k] \in wanted THEN Append(upTo[k - 1], names[k]) ELSE upTo[k - 1]
    IN upTo[Len(names)]
CommandsOf(text) ==
    IF text = <<>> \/ Head(text) # "/" \/ (\E k \in DOMAIN text : IsSpace(text[k])) THEN <<>>
    ELSE Those(Commands, {name \in Range(Commands) : IsPrefix(text, name)})

\* refresh_command_completion and update_slash_completion keep the selected row
\* where they can.
Refreshed(p) ==
    LET matches == CommandsOf(p.buffer.text)
    IN [p EXCEPT !.menu = IF matches = <<>> THEN NoMenu
                          ELSE [prefix |-> p.buffer.text, matches |-> matches,
                                selected |-> First(IF Shown(p) THEN @.selected ELSE 1, Len(matches))]]
Turned(selected, by, count) == ((selected - 1 + by) % count) + 1
Chosen(p) == p.menu.matches[p.menu.selected]

\* complete_command.
Completed(p) ==
    LET matches == CommandsOf(p.buffer.text)
    IN IF matches = <<>> THEN p
       ELSE [p EXCEPT !.menu = NoMenu,
                      !.buffer = AtEnd((IF Shown(p) THEN Chosen(p) ELSE Head(matches)) \o <<" ">>)]

\* model_candidates of a picker's filter.
Includes(text, part) ==
    \E k \in 0..(Len(text) - Len(part)) : SubSeq(text, k + 1, k + Len(part)) = part
Candidates(p) == Those(Models, {name \in Range(Models) : Includes(name, p.filter)})

On(p, surface) ==
    [p EXCEPT !.surface = surface, !.filter = <<>>, !.selected = 1, !.menu = NoMenu]

-----------------------------------------------------------------------------
(* The prompt history.                                                     *)

\* record_history.
Recorded(p, text) ==
    [p EXCEPT !.history = IF @ # <<>> /\ Last(@) = text THEN @ ELSE Append(@, text),
              !.index = 0, !.draft = NoEvent]

\* Mutant: every step back saves what the composer shows as the draft.
Back_SavesAgain(p) ==
    IF p.history = <<>> THEN p
    ELSE LET index == IF p.index = 0 THEN Len(p.history) ELSE Max({1, p.index - 1})
         IN [p EXCEPT !.draft = [text |-> p.buffer.text], !.index = index,
                      !.buffer = AtEnd(p.history[index])]

\* begin_history_navigation saves the draft the first time, and history_previous
\* stays at the oldest prompt.
Back(p) ==
    LET draft == IF p.index = 0 THEN [text |-> p.buffer.text] ELSE p.draft
        index == IF p.index = 0 THEN Len(p.history) ELSE Max({1, p.index - 1})
    IN IF p.history = <<>> THEN [p EXCEPT !.draft = draft]
       ELSE [p EXCEPT !.draft = draft, !.index = index, !.buffer = AtEnd(p.history[index])]

\* history_next: after the newest prompt comes the draft.
Forward(p) ==
    CASE p.index = 0 -> p
      [] p.index # 0 /\ p.index = Len(p.history) ->
           [p EXCEPT !.index = 0, !.draft = NoEvent,
                     !.buffer = AtEnd(IF p.draft = NoEvent THEN <<>> ELSE p.draft.text)]
      [] OTHER -> [p EXCEPT !.index = @ + 1, !.buffer = AtEnd(p.history[p.index + 1])]

-----------------------------------------------------------------------------
(* handle_terminal_event: the outcomes of an event, as pairs of a prompt    *)
(* and the agent.                                                          *)

With(p) == {<<p, agent>>}
Running(text) == [phase |-> "running", submitted |-> text]

\* dispatch_command, as far as it opens a surface.
Dispatched(p, text) ==
    LET quiet == [p EXCEPT !.menu = NoMenu]
        word == SelectSeq(text, LAMBDA char : ~IsSpace(char))
    IN CASE word = Commands[1] -> With(On(quiet, "help"))
         [] word = Commands[2] /\ agent.phase = "idle" -> With(On(quiet, "picker"))
         [] OTHER -> With(quiet)

\* submit_composer: a prompt is started, refused and put back, held up by the
\* missing model, or queued as steering.
Submitted(p) ==
    LET text == p.buffer.text
        taken == [p EXCEPT !.buffer = Empty]
        kept == Recorded(taken, text)
    IN CASE \A k \in DOMAIN text : IsSpace(text[k]) -> With(taken)
         [] text # <<>> /\ Head(text) = "/" -> Dispatched(kept, text)
         [] OTHER ->
              IF agent.phase = "running" THEN With(kept)
              ELSE {<<kept, Running(text)>>} \cup With([kept EXCEPT !.buffer = AtEnd(text)])
                     \cup With(On(kept, "picker"))

\* handle_picker_key and picker_insert.  A model that cannot be selected leaves
\* the picker as it was.
PickerKey(p, event) ==
    LET count == Len(Candidates(p))
    IN CASE event = Key("esc") -> With(On(p, "none"))
         [] event \in {Key("up"), Key("down")} ->
              With(IF count = 0 THEN p
                   ELSE [p EXCEPT !.selected = Turned(@, IF event = Key("up") THEN -1 ELSE 1, count)])
         [] event = Key("backspace") ->
              With([p EXCEPT !.filter = IF @ = <<>> THEN @ ELSE Front(@), !.selected = 1])
         [] event = Key("enter") ->
              With(p) \cup (IF p.selected <= count THEN With(On(p, "none")) ELSE {})
         [] event \in {Key(char) : char \in {"a", "b", " ", "/"}} ->
              With([p EXCEPT !.filter = Append(@, event.code), !.selected = 1])
         [] OTHER -> With(p)

\* The keys of an open command menu; the others go to the composer.
MenuKeys == {Key("esc"), Key("up"), Key("down"), Key("tab"), Key("enter")}
MenuKey(p, event) ==
    CASE event = Key("esc") -> With([p EXCEPT !.menu = NoMenu])
      [] event = Key("up") -> With([p EXCEPT !.menu.selected = Turned(@, -1, Len(p.menu.matches))])
      [] event = Key("down") -> With([p EXCEPT !.menu.selected = Turned(@, 1, Len(p.menu.matches))])
      [] event = Key("tab") -> With(Completed(p))
      [] event = Key("enter") ->
           Submitted([p EXCEPT !.buffer = AtEnd(Chosen(p) \o <<" ">>), !.menu = NoMenu])

\* What an editing key makes of the composer.
Characters == {"a", "b", " ", "/", "wide", "mark"}
Edited(p, event) ==
    LET buffer == p.buffer
    IN CASE event = Key("backspace") -> Backspace(buffer)
         [] event = Key("delete") -> Delete(buffer)
         [] event = Key("left") -> To(buffer, ClusterStart(buffer))
         [] event = Key("right") -> To(buffer, ClusterEnd(buffer))
         [] event = Key("home") -> To(buffer, LineStart(buffer))
         [] event = Key("end") -> To(buffer, LineEnd(buffer))
         [] event = Modified("b", "alt") -> To(buffer, WordStart(buffer))
         [] event = Modified("f", "alt") -> To(buffer, WordEnd(buffer))
         [] event \in {Key(char) : char \in Characters} -> Insert(buffer, <<event.code>>)
         [] OTHER -> buffer

\* Up and Down leave the composer for the history where it has no further row.
RowKey(p, rows, by) ==
    CASE HasRow(p.buffer, rows, by) -> [p EXCEPT !.buffer = To(@, Vertical(@, rows, by))]
      [] ~HasRow(p.buffer, rows, by) /\ by = -1 -> Back(p)
      [] OTHER -> Forward(p)
RowKeys(p, event) ==
    {RowKey(p, rows, IF event = Key("up") THEN -1 ELSE 1) : rows \in {RowsOf(p.buffer.text, Width)}}

\* Mutant: the menu is not looked at again after an edit.
ComposerKey_Stale(p, event) ==
    CASE event = Key("enter") -> {<<Refreshed(next[1]), next[2]>> : next \in Submitted(p)}
      [] event = Key("tab") -> {<<Refreshed(q), agent>> : q \in {Completed(p)}}
      [] event \in {Key("up"), Key("down")} -> {<<Refreshed(q), agent>> : q \in RowKeys(p, event)}
      [] OTHER -> {<<q, agent>> : q \in {[p EXCEPT !.buffer = Edited(p, event)]}}

\* The keys of the composer.
ComposerKey(p, event) ==
    CASE event = Key("enter") -> {<<Refreshed(next[1]), next[2]>> : next \in Submitted(p)}
      [] event = Key("tab") -> {<<Refreshed(q), agent>> : q \in {Completed(p)}}
      [] event \in {Key("up"), Key("down")} -> {<<Refreshed(q), agent>> : q \in RowKeys(p, event)}
      [] OTHER -> {<<Refreshed(q), agent>> : q \in {[p EXCEPT !.buffer = Edited(p, event)]}}

\* handle_control_c, but for the exit.
ControlC(p) ==
    LET quiet == [p EXCEPT !.menu = NoMenu]
    IN IF agent.phase = "running" THEN With(quiet) ELSE With([quiet EXCEPT !.buffer = Empty])

Handled(p, event) ==
    CASE "paste" \in DOMAIN event ->
           (CASE p.surface = "none" ->
                   {<<Refreshed(q), agent>> : q \in {[p EXCEPT !.buffer = Insert(@, event.paste)]}}
              [] p.surface = "picker" -> With([p EXCEPT !.filter = @ \o event.paste, !.selected = 1])
              [] OTHER -> With(p))
      [] "paste" \notin DOMAIN event /\ p.surface = "picker" -> PickerKey(p, event)
      [] "paste" \notin DOMAIN event /\ p.surface \in {"help", "detail"} ->
           With(IF event = Key("esc") \/ (p.surface = "detail" /\ event = Modified("o", "control"))
                  THEN On(p, "none") ELSE p)
      [] "paste" \notin DOMAIN event /\ p.surface = "none" ->
           (CASE Shown(p) /\ event \in MenuKeys -> MenuKey(p, event)
              [] event = Modified("o", "control") -> With(On(p, "detail"))
              [] event = Modified("c", "control") -> ControlC(p)
              [] OTHER -> ComposerKey(p, event))

-----------------------------------------------------------------------------
(* Steps.                                                                  *)

IsEscape(key) == key.bytes = <<"esc">>

\* The user types a key, the next one only after a bare Escape was taken.
Type ==
    /\ guard = "active" /\ typed < MaxKeys /\ transit = <<>>
    /\ ~\E k \in DOMAIN pending : IsEscape(pending[k])
    /\ typed' = typed + 1
    /\ \E key \in keyboard : pending' = Append(pending, key) /\ transit' = key.bytes
    /\ UNCHANGED <<keyboard, decoder, guard, prompt, agent>>

\* The terminal is readable: poll_event reads some of the bytes.
Arrive ==
    /\ guard = "active" /\ transit # <<>>
    /\ \E count \in 1..Len(transit) :
         /\ Last(pending) \in WholeKeys => count = Len(transit)
         /\ decoder' = [decoder EXCEPT !.bytes = @ \o SubSeq(transit, 1, count)]
         /\ transit' = SubSeq(transit, count + 1, Len(transit))
    /\ UNCHANGED <<keyboard, typed, pending, guard, prompt, agent>>

\* 30 ms pass.  The bytes of a key follow each other faster, those of a paste
\* need not.
Pass ==
    /\ guard = "active" /\ decoder.deadline = "ahead"
    /\ transit = <<>> \/ "paste" \in DOMAIN Last(pending).event
    /\ decoder' = [decoder EXCEPT !.deadline = "past"]
    /\ UNCHANGED <<keyboard, typed, pending, transit, guard, prompt, agent>>

Decoded == Decode(decoder)
IsEditorKey(p, event) == p.surface = "none" /\ event = Modified("g", "control")
IsExit(p, event) ==
    /\ p.surface = "none" /\ event = Modified("c", "control")
    /\ agent.phase = "idle" /\ p.buffer.text = <<>>
Awaited == IF pending = <<>> THEN pending ELSE Tail(pending)

\* One call of next_event, with the handling of what it returns.
Poll ==
    /\ guard = "active"
    /\ \E got \in {Decoded} :
         /\ decoder' = got.after
         /\ IF got.event = NoEvent THEN UNCHANGED <<pending, guard, prompt, agent>>
            ELSE /\ ~IsEditorKey(prompt, got.event) /\ pending' = Awaited
                 /\ IF IsExit(prompt, got.event)
                      THEN guard' = "ended" /\ UNCHANGED <<prompt, agent>>
                    ELSE /\ \E next \in Handled(prompt, got.event) : prompt' = next[1] /\ agent' = next[2]
                         /\ UNCHANGED guard
    /\ UNCHANGED <<keyboard, typed, transit>>

\* Ctrl+G.  Nothing runs without an editor or its file.  Otherwise the terminal
\* is given up and entered again, with a new decoder, and the editor has taken
\* what was typed.  A terminal that cannot be entered again ends the program.
OpenEditor ==
    /\ guard = "active"
    /\ \E got \in {Decoded} :
         /\ got.event # NoEvent /\ IsEditorKey(prompt, got.event)
         /\ \/ /\ decoder' = got.after /\ pending' = Awaited
               /\ prompt' = [prompt EXCEPT !.menu = NoMenu] /\ UNCHANGED <<transit, guard>>
            \/ /\ decoder' = NewDecoder /\ pending' = <<>> /\ transit' = <<>>
               /\ \/ /\ \E text \in EditorTexts :
                          prompt' = [prompt EXCEPT !.menu = NoMenu, !.buffer = AtEnd(text)]
                     /\ UNCHANGED guard
                  \/ prompt' = [prompt EXCEPT !.menu = NoMenu] /\ guard' \in {"active", "lost"}
    /\ UNCHANGED <<keyboard, typed, agent>>

\* reap_task: a run that failed gives its prompt back to an empty composer.
RunEnds ==
    /\ guard = "active" /\ agent.phase = "running"
    /\ agent' = [phase |-> "idle", submitted |-> <<>>]
    /\ \/ UNCHANGED prompt
       \/ /\ prompt.buffer.text = <<>>
          /\ prompt' = [prompt EXCEPT !.buffer = AtEnd(agent.submitted)]
    /\ UNCHANGED terminalVars

Init ==
    /\ keyboard \in Keyboards
    /\ typed = 0 /\ pending = <<>> /\ transit = <<>>
    /\ decoder = NewDecoder /\ guard = "active"
    /\ \E history \in Histories :
         prompt = [buffer |-> Empty, history |-> history, index |-> 0, draft |-> NoEvent,
                   menu |-> NoMenu, surface |-> "none", filter |-> <<>>, selected |-> 1]
    /\ agent = [phase |-> "idle", submitted |-> <<>>]

Next == Type \/ Arrive \/ Pass \/ Poll \/ OpenEditor \/ RunEnds

\* What was typed arrives, time passes, and the event loop goes on polling.
Spec == Init /\ [][Next]_vars
FairSpec ==
    Spec /\ WF_vars(Arrive) /\ WF_vars(Pass) /\ WF_vars(Poll \/ OpenEditor)

-----------------------------------------------------------------------------
(* Properties.                                                             *)

\* What the keys of a terminal send: a byte, a character of two bytes, Escape, a
\* sequence, Escape with another key, and the text of a paste between its marks.
IsByte(key) ==
    /\ Len(key.bytes) = 1 /\ key.bytes[1] \notin {"esc", "lead"}
    /\ key.event = CASE key.bytes[1] \in DOMAIN Plain -> Key(Plain[key.bytes[1]])
                     [] key.bytes[1] \in DOMAIN ControlKeys ->
                          Modified(ControlKeys[key.bytes[1]], "control")
                     [] OTHER -> Key(key.bytes[1])
IsWide(key) ==
    Len(key.bytes) = 2 /\ key.bytes[1] = "lead" /\ key.event = Key(key.bytes[2])
IsBare(key) == IsEscape(key) /\ key.event = Key("esc")
IsSequence(key) == [bytes |-> key.bytes, event |-> key.event] \in Sequences
IsAlt(key) ==
    /\ Len(key.bytes) = 2 /\ key.bytes[1] = "esc" /\ Printable(key.bytes[2])
    /\ key.event = Modified(key.bytes[2], "alt")
IsPaste(key) ==
    LET size == Len(key.bytes) - Len(PasteStart) - Len(PasteEnd)
        text == SubSeq(key.bytes, Len(PasteStart) + 1, Len(PasteStart) + size)
    IN /\ size >= 0 /\ key.bytes = PasteStart \o text \o PasteEnd
       /\ \A k \in DOMAIN text : text[k] # "esc"
       /\ key.event = Pasted(text)

\* The last two only when they are read at once: a paste that is not, and a
\* deadline that an Alt key leaves behind, are decoded as something else.
AreSent(keyboards, whole) ==
    \A keys \in keyboards : \A key \in keys :
        /\ key.bytes \in Seq(Range(key.bytes))
        /\ \/ IsByte(key) \/ IsWide(key) \/ IsBare(key) \/ IsSequence(key)
           \/ (IsAlt(key) \/ IsPaste(key)) /\ key \in whole

\* However its bytes are read, every key becomes one event, the keys in their
\* order: what is decoded next is the oldest key that was not decoded yet.
EventsAreKeys ==
    guard = "active" /\ Decoded.event # NoEvent =>
        pending # <<>> /\ Decoded.event = Head(pending).event

\* No typed key stays in the decoder for good.
KeysAreDecoded == pending # <<>> ~> pending = <<>> \/ guard # "active"

\* The draft that was left for the history is the one that comes back after the
\* newest prompt, whatever was looked at or edited meanwhile.
DraftComesBack ==
    [][/\ prompt.index = 0 /\ prompt'.index # 0 => prompt'.draft = [text |-> prompt.buffer.text]
       /\ prompt.index # 0 /\ prompt'.index # 0 => prompt'.draft = prompt.draft
       /\ prompt.index # 0 /\ prompt'.index = 0 /\ prompt'.history = prompt.history =>
            \/ prompt'.buffer = AtEnd(prompt.draft.text)
            \/ prompt'.draft = NoEvent /\ Decoded.event = Key("enter")]_vars

\* A menu that is open belongs to the text beside it, and its selected row, like
\* that of a picker with candidates, is one of those shown: Enter never takes a
\* command or a model for another text.
MenusAreCurrent ==
    /\ Shown(prompt) =>
         /\ prompt.menu.prefix = prompt.buffer.text
         /\ prompt.menu.matches = CommandsOf(prompt.buffer.text)
         /\ prompt.menu.selected \in DOMAIN prompt.menu.matches
    /\ prompt.surface = "picker" /\ Candidates(prompt) # <<>> =>
         prompt.selected \in DOMAIN Candidates(prompt)
=============================================================================
