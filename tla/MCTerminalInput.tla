--------------------------- MODULE MCTerminalInput ---------------------------
EXTENDS TerminalInput

Types(bytes, event) == [bytes |-> bytes, event |-> event]
Char(char) == Types(<<char>>, Key(char))
Wide(char) == Types(<<"lead", char>>, Key(char))
Escape == Types(<<"esc">>, Key("esc"))
Up == Types(<<"esc", "[", "A">>, Key("up"))
Down == Types(<<"esc", "O", "B">>, Key("down"))
Left == Types(<<"esc", "[", "D">>, Key("left"))
Erase == Types(<<"esc", "[", "3", "~">>, Key("delete"))
Enter == Types(<<"cr">>, Key("enter"))
Tab == Types(<<"tab">>, Key("tab"))
Back1 == Types(<<"bs">>, Key("backspace"))
Control(char) == Types(<<"ctrl-" \o char>>, Modified(char, "control"))
WordLeft == Types(<<"esc", "b">>, Modified("b", "alt"))
PasteOf(text) == Types(PasteStart \o text \o PasteEnd, Pasted(text))
Lines == PasteOf(<<"a", "wide", "mark", Newline, "b", " ", "a">>)

History == {Char("a"), Char("/"), Escape, Up, Down, Enter, Tab}
Editing == {Char("a"), Wide("wide"), Left, Erase, Back1, WordLeft, Lines, Up}
Surfaces == {Char("a"), Char("/"), Escape, Enter, Up, Lines, Control("g"), Control("c"), Control("o")}
SomeKeyboards == {History, Editing, Surfaces}
SomeWhole == {Lines, WordLeft}
SomeHistories == {<<>>, << <<"a">>, <<"b", "a", "b">> >>}
SomeCommands == << <<"/", "a">>, <<"/", "a", "b">> >>
SomeModels == << <<"a", "b">>, <<"b">>, <<"a">> >>
SomeEditorTexts == {<<"/">>}

ASSUME KeyboardAssumption == AreSent(SomeKeyboards, SomeWhole)

SplitPastes == {{PasteOf(<<"a", "b">>), Char("a")}}
NoWhole == {}
=============================================================================
