-------------------------- MODULE MCWorkspaceTools --------------------------
EXTENDS WorkspaceTools

SomePolicy == [content |-> 4, details |-> 4, total |-> 7]
SomeSpelling == ("a" :> <<"a">>) @@ ("ab" :> <<"a", "b">>) @@ ("b" :> <<"wide">>)
                  @@ ("d" :> <<"d">>) @@ ("n" :> <<"n">>) @@ (".git" :> <<".", "g">>)
SomeOrder ==
    << <<"w", "a">>, <<"w", "d">>, <<"w", "d", ".git">>, <<"w", "d", ".git", "a">>,
       <<"w", "d", "ab">>, <<"w", "d", "b">>, <<"w", "n">>, <<"w", "n", "b">> >>
SomeDirs == {<<"w">>, <<"w", "d">>, <<"w", "d", ".git">>}
SomeFiles ==
    (<<"w", "a">> :> <<"x", "x", "x", Newline, "y">>)
      @@ (<<"w", "d", "ab">> :> <<"wide", "x", "x", "x", "y", Newline, "A", "x", Newline, "x",
                            Newline, "x">>)
      @@ (<<"w", "d", "b">> :> <<"x", "invalid">>)
      @@ (<<"w", "d", ".git", "a">> :> <<"x", "y">>)

\* Nothing left behind, or the file of the first number.

CONSTANTS a1, a2
SomeStale == {{}, {<<0, "stdout">>}}

File(parts) == PathValue([absolute |-> FALSE, parts |-> parts])
A == File(<<"a">>)
AB == File(<<"d", ".", "ab">>)
Call(tool, members) == [tool |-> tool, arguments |-> ObjectValue(members)]
Change(old, new) == ObjectValue([oldText |-> StringValue(old), newText |-> StringValue(new)])
Edit(path, changes) == Call("edit", [path |-> path, edits |-> ArrayValue(changes)])
Find(glob, limit) ==
    Call("find", [pattern |-> StringValue(glob), limit |-> NumberValue(2 * limit)])
Grep(pattern, members) == Call("grep", [pattern |-> StringValue(pattern)] @@ members)

Reads ==
    {Call("read", [path |-> AB]),
     Call("read", [path |-> AB, offset |-> NumberValue(4)]),
     Call("read", [path |-> AB, limit |-> NumberValue(4)]),
     Call("read", [path |-> A, offset |-> NumberValue(3)]),
     Call("read", [path |-> File(<<"n", "a">>)]),
     Call("read", [path |-> File(<<"..", "a">>)])}

Edits ==
    {Edit(A, <<Change(<<"y">>, <<>>), Change(<<"x", "x">>, <<"z", "z", "z">>)>>),
     Edit(A, <<Change(<<"x", Newline>>, <<"y">>), Change(<<Newline, "y">>, <<"x">>)>>),
     Edit(A, <<Change(<<"x">>, <<"y">>)>>), Edit(A, <<>>),
     Edit(A, <<Change(<<>>, <<"y">>)>>), Edit(File(<<"d", "b">>), <<Change(<<"x">>, <<"y">>)>>),
     Edit(AB, <<Change(<<"y", Newline>>, <<"wide">>), Change(<<"A">>, <<"y", "y">>)>>)}

Writes ==
    {Call("write", [path |-> File(path), content |-> StringValue(<<"x", "y">>)])
       : path \in {<<"a">>, <<"n", "b">>, <<"a", "b">>, <<"d">>}}

Finds ==
    {Find(glob, 3) : glob \in {<<"a", "*">>, <<"*", "*">>, <<"*", "*", "/", "a", "?">>,
                               <<"d", "/", "*">>, <<"*", "wide">>, <<"?", "?">>, <<>>}}
      \cup {Find(<<"*">>, 1), Find(<<"*">>, 2),
            Call("find", [pattern |-> StringValue(<<"a">>), path |-> A])}

Greps ==
    {Grep(<<"x", "y">>, [literal |-> BoolValue(TRUE)]),
     Grep(<<"^", "x", "*">>, [path |-> A]),
     Grep(<<"a", "x", "$">>, [ignoreCase |-> BoolValue(TRUE), limit |-> NumberValue(2)]),
     Grep(<<".">>, [glob |-> StringValue(<<"a", "*">>), limit |-> NumberValue(4)]),
     Grep(<<".">>, [limit |-> NumberValue(3)])}

Lists == {Call("ls", [path |-> File(<<"d">>), limit |-> NumberValue(4)]), Call("ls", [path |-> A]),
          Call("ls", [limit |-> StringValue(<<"x">>)])}

To(stream, char) == [stream |-> stream, char |-> char]
Bash(prints, foreground, exit, hangs, removes) ==
    [prints |-> prints, foreground |-> foreground, exit |-> exit, hangs |-> hangs,
     removes |-> removes]
      @@ Call("bash", [command |-> StringValue(<<"c">>), timeout |-> NumberValue(1)])
Long == Bash(<<To("stdout", "p"), To("stderr", "q")>>, 1, 0, FALSE, <<"w", "a">>)

\* Of a host's tool: schemas in every place, one of them no object.
Host(schema) == [schema |-> schema] @@ Call("host", [path |-> A])
Hosts ==
    {Host([not |-> NotAnObject]), Host([not |-> [const |-> A]]),
     Host([anyOf |-> <<Of("array"), [properties |-> [path |-> Of("string")]]>>]),
     Host([oneOf |-> <<Of("object"), [type |-> <<"object", "null">>]>>]),
     Host([allOf |-> <<[properties |-> [path |-> Of("number")]]>>]),
     Host([closed |-> TRUE, properties |-> [path |-> [items |-> NotAnObject]]]),
     Host([additionalProperties |-> Of("string"), required |-> <<"path", "path">>]),
     Host([malformed |-> TRUE]), Host([closed |-> TRUE])}

Short == Bash(<<To("stdout", "t")>>, 1, 1, FALSE, <<>>)
Loop == Bash(<<To("stdout", "s")>>, 1, 0, TRUE, <<>>)

\* Arguments of another type, ones that are missing, and edits of another form.
Whole ==
    {Call("read", [path |-> A, offset |-> NumberValue(2), limit |-> NumberValue(2)]),
     Call("bash", [command |-> StringValue(<<"c">>), timeout |-> NumberValue(2)]),
     Edit(A, <<Change(<<"y">>, <<>>)>>),
     Call("write", [path |-> A, content |-> StringValue(<<"x">>)]),
     Grep(<<"x">>, [path |-> A, glob |-> StringValue(<<"a">>), ignoreCase |-> BoolValue(TRUE),
                    literal |-> BoolValue(TRUE), context |-> NumberValue(2),
                    limit |-> NumberValue(2)]),
     Call("find", [pattern |-> StringValue(<<"a">>), path |-> A, limit |-> NumberValue(2)]),
     Call("ls", [path |-> A, limit |-> NumberValue(2)])}
Other(value) == IF value.type = "string" THEN NumberValue(2) ELSE StringValue(<<"x">>)
IllTyped ==
    UNION {LET given == call.arguments.members
           IN {Call(call.tool, [given EXCEPT ![key] = Other(@)]) : key \in DOMAIN given}
                \cup {[call EXCEPT !.arguments = StringValue(<<"x">>)]} : call \in Whole}
      \cup UNION {LET given == call.arguments.members
                  IN {Call(call.tool, [key \in DOMAIN given \ {one} |-> given[key]])
                        : one \in {"path", "command", "edits", "content"} \cap DOMAIN given}
                    : call \in {call \in Whole : call.tool \in {"read", "bash", "edit", "write"}}}
      \cup {Edit(A, <<edit>>) :
              edit \in {StringValue(<<"x">>), ObjectValue([oldText |-> StringValue(<<"x">>)]),
                       ObjectValue([oldText |-> StringValue(<<"x">>), newText |-> NumberValue(2)])}}

Shorter == Edit(A, <<Change(<<"x", "x", "x">>, <<"x">>)>>)
New == Call("write", [path |-> File(<<"n", "b">>), content |-> StringValue(<<"x", "y">>)])
All == Find(<<"*", "*">>, 9)
Some == Grep(<<".">>, [limit |-> NumberValue(6)])

\* Reads, edits and writes with an edit or a search of another agent between their
\* steps, walks with a file that comes to be, two commands, a command and calls on
\* the file it removes, and calls out of their schema.
SomeAgendas ==
    {(a1 :> (Reads \cup Edits \cup Writes \cup Hosts)) @@ (a2 :> {Shorter, Some}),
     (a1 :> (Finds \cup Greps \cup Lists)) @@ (a2 :> {New}),
     (a1 :> {Long, Loop}) @@ (a2 :> {Short}),
     (a1 :> {Long}) @@ (a2 :> {Shorter, All, Some}),
     (a1 :> IllTyped) @@ (a2 :> {})}

\* One agent that asks what no file can answer.
OnlyGlobs == {(a1 :> {Find(<<"?">>, 9), Find(<<"?", "?">>, 9)}) @@ (a2 :> {})}
OnlyMissing == {(a1 :> {Call("read", [path |-> File(<<"n", "a">>)])}) @@ (a2 :> {})}
TightPolicy == [content |-> 4, details |-> 4, total |-> 6]
Nothing == [agent \in {a1, a2} |-> <<>>]

Result(text) == [kind |-> "ok", text |-> text, truncated |-> FALSE]
SomeEarlier ==
    (a1 :> <<[kind |-> "invalid"], Result(<<"x", "wide", "x", "wide", "y">>),
            [kind |-> "error", text |-> <<"x", "wide", "x", "y">>, truncated |-> FALSE]>>)
      @@ (a2 :> <<[kind |-> "cancelled"], [kind |-> "failed"]>>)
=============================================================================
