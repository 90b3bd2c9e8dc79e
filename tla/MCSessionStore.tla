--------------------------- MODULE MCSessionStore ---------------------------
EXTENDS SessionStore

CONSTANTS t1, t2, s1, s2

Symmetry == Permutations(Ids)

User == [role |-> "user", text |-> "ask"]
Call(arguments) == [id |-> "c", arguments |-> arguments]

\* A run that a failing tool ended, called with arguments that are not JSON.
Failed(arguments, failure) ==
    <<User, [role |-> "assistant", text |-> "part", calls |-> <<Call(arguments)>>, stop |-> "ToolUse"],
      [role |-> "toolResult", call |-> "c", isError |-> TRUE, details |-> <<"spaced">>,
       usage |-> <<>>, terminate |-> FALSE, failure |-> failure]>>
SomeExchanges == {Failed("bare", "fatal")}

\* One whose texts are already as the format writes them.
CanonicalExchanges == {
    [Failed("object", failure) EXCEPT ![3].details = <<"object">>] :
        failure \in {"none", "recoverable", "invalid_arguments"}}

\* Files of another program: one with a tool result, entries Tea does not know
\* and a line that is not JSON, and one with an entry it rejects.
SomeImported == {
    <<[type |-> "other"], [type |-> "message", message |-> User], [type |-> "malformed"],
      [type |-> "message", message |->
         [role |-> "assistant", text |-> "pi", calls |-> <<Call("Object")>>,
          model |-> "m1", stop |-> "tool_use"]],
      [type |-> "message", message |->
         [role |-> "toolResult", call |-> "c", isError |-> FALSE, details |-> "Object",
          usage |-> <<[input |-> 1]>>]]>>,
    <<[type |-> "invalid"]>>}

\* Two terminals whose numbers do not meet, because one has been running for
\* longer.
FirstApart == [p \in Processes |-> IF p = t1 THEN 1 ELSE 9]
LastApart == [p \in Processes |-> IF p = t1 THEN 8 ELSE 15]
FirstChoiceApart == [p \in Processes |-> IF p = t1 THEN 1 ELSE 2]
OneChoice == [p \in Processes |-> 1]
FaultsOfOne == [p \in Processes |-> IF p = t1 THEN 1 ELSE 0]
=============================================================================
