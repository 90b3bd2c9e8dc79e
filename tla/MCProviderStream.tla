-------------------------- MODULE MCProviderStream --------------------------
EXTENDS ProviderStream

Said1 == [kind |-> "text"]
Done == [kind |-> "done"]
Stop == [kind |-> "finish", reason |-> "stop"]
Length == [kind |-> "finish", reason |-> "length"]
ToolUse == [kind |-> "finish", reason |-> "tool_calls"]
Tokens == [kind |-> "usage", reported |-> TRUE]
NoTokens == [kind |-> "usage", reported |-> FALSE]
Named(i) == [kind |-> "fragment", index |-> i, named |-> TRUE]
More(i) == [kind |-> "fragment", index |-> i, named |-> FALSE]
Rejected == [kind |-> "error"]
Overflow == [kind |-> "overflow"]

\* Every body of at most two lines, and longer ones: texts around a comment,
\* two calls whose fragments alternate, a usage that a later line erases, an
\* error after text, lines after the end.
ShortLines ==
    SeqOf({Said1, Done, Length, Tokens, NoTokens, Named(0), More(1), Comment, Garbage,
           Rejected, Overflow}, 2)
LongLines == {
    <<Said1, Comment, Said1, Stop>>,
    <<Said1, Said1, Tokens, Done>>,
    <<Named(1), Named(0), More(1), ToolUse>>,
    <<Named(0), More(0), Length>>,
    <<Tokens, NoTokens, Done>>,
    <<Said1, Said1, Rejected>>,
    <<Said1, More(0), Done>>,
    <<Stop, Tokens, Said1>>}

SomeBodies ==
    [lines : ShortLines, terminated : {TRUE}, accepted : {TRUE}]
      \cup [lines : LongLines, terminated : BOOLEAN, accepted : {TRUE}]
      \cup [lines : {<<Overflow>>, <<Garbage>>, <<Rejected, Said1>>},
            terminated : BOOLEAN, accepted : {FALSE}]

FinishLine == [kind |-> "finish", reason |-> "stop", reported |-> TRUE]
Calls1 == [kind |-> "finish", reason |-> "tool_use", reported |-> FALSE]
Envelope(transient) == [kind |-> "envelope", transient |-> transient]
Broken(transient) == [kind |-> "error", transient |-> transient]

SomeReplies == {
    <<Said1, [kind |-> "reasoning"], Said1, FinishLine, [kind |-> "metadata"]>>,
    <<[kind |-> "metadata"], Said1, [kind |-> "call"], Calls1>>,
    <<Said1>>, <<Said1, Garbage>>, <<FinishLine, Said1>>,
    <<Said1, [kind |-> "malformed"]>>, <<[kind |-> "foreign"]>>,
    <<Said1, [kind |-> "abort"]>>,
    <<Broken(TRUE)>>, <<Said1, Broken(FALSE)>>,
    <<Envelope(TRUE)>>, <<Envelope(FALSE)>>, <<FinishLine, Envelope(FALSE)>>}
=============================================================================
