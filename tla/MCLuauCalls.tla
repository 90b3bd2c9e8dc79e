---------------------------- MODULE MCLuauCalls ----------------------------
EXTENDS LuauCalls

Record(capabilities, main, sources) ==
    [capabilities |-> capabilities, entrypoint |-> main, sources |-> sources]
MainFile == <<"main">>
ToolFile == <<"lib", "tool">>
UtilFile == <<"lib", "util">>

SomeRecords ==
    {Record(<<>>, MainFile, <<MainFile, ToolFile, UtilFile>>),
     Record(<<"world">>, ToolFile, <<MainFile, ToolFile>>),
     Record(<<"world", "world">>, MainFile, <<MainFile>>),
     Record(<<>>, MainFile, <<ToolFile>>),
     Record(<<>>, MainFile, <<MainFile, MainFile>>),
     Record(<<>>, MainFile, <<MainFile, <<"..", "main">>>>)}

\* From main and from lib: a module, one of the same directory, the requester
\* itself, one that is not there, one outside, and requests of other forms.
SomeRequests ==
    {<<".", "lib", "tool">>, <<".", "util">>, <<"..", "main">>, <<".", "tool">>,
     <<"..", "..", "main">>, <<"lib", "tool">>, <<"@world">>, <<"", "main">>}

GrantOf(module, operations) == [module |-> module, operations |-> operations]
SomeOperations == [world |-> {"read", "call one", "call any"}, agent |-> {"stop"}]
SomeGrants ==
    {<<>>, <<GrantOf("world", <<"read", "call one">>)>>,
     <<GrantOf("agent", <<"stop">>), GrantOf("world", <<"call any">>)>>,
     <<GrantOf("world", <<"read", "read">>)>>,
     <<GrantOf("world", <<"read">>), GrantOf("world", <<"call any">>)>>,
     <<GrantOf("network", <<"read">>)>>}

SomeAsked == [capability : {"world"}, operation : {"read", "call one", "other"}]
               \cup {[capability |-> "agent", operation |-> "stop"]}

SomeBindings == <<"agent", "world">>
=============================================================================
