---------------------------- MODULE MCExtensions ----------------------------
EXTENDS Extensions

Manifest(version, name, entry, modules, capabilities) ==
    [version |-> version, name |-> name, entry |-> entry, modules |-> modules,
     capabilities |-> capabilities]

SomeManifests ==
    [plain  |-> Manifest(1, "none", "main", <<"main">>, <<>>),
     forA   |-> Manifest(1, "a", "main", <<"main">>, <<"world">>),
     second |-> Manifest(2, "none", "main", <<"main">>, <<>>),
     twice  |-> Manifest(1, "a", "main", <<"main", "main">>, <<>>)]

Says(on, says) == [on |-> on, says |-> says]
SomePolicies ==
    [quiet  |-> [tools |-> <<>>, hook |-> Says("none", "allow")],
     tool   |-> [tools |-> <<"t">>, hook |-> Says("t", "block")],
     guard  |-> [tools |-> <<>>, hook |-> Says("any", "terminate")],
     faulty |-> [tools |-> <<"t">>, hook |-> Says("read", "failed")],
     base   |-> [tools |-> <<"read">>, hook |-> Says("none", "allow")],
     twice  |-> [tools |-> <<"u", "u">>, hook |-> Says("none", "allow")]]

Entry(name, d) == [name |-> name, path |-> <<"extensions", d>>]
SomeRegistries ==
    [none    |-> <<>>,
     onlyA   |-> <<Entry("a", "a")>>,
     both    |-> <<Entry("b", "b"), Entry("a", "a")>>,
     same    |-> <<Entry("a", "a"), Entry("a", "b")>>,
     renamed |-> <<Entry("c", "a")>>,
     escape  |-> <<[name |-> "b", path |-> <<"..", "b">>]>>]
=============================================================================
