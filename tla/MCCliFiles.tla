----------------------------- MODULE MCCliFiles -----------------------------
\* Small instances of CliFiles.
EXTENDS CliFiles

A == <<65>>
X == <<120>>
E == <<195, 169>>
Q == <<113, 32, 114>>

\* Their own operations; those of every PTP device are left out.
MCDevices ==
    {[operations |-> <<4108, 38915, 38916, 38917, 38920>>, manufacturer |-> <<77>>, refuses |-> FALSE],
     [operations |-> <<4108>>, manufacturer |-> <<77, 83>>, refuses |-> TRUE],
     [operations |-> <<4108, 38916, 38917>>, manufacturer |-> <<>>, refuses |-> FALSE]}
MCStorages == <<[description |-> <<77>>, label |-> <<>>], [description |-> <<>>, label |-> <<83, 32, 68>>]>>

Thing(name, parent, storage, dir, src) ==
    [name |-> name, parent |-> parent, storage |-> storage, dir |-> dir, size |-> 1,
     src |-> src, whole |-> TRUE]
\* A folder with a file and a folder, and a file on the other storage; a folder
\* with a file.
MCWorlds ==
    {1 :> Thing(<<65>>, Root, 1, TRUE, "none") @@ 2 :> Thing(<<120>>, 1, 1, FALSE, "old")
     @@ 3 :> Thing(<<120>>, Root, 2, FALSE, "other") @@ 4 :> Thing(<<113, 32, 114>>, 1, 1, TRUE, "none"),
     1 :> Thing(<<120>>, Root, 1, TRUE, "none") @@ 2 :> Thing(<<233>>, 1, 1, FALSE, "old")}

MCLocal ==
    LET file(name, size, readable) ==
            [name |-> name, dir |-> FALSE, readable |-> readable, size |-> size, children |-> <<>>]
        folder(name, children, readable) ==
            [name |-> name, dir |-> TRUE, readable |-> readable, size |-> 0, children |-> children]
    IN  "f" :> file(X, 3, TRUE) @@ "e" :> file(E, 4, TRUE)
        @@ "g" :> file(<<240, 159, 152, 128>>, 5, TRUE)  \* a character of four bytes
        @@ "u" :> file(X, 3, FALSE)
        @@ "d" :> folder(A, <<"e", "f">>, TRUE) @@ "n" :> folder(Q, <<"f">>, FALSE)

Line(name, args) == [name |-> name, args |-> args]
Path(parts) == [abs |-> FALSE, parts |-> parts]
MCLines ==
    {Line("cd", <<Path(<<A>>)>>), Line("cd", <<Path(<<A, Q>>)>>), Line("cd", <<Path(<<Up>>)>>),
     Line("pwd", <<>>), Line("ls", <<>>), Line("mkpath", <<Path(<<A, E>>)>>),
     Line("ls", <<Path(<<A, Dot>>)>>), Line("get", <<Path(<<A>>)>>),
     Line("put", <<"f">>), Line("put", <<"e">>), Line("put", <<"d">>), Line("put", <<"f", Path(<<X>>)>>),
     Line("put", <<"e", Path(<<A>>)>>), Line("put", <<"e", Path(<<A, X>>)>>),
     Line("put", <<"e", Path(<<Q>>)>>), Line("put", <<"e", Path(<<Q, X>>)>>),
     Line("put", <<"g">>), Line("put", <<"u">>), Line("put", <<"u", Path(<<A, X>>)>>), Line("put", <<"n">>),
     Line("put", <<"d", Path(<<X>>)>>), Line("mkdir", <<Path(<<E>>)>>), Line("mkdir", <<Path(<<A, Q>>)>>),
     Line("rm", <<Path(<<X>>)>>), Line("rename", <<Path(<<X>>), A>>), Line("rename", <<Path(<<X>>), E>>),
     Line("rm", <<>>), Line("rm", <<Path(<<Dot>>)>>), Line("rm", <<Path(<<A, <<113>>>>)>>),
     Line("rm-id", <<(<<49>>)>>), Line("rm-id", <<X>>), Line("storage", <<(<<83, 32, 68>>)>>),
     Line("storage", <<All>>), Line("storage", <<(<<51>>)>>)}
\* m, cd a/q, cd A/q, cd "A/q, cd "a, ls x, put f q, storage s, rename a, rm-id 1
MCTyped ==
    {<<109>>,
     <<99, 100, 32, 97, 47, 113>>,
     <<99, 100, 32, 65, 47, 113>>,
     <<99, 100, 32, 34, 65, 47, 113>>,
     <<99, 100, 32, 34, 97>>,
     <<108, 115, 32, 120>>,
     <<112, 117, 116, 32, 102, 32, 81>>,
     <<115, 116, 111, 114, 97, 103, 101, 32, 115>>,
     <<114, 101, 110, 97, 109, 101, 32, 97>>,
     <<114, 109, 45, 105, 100, 32, 49>>}
=============================================================================
