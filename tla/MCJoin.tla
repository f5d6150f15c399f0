------------------------------- MODULE MCJoin -------------------------------
(* Instances of Join: the flags given and the requests made. *)
EXTENDS Join

Request(a, s) == [action |-> a, services |-> s]

NamedRequests ==
    {Request(a, s) : a \in {"deploy", "rollback", "status"}, s \in {<<>>, <<"api">>, <<"api", "web">>}}
        \cup {Request("logs", <<"api">>)}

AnyPath == {NoPath, "/usr/local/bin/muster"}

\* The path of the configuration that the documents print.
DocumentedPath == {"/usr/local/bin/muster"}

=============================================================================
