----------------------------- MODULE CommandLine -----------------------------
(***************************************************************************)
(* The command line of a request (Execute, internal/agent/executor.go) and *)
(* the allowlist it is compared with (pkg/config).  A line is a sequence   *)
(* of words; the comparison of the code is by characters, so that the last *)
(* word of an allowed prefix may go on in the line.                        *)
(***************************************************************************)
EXTENDS Naturals, Sequences

NamedActions == {"deploy", "status", "rollback", "logs"}

\* Faulty variant: an option in front of the action.
Line_OptionFirst(path, req) ==
    CASE req.action = "exec" -> req.command
      [] req.action = "logs" -> <<path, "logs", Head(req.services)>>
      [] OTHER -> <<path, "--json", req.action>> \o req.services

Line(path, req) ==
    CASE req.action \in {"deploy", "rollback"} -> <<path, req.action, "--json">> \o req.services
      [] req.action = "status" -> <<path, "status", "--json">>
      [] req.action = "logs" -> <<path, "logs", Head(req.services)>>
      [] req.action = "exec" -> req.command

\* An action the executor knows; logs needs a service.
Understood(req) ==
    /\ req.action \in NamedActions \cup {"exec"}
    /\ req.action = "logs" => req.services # <<>>

\* Pairs of words of which the first begins the second.
Begins == {<<"deploy", "deploy-all">>}

HasPrefix(line, prefix) ==
    LET last == Len(prefix)
    IN  /\ last <= Len(line)
        /\ \A i \in 1..(last - 1) : line[i] = prefix[i]
        /\ line[last] = prefix[last] \/ <<prefix[last], line[last]>> \in Begins

\* ValidateCommand
Allowed(allowlist, line) == \E prefix \in allowlist : HasPrefix(line, prefix)

DefaultPath == "muster"
DefaultAllowlist == {<<"muster", a>> : a \in NamedActions}

\* Execute gets as far as starting a process.
Accepts(config, req) ==
    Understood(req) /\ Allowed(config.allowlist, Line(config.path, req))

=============================================================================
