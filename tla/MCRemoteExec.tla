---------------------------- MODULE MCRemoteExec ----------------------------
(* Instances of RemoteExec: two runs, on one host or on two. *)
EXTENDS RemoteExec

CONSTANTS r1, r2, h1, h2

TwoRuns == {r1, r2}
On(h, k) == [r \in TwoRuns |-> IF r = r1 THEN h ELSE k]

SameHostOrNot == {On(h1, h1), On(h1, h2)}
CommandAndOther == {On("exec", "push"), On("exec", "ping"), On("ping", "agents")}
TwoCommands == {On("exec", "push")}

=============================================================================
