-------------------------------- MODULE Join --------------------------------
(***************************************************************************)
(* muster-agent join and muster-agent run (cmd/muster-agent/main.go) on    *)
(* one machine: what a join leaves in the two key files and in the         *)
(* configuration, and what a run that is started at any moment reads from  *)
(* them.  Joins are numbered in the order they are started; a file that is *)
(* whole is the number of the join that wrote it.                          *)
(*                                                                         *)
(* A join stops where a call of it fails (log.Fatalf) or where it is       *)
(* killed.  The service manager starts the run again whenever it ends.     *)
(***************************************************************************)
EXTENDS Integers, CommandLine

CONSTANTS
    MaxJoins,   \* bound: joins
    PathFlags,  \* values of --muster-path a join may be given
    Requests    \* requests for the named actions, each as the executor wants it

ASSUME JoinAssumption ==
    /\ MaxJoins \in Nat
    /\ \A req \in Requests :
           /\ req.action \in NamedActions /\ req.services \in Seq(STRING)
           /\ Understood(req)

VARIABLES
    join,       \* where the join is
    n,          \* its number
    flag,       \* per join: the --muster-path it was given
    disk,       \* the files
    sent,       \* joins whose AGENT_HELLO is sent
    accepted,   \* joins the relay has registered
    agent,      \* where the run is
    mem         \* what it has read

joinVars == <<join, n, flag, disk, sent, accepted>>
agentVars == <<agent, mem>>
vars == <<joinVars, agentVars>>

NoPath == "none"    \* the flag is not given, or empty

\* identity.key, identity.pub and config.json
Files == {"key", "pub", "config"}

Missing == 0
Torn == -1      \* empty or cut short: the wrong length, or no JSON

\* Faulty variant: the length of what was read is not checked.
Whole_IfPresent(f) == disk[f] # Missing

Whole(f) == disk[f] > 0

JoinInit ==
    /\ join = "none" /\ n = 0
    /\ flag = [j \in 1..MaxJoins |-> NoPath]
    /\ disk = [f \in Files |-> Missing]
    /\ sent = {}
    /\ accepted = {}
    /\ agent = "off"
    /\ mem = [f \in Files |-> Missing]

-----------------------------------------------------------------------------
(* The join. *)

Ended == join \in {"none", "done", "failed"}

\* The flags are in order and the key pair is generated.
StartJoin ==
    /\ Ended /\ n < MaxJoins
    /\ n' = n + 1
    /\ \E p \in PathFlags : flag' = [flag EXCEPT ![n + 1] = p]
    /\ join' = "openKey"
    /\ UNCHANGED <<disk, sent, accepted, agentVars>>

\* os.WriteFile opens the file and empties it, and then writes it.
Open(f, from, to) ==
    /\ join = from
    /\ disk' = [disk EXCEPT ![f] = Torn]
    /\ join' = to
    /\ UNCHANGED <<n, flag, sent, accepted, agentVars>>

Fill(f, from, to) ==
    /\ join = from
    /\ disk' = [disk EXCEPT ![f] = n]
    /\ join' = to
    /\ UNCHANGED <<n, flag, sent, accepted, agentVars>>

OpenKey == Open("key", "openKey", "writeKey")

\* Faulty variant: only the private key is saved.
FillKey_Only == Fill("key", "writeKey", "connect")

FillKey == Fill("key", "writeKey", "openPub")
OpenPub == Open("pub", "openPub", "writePub")
FillPub == Fill("pub", "writePub", "connect")

Call(from, to) ==
    /\ join = from
    /\ join' = to
    /\ UNCHANGED <<n, flag, disk, accepted, agentVars>>

Connect == Call("connect", "authenticate") /\ UNCHANGED sent
Authenticate == Call("authenticate", "hello") /\ UNCHANGED sent
SendHello == Call("hello", "ack") /\ sent' = sent \cup {n}

\* Faulty variant: any frame is taken for RELAY_ACK, as the run takes it.
ReadAck_AnyFrame == Call("ack", "openConfig") /\ UNCHANGED sent

ReadAck == n \in accepted /\ Call("ack", "openConfig") /\ UNCHANGED sent

\* Faulty variant: the configuration is left in a buffer.
OpenConfig_Unflushed == Open("config", "openConfig", "done")

OpenConfig == Open("config", "openConfig", "writeConfig")

\* The path is "muster" unless the flag is given; the allowlist is the default.
Config(j) ==
    [path |-> IF flag[j] = NoPath THEN DefaultPath ELSE flag[j], allowlist |-> DefaultAllowlist]

FillConfig == Fill("config", "writeConfig", "done")

\* Faulty variant: an error of SaveAgentConfig is not looked at.
JoinFails_NotForConfig ==
    /\ ~Ended
    /\ join' = IF join = "writeConfig" THEN "done" ELSE "failed"
    /\ UNCHANGED <<n, flag, disk, sent, accepted, agentVars>>

JoinFails ==
    /\ ~Ended
    /\ join' = "failed"
    /\ UNCHANGED <<n, flag, disk, sent, accepted, agentVars>>

\* The relay reads an AGENT_HELLO and sends RELAY_ACK, which may be after the
\* join that sent it has ended.
RelayRegisters ==
    /\ \E j \in sent \ accepted : accepted' = accepted \cup {j}
    /\ UNCHANGED <<join, n, flag, disk, sent, agentVars>>

-----------------------------------------------------------------------------
(* The run. *)

Nothing == [f \in Files |-> Missing]

\* ReadFile and the check of what was read; log.Fatalf if it is not whole.
Load(f, from, to) ==
    /\ agent = from
    /\ IF Whole(f) THEN agent' = to /\ mem' = [mem EXCEPT ![f] = disk[f]]
                   ELSE agent' = "off" /\ mem' = Nothing
    /\ UNCHANGED joinVars

\* LoadAgentConfig, and LoadKeyPair with its two files
LoadConfig == Load("config", "off", "key")
LoadKey == Load("key", "key", "pub")

\* Faulty variant: the agent is given the configuration that is on the disk
\* once the keys are loaded.
LoadPub_ThenConfig ==
    /\ agent = "pub" /\ Whole("pub") /\ Whole("config")
    /\ agent' = "up"
    /\ mem' = [mem EXCEPT !["pub"] = disk["pub"], !["config"] = disk["config"]]
    /\ UNCHANGED joinVars

LoadPub == Load("pub", "pub", "up")

\* A signal or a reboot.  While it loads, a run that ends is as one that has
\* not been started yet.
AgentEnds ==
    /\ agent = "up"
    /\ agent' = "off"
    /\ mem' = Nothing
    /\ UNCHANGED joinVars

-----------------------------------------------------------------------------

JoinSteps ==
    \/ StartJoin \/ JoinFails
    \/ OpenKey \/ FillKey \/ OpenPub \/ FillPub \/ OpenConfig \/ FillConfig
    \/ Connect \/ Authenticate \/ SendHello \/ ReadAck

AgentSteps == LoadConfig \/ LoadKey \/ LoadPub

JoinNext == JoinSteps \/ RelayRegisters \/ AgentSteps \/ AgentEnds

\* The service manager restarts a run that has ended (Restart=always).
\* Nothing obliges anybody to join.
JoinSpec == JoinInit /\ [][JoinNext]_vars /\ WF_vars(AgentSteps)

-----------------------------------------------------------------------------
(* Properties. *)

Content == Torn..MaxJoins

JoinTypeOK ==
    /\ join \in {"none", "openKey", "writeKey", "openPub", "writePub", "connect",
                 "authenticate", "hello", "ack", "openConfig", "writeConfig", "done", "failed"}
    /\ n \in 0..MaxJoins
    /\ flag \in [1..MaxJoins -> PathFlags \cup {NoPath}]
    /\ disk \in [Files -> Content]
    /\ accepted \subseteq sent /\ sent \subseteq 1..n
    /\ agent \in {"off", "key", "pub", "up"}
    /\ mem \in [Files -> Missing..MaxJoins]

\* The configuration on the disk, and that of an agent, are those of a join the
\* relay has registered, however the joins before and after it ended (cmdJoin,
\* which saves it last).
ConfigIsRegistered ==
    \A c \in {disk["config"], mem["config"]} : c > 0 => c \in accepted

\* The keys of an agent are never older than its configuration, whatever joins
\* write while it loads the three files (cmdRun, which loads the configuration
\* first).
KeysCoverConfig ==
    agent = "up" => mem["key"] >= mem["config"] /\ mem["pub"] >= mem["config"]

\* Beside the private key of a join the relay has registered lies its own public
\* key, although the two files are written and emptied one by one (SaveKeyPair).
RegisteredPairMatches == disk["key"] \in accepted => disk["pub"] = disk["key"]

\* When a join reports success all three files are its own, whatever earlier
\* joins left behind, and the relay has registered it.
JoinedMeansInstalled ==
    join = "done" => n \in accepted /\ \A f \in Files : disk[f] = n

\* An agent that is started after a successful join comes up with what that
\* join wrote, unless another join begins.
RestartedAgentIsJoined ==
    (join = "done" /\ agent = "off") ~>
        (join # "done" \/ (agent = "up" /\ \A f \in Files : mem[f] = n))

Serves(config) == \A req \in Requests : Accepts(config, req)

\* With the default path an agent accepts every request for an action its
\* allowlist names, whichever joins wrote its files and whatever services are
\* asked for (cmdJoin, Execute, ValidateCommand).
DefaultPathServes ==
    agent = "up" /\ Config(mem["config"]).path = DefaultPath => Serves(Config(mem["config"]))

\* An agent accepts the actions its allowlist names with the path to muster it
\* was given, as in the configuration the documents print: "muster_path" is
\* "/usr/local/bin/muster" and the allowed commands are the default ones
\* (README.md, Agent config; docs/protocol.md; deploy/agent.json.example).
GivenPathServes == agent = "up" => Serves(Config(mem["config"]))

=============================================================================
