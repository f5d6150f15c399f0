----------------------------- MODULE JoinProofs -----------------------------
(***************************************************************************)
(* What joins leave on the disk and what an agent reads from it, for any   *)
(* number of joins, each ended at any step.                                *)
(***************************************************************************)
EXTENDS Join, SequenceTheorems, TLAPS

Pair == {"key", "pub"}

\* What a join has done by the time it stands somewhere: its AGENT_HELLO is sent
\* only before "ack", by then both key files are its own, and only a registered
\* one goes on to the configuration.
Progress ==
    /\ join # "none" => n > 0
    /\ join \in {"openKey", "writeKey", "openPub", "writePub", "connect",
                 "authenticate", "hello"} => n \notin sent
    /\ join \in {"openPub", "writePub"} => disk["key"] = n
    /\ join \in {"connect", "authenticate", "hello", "ack"} => disk["key"] = n /\ disk["pub"] = n
    /\ join = "ack" => n \in sent
    /\ n \in sent => disk["key"] = n /\ disk["pub"] = n
    /\ join \in {"openConfig", "writeConfig", "done"} => n \in accepted
    /\ join = "done" => disk["config"] = n

\* RegisteredPairMatches from the moment the AGENT_HELLO is sent: the relay may
\* register the join much later.
SentPairMatches == disk["key"] \in sent => disk["pub"] = disk["key"]

\* A key file that is whole is not older than a configuration anybody can have
\* read, and an agent that has read one has kept it so.
KeysNewer ==
    /\ \A f \in Pair : Whole(f) => disk[f] >= disk["config"] /\ disk[f] >= mem["config"]
    /\ agent \in {"pub", "up"} => mem["key"] >= mem["config"]
    /\ agent = "up" => mem["pub"] >= mem["config"]

JoinInv ==
    /\ JoinTypeOK
    /\ Progress
    /\ SentPairMatches
    /\ ConfigIsRegistered
    /\ KeysNewer

-----------------------------------------------------------------------------

LEMMA BoundIsNat == MaxJoins \in Nat
  BY JoinAssumption DEF JoinAssumption

USE BoundIsNat

LEMMA JoinInitOK == JoinInit => JoinInv
  BY DEF JoinInit, JoinInv, JoinTypeOK, Content, Torn, Missing, Files, Pair, Progress,
         SentPairMatches, ConfigIsRegistered, KeysNewer, Whole

\* A join that begins has a number the relay has not seen.
LEMMA StartOK == JoinInv /\ StartJoin => JoinInv'
<1> SUFFICES ASSUME JoinInv, StartJoin PROVE JoinInv'
  OBVIOUS
<1> USE DEF JoinInv
<1>1. JoinTypeOK'
  BY DEF JoinTypeOK, StartJoin, Content, Torn, Missing, agentVars
<1>2. Progress'
  BY DEF JoinTypeOK, StartJoin, Progress
<1>3. SentPairMatches' /\ ConfigIsRegistered' /\ KeysNewer'
  BY DEF StartJoin, agentVars, SentPairMatches, ConfigIsRegistered, KeysNewer, Whole
<1> QED
  BY <1>1, <1>2, <1>3

\* The key files are written by a join that is not registered yet.
LEMMA KeyFilesOK == JoinInv /\ (OpenKey \/ FillKey \/ OpenPub \/ FillPub) => JoinInv'
<1> SUFFICES ASSUME JoinInv, OpenKey \/ FillKey \/ OpenPub \/ FillPub PROVE JoinInv'
  OBVIOUS
<1> USE DEF JoinInv, OpenKey, FillKey, OpenPub, FillPub, Open, Fill
<1>1. JoinTypeOK'
  <2>1. n \in Content /\ Torn \in Content
    BY DEF JoinTypeOK, Content, Torn
  <2>2. disk' \in [Files -> Content]
    BY <2>1 DEF JoinTypeOK
  <2> QED
    BY <2>2 DEF JoinTypeOK, agentVars
<1>2. Progress'
  BY DEF JoinTypeOK, Files, Progress
<1>3. SentPairMatches'
  BY DEF JoinTypeOK, Files, Torn, Progress, SentPairMatches
<1>4. ConfigIsRegistered'
  BY DEF JoinTypeOK, Files, agentVars, ConfigIsRegistered
<1>5. KeysNewer'
  BY DEF JoinTypeOK, Content, Missing, Files, Torn, Pair, Whole, agentVars,
         ConfigIsRegistered, KeysNewer
<1> QED
  BY <1>1, <1>2, <1>3, <1>4, <1>5

\* The configuration is written by a join that is, over keys of its own.
LEMMA ConfigFileOK == JoinInv /\ (OpenConfig \/ FillConfig) => JoinInv'
<1> SUFFICES ASSUME JoinInv, OpenConfig \/ FillConfig PROVE JoinInv'
  OBVIOUS
<1> USE DEF JoinInv, OpenConfig, FillConfig, Open, Fill
<1>1. JoinTypeOK'
  <2>1. n \in Content /\ Torn \in Content
    BY DEF JoinTypeOK, Content, Torn
  <2>2. disk' \in [Files -> Content]
    BY <2>1 DEF JoinTypeOK
  <2> QED
    BY <2>2 DEF JoinTypeOK, agentVars
<1>2. Progress'
  BY DEF JoinTypeOK, Files, Progress
<1>3. SentPairMatches'
  BY DEF JoinTypeOK, Files, Torn, Progress, SentPairMatches
<1>4. ConfigIsRegistered'
  BY DEF JoinTypeOK, Files, Torn, Progress, agentVars, ConfigIsRegistered
<1>5. KeysNewer'
  BY DEF JoinTypeOK, Content, Missing, Files, Torn, Pair, Whole, agentVars,
         Progress, ConfigIsRegistered, KeysNewer
<1> QED
  BY <1>1, <1>2, <1>3, <1>4, <1>5

\* Neither a call at the relay nor the end of a join touches the disk.
LEMMA CallsOK ==
    JoinInv /\ (Connect \/ Authenticate \/ SendHello \/ ReadAck \/ JoinFails \/ RelayRegisters)
        => JoinInv'
<1> SUFFICES ASSUME JoinInv,
                    Connect \/ Authenticate \/ SendHello \/ ReadAck \/ JoinFails \/ RelayRegisters
             PROVE  JoinInv'
  OBVIOUS
<1> USE DEF JoinInv, Connect, Authenticate, SendHello, ReadAck, JoinFails, RelayRegisters, Call
<1>1. JoinTypeOK'
  <2>1. CASE RelayRegisters
    BY <2>1 DEF JoinTypeOK, agentVars
  <2>2. CASE SendHello
    <3>1. n \in 1..n
      BY <2>2 DEF JoinTypeOK, Progress
    <3> QED
      BY <2>2, <3>1 DEF JoinTypeOK, agentVars
  <2>3. CASE Connect \/ Authenticate \/ ReadAck \/ JoinFails
    BY <2>3 DEF JoinTypeOK, agentVars
  <2> QED
    BY <2>1, <2>2, <2>3
<1>2. Progress'
  BY DEF JoinTypeOK, Progress, Ended
<1>3. SentPairMatches'
  BY DEF Progress, SentPairMatches
<1>4. ConfigIsRegistered' /\ KeysNewer'
  BY DEF agentVars, ConfigIsRegistered, KeysNewer, Whole
<1> QED
  BY <1>1, <1>2, <1>3, <1>4

\* An agent that loads a file takes what is there, or ends.
LEMMA AgentOK == JoinInv /\ (AgentSteps \/ AgentEnds) => JoinInv'
<1> SUFFICES ASSUME JoinInv, AgentSteps \/ AgentEnds PROVE JoinInv'
  OBVIOUS
<1> USE DEF JoinInv, AgentSteps, AgentEnds, LoadConfig, LoadKey, LoadPub, Load, Nothing
<1>1. JoinTypeOK'
  <2>1. mem' \in [Files -> Missing..MaxJoins]
    BY DEF JoinTypeOK, Content, Torn, Missing, Files, Whole
  <2> QED
    BY <2>1 DEF JoinTypeOK, joinVars
<1>2. Progress' /\ SentPairMatches'
  BY DEF Progress, SentPairMatches, joinVars
<1>3. ConfigIsRegistered'
  BY DEF JoinTypeOK, Files, Missing, Whole, ConfigIsRegistered, joinVars
<1>4. KeysNewer'
  BY DEF JoinTypeOK, Content, Torn, Files, Missing, Whole, Pair, KeysNewer, joinVars
<1> QED
  BY <1>1, <1>2, <1>3, <1>4

LEMMA JoinInvAlways == JoinSpec => []JoinInv
<1>1. JoinInv /\ [JoinNext]_vars => JoinInv'
  <2> SUFFICES ASSUME JoinInv, [JoinNext]_vars PROVE JoinInv'
    OBVIOUS
  <2>1. CASE UNCHANGED vars
    BY <2>1 DEF vars, joinVars, agentVars, JoinInv, JoinTypeOK, Progress, SentPairMatches,
                ConfigIsRegistered, KeysNewer, Whole
  <2>2. CASE JoinNext
    BY <2>2, StartOK, KeyFilesOK, ConfigFileOK, CallsOK, AgentOK DEF JoinNext, JoinSteps
  <2> QED
    BY <2>1, <2>2
<1> QED
  BY <1>1, JoinInitOK, PTL DEF JoinSpec

-----------------------------------------------------------------------------
(* The command line of a named action against the default allowlist. *)

\* Two words that start a line start every continuation of it.
LEMMA Joined ==
    ASSUME NEW S, NEW t \in Seq(S), NEW s \in Seq(S), Len(t) >= 2
    PROVE  /\ Len(t \o s) \in Nat /\ Len(t \o s) >= 2
           /\ (t \o s)[1] = t[1] /\ (t \o s)[2] = t[2]
  OBVIOUS

\* The line of a named action starts with the path and the action.
LEMMA LineStarts ==
    ASSUME NEW path, NEW req,
           req.action \in NamedActions, req.services \in Seq(STRING), Understood(req)
    PROVE  /\ Len(Line(path, req)) \in Nat
           /\ Len(Line(path, req)) >= 2
           /\ Line(path, req)[1] = path
           /\ Line(path, req)[2] = req.action
<1>1. CASE req.action \in {"deploy", "rollback"}
  <2>1. Line(path, req) = <<path, req.action, "--json">> \o req.services
    BY <1>1 DEF Line
  <2> DEFINE t == <<path, req.action, "--json">>
  <2> DEFINE S == {path, req.action, "--json"} \cup STRING
  <2>2. t \in Seq(S) /\ Len(t) >= 2 /\ t[1] = path /\ t[2] = req.action
    OBVIOUS
  <2>3. req.services \in Seq(S)
    <3>1. STRING \subseteq S
      OBVIOUS
    <3> HIDE DEF S
    <3> QED
      BY <3>1, SeqMonotonic
  <2> HIDE DEF t, S
  <2>4. Len(t \o req.services) \in Nat /\ Len(t \o req.services) >= 2
        /\ (t \o req.services)[1] = path /\ (t \o req.services)[2] = req.action
    BY <2>2, <2>3, Joined, Zenon
  <2> QED
    BY <2>1, <2>4 DEF t
<1>2. CASE req.action = "status"
  <2>1. Line(path, req) = <<path, "status", "--json">>
    BY <1>2 DEF Line
  <2> QED
    BY <2>1, <1>2
<1>3. CASE req.action = "logs"
  <2>1. Line(path, req) = <<path, "logs", Head(req.services)>>
    BY <1>3 DEF Line
  <2> QED
    BY <2>1, <1>3
<1> QED
  BY <1>1, <1>2, <1>3 DEF NamedActions

\* None of the four actions begins another one.
LEMMA DefaultAllows ==
    ASSUME NEW path, NEW req,
           req.action \in NamedActions, req.services \in Seq(STRING), Understood(req)
    PROVE  Allowed(DefaultAllowlist, Line(path, req)) <=> path = DefaultPath
<1>1. ASSUME NEW line, Len(line) \in Nat, Len(line) >= 2, NEW a
      PROVE  HasPrefix(line, <<"muster", a>>) <=>
               line[1] = "muster" /\ (line[2] = a \/ <<a, line[2]>> \in Begins)
  <2> DEFINE p == <<"muster", a>>
  <2>1. Len(p) = 2 /\ p[1] = "muster" /\ p[2] = a
    OBVIOUS
  <2> HIDE DEF p
  <2>2. HasPrefix(line, p) <=> line[1] = "muster" /\ (line[2] = a \/ <<a, line[2]>> \in Begins)
    BY <1>1, <2>1 DEF HasPrefix
  <2> QED
    BY <2>2 DEF p
<1>2. ASSUME NEW a \in NamedActions, NEW b \in NamedActions
      PROVE  <<a, b>> \notin Begins
  BY DEF NamedActions, Begins
<1> DEFINE line == Line(path, req)
<1>3. Len(line) \in Nat /\ Len(line) >= 2 /\ line[1] = path /\ line[2] = req.action
  BY LineStarts
<1> HIDE DEF line
<1>4. Allowed(DefaultAllowlist, line) <=> \E a \in NamedActions : HasPrefix(line, <<"muster", a>>)
  BY DEF Allowed, DefaultAllowlist
<1>5. Allowed(DefaultAllowlist, line) <=> path = "muster"
  BY <1>1, <1>2, <1>3, <1>4
<1> QED
  BY <1>5 DEF line, DefaultPath

-----------------------------------------------------------------------------

\* Types: an agent never holds a file that is cut short, and the relay has
\* registered only joins that were started.
THEOREM JoinTypeCorrect == JoinSpec => []JoinTypeOK
<1>1. JoinInv => JoinTypeOK
  BY DEF JoinInv
<1> QED
  BY <1>1, JoinInvAlways, PTL

\* No configuration, on the disk or in an agent, is of a join the relay has not
\* registered.
THEOREM ConfigAlwaysRegistered == JoinSpec => []ConfigIsRegistered
<1>1. JoinInv => ConfigIsRegistered
  BY DEF JoinInv
<1> QED
  BY <1>1, JoinInvAlways, PTL

\* The keys of an agent are never older than its configuration, at whatever
\* moments of whatever joins it read the three files.
THEOREM KeysAlwaysCoverConfig == JoinSpec => []KeysCoverConfig
<1>1. JoinInv => KeysCoverConfig
  BY DEF JoinInv, KeysNewer, KeysCoverConfig
<1> QED
  BY <1>1, JoinInvAlways, PTL

\* The pair of a registered join is whole on the disk or replaced.
THEOREM RegisteredPairAlwaysMatches == JoinSpec => []RegisteredPairMatches
<1>1. JoinInv => RegisteredPairMatches
  BY DEF JoinInv, JoinTypeOK, SentPairMatches, RegisteredPairMatches
<1> QED
  BY <1>1, JoinInvAlways, PTL

\* A join that reports success has installed all three files and is registered.
THEOREM SuccessMeansInstalled == JoinSpec => []JoinedMeansInstalled
<1>1. JoinInv => JoinedMeansInstalled
  BY DEF JoinInv, JoinTypeOK, Progress, JoinedMeansInstalled, Files
<1> QED
  BY <1>1, JoinInvAlways, PTL

\* With the default path an agent accepts every named action, whatever services
\* are asked for.
THEOREM DefaultPathAlwaysServes == JoinSpec => []DefaultPathServes
<1>1. ASSUME NEW j, NEW req \in Requests
      PROVE  Accepts(Config(j), req) <=> Config(j).path = DefaultPath
  <2>1. req.action \in NamedActions /\ req.services \in Seq(STRING) /\ Understood(req)
    BY JoinAssumption DEF JoinAssumption
  <2>2. Config(j).allowlist = DefaultAllowlist
    BY DEF Config
  <2> QED
    BY <2>1, <2>2, DefaultAllows DEF Accepts
<1>2. DefaultPathServes
  BY <1>1 DEF DefaultPathServes, Serves
<1> QED
  BY <1>2, PTL

=============================================================================
