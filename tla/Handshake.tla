----------------------------- MODULE Handshake -----------------------------
(***************************************************************************)
(* The handshake of one `zrb send` row with the `zrb server` that sshd      *)
(* starts for it: ClientHello, the version gate (ServerStatus), the checks  *)
(* of client name and dataset, ServerHello.                                 *)
(*                                                                          *)
(* The wire carries JSON lines without a type tag: a message is a record of *)
(* its fields, and what a line decodes to depends on which message its      *)
(* reader expects.  What ServerHello says of the dataset is module Backup's *)
(* concern; here it has its version only.                                   *)
(***************************************************************************)
EXTENDS Naturals, Sequences

CONSTANTS Names,          \* client names
          Targets,        \* datasets a client may ask for
          ClientVersions, \* versions of zrb on the source host
          ServerVersion,  \* version of zrb on the Remote
          NotANumber      \* a part of a version that does not parse as one

VARIABLES
  request,    \* what the client asks for: version, client_name, target
  clients,    \* ServerConfig.clients: name -> its allow list
  permitted,  \* the --client names of the SSH key
  cpc, spc,   \* control state of client and server
  toServer, toClient,  \* lines on their way
  link        \* the SSH connection is up

policyVars == <<request, clients, permitted>>
vars == <<policyVars, cpc, spc, toServer, toClient, link>>

\* Where each side may end.  The client: ready to transfer, rejected with the
\* server's reason, an answer it cannot decode, or no answer.  The server:
\* ready, a refusal it has written, an error, or an error after ServerHello.
ClientEnds == {"ready", "rejected", "garbled", "closed"}
ServerEnds == {"ready", "refused", "failed", "cut"}

ClientHello == [version : ClientVersions, client_name : Names, target : Targets]
ServerStatus(ok) == [ok |-> ok, message |-> IF ok THEN "ok" ELSE "why not"]
ServerHello == [version |-> ServerVersion]

TypeOK ==
  /\ request \in ClientHello
  /\ DOMAIN clients \subseteq Names
  /\ \A n \in DOMAIN clients : clients[n] \subseteq Targets
  /\ permitted \subseteq Names
  /\ cpc \in {"start", "hello", "status", "await"} \cup ClientEnds
  /\ spc \in {"off", "start", "hello", "name", "state", "flush"} \cup ServerEnds
  /\ toServer \in Seq(ClientHello)
  /\ toClient \in Seq({ServerStatus(TRUE), ServerStatus(FALSE), ServerHello})
  /\ link \in BOOLEAN

Init ==
  /\ request \in ClientHello
  /\ \E C \in SUBSET Names : clients \in [C -> SUBSET Targets]
  /\ permitted \in (SUBSET Names) \ {{}}
  /\ cpc = "start" /\ spc = "off"
  /\ toServer = <<>> /\ toClient = <<>>
  /\ link = FALSE

-----------------------------------------------------------------------------
(* Versions and messages.                                                  *)

\* major and minor, or <<>> when one of them is missing or no number.
Parsed(v) ==
  IF Len(v) >= 2 /\ v[1] # NotANumber /\ v[2] # NotANumber
  THEN <<v[1], v[2]>> ELSE <<>>

\* CARGO_PKG_VERSION is a version.
ASSUME ServerVersionAssumption == Parsed(ServerVersion) # <<>>

CompatibleMajor(c, s) == \* mutant: the minor version is not compared
  /\ Parsed(c) # <<>> /\ Parsed(s) # <<>>
  /\ Parsed(c)[1] = Parsed(s)[1]

version_compatible(c, s) == Parsed(c) # <<>> /\ Parsed(c) = Parsed(s)

\* serde: a line decodes as a message if it has the fields that message cannot
\* do without (ServerHello's other two are Options); others are ignored.
Required(type) ==
  CASE type = "ServerStatus" -> {"ok", "message"}
    [] type = "ServerHello"  -> {"version"}

Decodes(type, line) == Required(type) \subseteq DOMAIN line

\* encode_json: one line, lost when the connection is down.
Sent(line) == IF link THEN Append(toClient, line) ELSE toClient

AsItExitsBare(line) == {Append(toClient, [message |-> line.message])} \* mutant: `ok` left out

\* The server's stdout is flushed after ServerHello only: the last line of a
\* server that exits before that may not get out.
AsItExits(line) == {Sent(line), toClient}

Vanishing == {toClient, <<>>}

-----------------------------------------------------------------------------
(* The client: transport::connect, client_handshake.                       *)

ConnectFails ==
  /\ cpc = "start"
  /\ cpc' = "closed"
  /\ UNCHANGED <<policyVars, spc, toServer, toClient, link>>

\* sshd starts the server by the key's ForceCommand.
Connect ==
  /\ cpc = "start"
  /\ cpc' = "hello" /\ spc' = "start"
  /\ link' = TRUE
  /\ UNCHANGED <<policyVars, toServer, toClient>>

ClientSendsHello ==
  /\ cpc = "hello"
  /\ \/ link /\ toServer' = <<request>> /\ cpc' = "status"
     \/ ~link /\ cpc' = "closed" /\ UNCHANGED toServer
  /\ UNCHANGED <<policyVars, spc, toClient, link>>

\* The version gate.
ClientReadsStatus ==
  /\ cpc = "status" /\ toClient # <<>>
  /\ cpc' = IF ~Decodes("ServerStatus", Head(toClient)) THEN "garbled"
            ELSE IF Head(toClient).ok THEN "await" ELSE "rejected"
  /\ toClient' = Tail(toClient)
  /\ UNCHANGED <<policyVars, spc, toServer, link>>

\* Whatever comes after the gate is decoded as ServerHello.
ClientReadsHello ==
  /\ cpc = "await" /\ toClient # <<>>
  /\ cpc' = IF Decodes("ServerHello", Head(toClient)) THEN "ready" ELSE "garbled"
  /\ toClient' = Tail(toClient)
  /\ UNCHANGED <<policyVars, spc, toServer, link>>

ClientEofOnBreak == \* mutant: only a broken connection is noticed
  /\ cpc \in {"status", "await"} /\ toClient = <<>>
  /\ ~link
  /\ cpc' = "closed"
  /\ UNCHANGED <<policyVars, spc, toServer, toClient, link>>

\* "connection closed mid-message": the connection broke or the server exited.
ClientEof ==
  /\ cpc \in {"status", "await"} /\ toClient = <<>>
  /\ ~link \/ spc \in ServerEnds \ {"ready"}
  /\ cpc' = "closed"
  /\ UNCHANGED <<policyVars, spc, toServer, toClient, link>>

-----------------------------------------------------------------------------
(* The server: the Server command of main, server_handshake.               *)

\* The zfs version is checked, then the config loaded; either may fail.
ServerStarts ==
  /\ spc = "start"
  /\ spc' \in {"hello", "failed"}
  /\ UNCHANGED <<policyVars, cpc, toServer, toClient, link>>

ServerChecksVersion ==
  /\ spc = "hello" /\ toServer # <<>>
  /\ toServer' = Tail(toServer)
  /\ IF version_compatible(Head(toServer).version, ServerVersion)
     THEN spc' = "name" /\ toClient' = Sent(ServerStatus(TRUE))
     ELSE spc' = "refused" /\ toClient' \in AsItExits(ServerStatus(FALSE))
  /\ UNCHANGED <<policyVars, cpc, link>>

MayReceiveUnbound == \* mutant: the key's --client names are not looked at
  /\ request.client_name \in DOMAIN clients
  /\ request.target \in clients[request.client_name]

\* The name is one of the key's and the dataset on that client's allow list.
MayReceive ==
  /\ request.client_name \in permitted \cap DOMAIN clients
  /\ request.target \in clients[request.client_name]

\* A refusal is one more ServerStatus.  A name the key permits and the config
\* does not know is an error of the server: it exits without a word.
ServerChecksName ==
  /\ spc = "name"
  /\ CASE MayReceive -> spc' = "state" /\ UNCHANGED toClient
       [] ~MayReceive /\ request.client_name \in permitted \ DOMAIN clients
            -> spc' = "failed" /\ toClient' \in Vanishing
       [] OTHER -> spc' = "refused" /\ toClient' \in AsItExits(ServerStatus(FALSE))
  /\ UNCHANGED <<policyVars, cpc, toServer, link>>

\* Resume token and Snapshots are read, which zfs may refuse; ServerHello.
ServerSendsHello ==
  /\ spc = "state"
  /\ \/ spc' = "flush" /\ toClient' = Sent(ServerHello)
     \/ spc' = "failed" /\ toClient' \in Vanishing
  /\ UNCHANGED <<policyVars, cpc, toServer, link>>

\* output.flush(), which may find the connection gone.
ServerFlushes ==
  /\ spc = "flush"
  /\ \/ spc' = "ready"
     \/ ~link /\ spc' = "cut"
  /\ UNCHANGED <<policyVars, cpc, toServer, toClient, link>>

\* A read or write of the server finds the connection, or the client, gone.
ServerLosesLink ==
  /\ \/ spc = "hello" /\ toServer = <<>> /\ (~link \/ cpc \in ClientEnds)
     \/ spc \in {"name", "state"} /\ ~link
  /\ spc' = "failed"
  /\ UNCHANGED <<policyVars, cpc, toServer, toClient, link>>

-----------------------------------------------------------------------------
(* Failures: the connection breaks and takes lines with it, the client is  *)
(* killed.                                                                 *)

Prefixes(q) == {SubSeq(q, 1, k) : k \in 0..Len(q)}

Disconnect ==
  /\ link /\ link' = FALSE
  /\ toServer' \in Prefixes(toServer)
  /\ toClient' \in Prefixes(toClient)
  /\ UNCHANGED <<policyVars, cpc, spc>>

ClientDies ==
  /\ cpc \notin ClientEnds /\ link
  /\ cpc' = "closed" /\ link' = FALSE
  /\ UNCHANGED <<policyVars, spc, toServer, toClient>>

-----------------------------------------------------------------------------
ClientStep == \/ ConnectFails \/ Connect \/ ClientSendsHello
              \/ ClientReadsStatus \/ ClientReadsHello \/ ClientEof

ServerStep == \/ ServerStarts \/ ServerChecksVersion \/ ServerChecksName
              \/ ServerSendsHello \/ ServerFlushes \/ ServerLosesLink

Next == ClientStep \/ ServerStep \/ Disconnect \/ ClientDies

Spec == Init /\ [][Next]_vars

\* Both processes run, and a read on a connection that is gone returns.
FairSpec == Spec /\ WF_vars(ClientStep) /\ WF_vars(ServerStep)

-----------------------------------------------------------------------------
(* Properties.                                                             *)

\* The refinement mapping.
Accepted == {"flush", "ready", "cut"}

Allowed ==
  /\ version_compatible(request.version, ServerVersion)
  /\ request.client_name \in permitted \cap DOMAIN clients
  /\ request.target \in clients[request.client_name]

Decision == IF spc \in Accepted THEN "accepted"
            ELSE IF spc \in {"refused", "failed"} THEN "refused" ELSE "open"

Verdict == IF cpc = "ready" THEN "proceeds"
           ELSE IF cpc \in ClientEnds THEN "gave_up" ELSE "open"

Abstract == INSTANCE Agreement WITH
  allowed <- Allowed, decision <- Decision, client <- Verdict

\* Every way the two sides may end, with the checks, messages, losses and
\* exits in between, is one of Agreement: the server accepts only a request of
\* a compatible version, under a name of its key, for a dataset on that name's
\* allow list, and the client goes on only after that.
ImplementsAgreement == Abstract!Spec

\* docs/adr/0005: a version skew is a clear rejection, never a JSON error; the
\* gate comes before anything else the client could fail to decode.  And the
\* reason the client shows is the gate's, of a server that did refuse.
SkewIsExplained ==
  /\ cpc = "rejected" => spc = "refused" /\ Parsed(request.version) # Parsed(ServerVersion)
  /\ cpc = "garbled" => spc = "refused" /\ Parsed(request.version) = Parsed(ServerVersion)

\* Neither side waits for the other forever, whatever was refused, lost or not
\* flushed: a client that connected ends, and so does its server.
HandshakeEnds == (cpc # "start") ~> (cpc \in ClientEnds /\ spc \in ServerEnds \cup {"off"})
=============================================================================
