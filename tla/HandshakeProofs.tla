-------------------------- MODULE HandshakeProofs --------------------------
(* The handshake implements Agreement and explains every version skew, for  *)
(* all names, datasets, versions, configs and keys.                         *)
EXTENDS Handshake, SequenceTheorems, TLAPS

Compatible == version_compatible(request.version, ServerVersion)

Asking == {"start", "hello", "status"}   \* the client before the version gate
Early  == {"off", "start", "hello"}      \* the server before it

\* What may follow the gate's answer on the wire.
Follows(line) ==
  \/ line = ServerStatus(FALSE) /\ spc = "refused" /\ Compatible
  \/ line = ServerHello /\ spc \in Accepted

(* The inductive invariant: who may be where, and what is on the wire then. *)
Waiting ==
  /\ toServer \in {<<>>, <<request>>}
  /\ cpc = "start" => spc = "off"
  /\ cpc = "await" => Compatible

Decided ==
  /\ spc \in Early => toClient = <<>> /\ cpc # "await"
  /\ spc \in {"name", "state"} \cup Accepted => Compatible
  /\ spc \in {"state"} \cup Accepted => Allowed

GateFirst ==
  /\ (cpc \in Asking /\ link /\ spc \in {"name", "state"}) => toClient # <<>>
  /\ (cpc \in Asking /\ toClient # <<>>) =>
        /\ toClient[1] = ServerStatus(Compatible)
        /\ ~Compatible => spc = "refused"
  /\ \A i \in 1..Len(toClient) :
        (cpc = "await" \/ (cpc \in Asking /\ i > 1)) => Follows(toClient[i])

HInv == TypeOK /\ Waiting /\ Decided /\ GateFirst /\ SkewIsExplained

Lines == {ServerStatus(TRUE), ServerStatus(FALSE), ServerHello}

-----------------------------------------------------------------------------
\* The JSON messages are told apart by their fields.
LEMMA LineFacts ==
  /\ ServerStatus(TRUE) # ServerStatus(FALSE)
  /\ \A b \in BOOLEAN : /\ Decodes("ServerStatus", ServerStatus(b))
                        /\ ~Decodes("ServerHello", ServerStatus(b))
                        /\ ServerStatus(b).ok = b
                        /\ ServerStatus(b) # ServerHello
  /\ Decodes("ServerHello", ServerHello)
<1>1. \A b \in BOOLEAN : DOMAIN ServerStatus(b) = {"ok", "message"} /\ ServerStatus(b).ok = b
  BY DEF ServerStatus
<1>2. DOMAIN ServerHello = {"version"}
  BY DEF ServerHello
<1>3. QED
  BY <1>1, <1>2 DEF Decodes, Required

LEMMA OneLine ==
  ASSUME NEW S, NEW line \in S
  PROVE  /\ <<line>> \in Seq(S) /\ Len(<<line>>) = 1 /\ <<line>>[1] = line
         /\ <<line>> # <<>> /\ Head(<<line>>) = line /\ Tail(<<line>>) = <<>>
  OBVIOUS

\* What Sent and AsItExits put on the wire.
LEMMA SentFacts ==
  ASSUME toClient \in Seq(Lines), NEW line \in Lines, NEW q \in AsItExits(line) \cup {Sent(line)}
  PROVE  /\ q \in Seq(Lines)
         /\ Len(q) >= Len(toClient)
         /\ \A i \in 1..Len(q) : i <= Len(toClient) => q[i] = toClient[i]
         /\ \A i \in 1..Len(q) : i > Len(toClient) => link /\ i = Len(toClient) + 1 /\ q[i] = line
<1>1. CASE q = toClient
  BY <1>1
<1>2. CASE link /\ q = Append(toClient, line)
  BY <1>2, AppendProperties
<1>3. QED
  BY <1>1, <1>2 DEF AsItExits, Sent

\* What is left of a queue when the connection breaks.
LEMMA PrefixFacts ==
  ASSUME NEW S, NEW q \in Seq(S), NEW p \in Prefixes(q)
  PROVE  /\ p \in Seq(S)
         /\ Len(p) <= Len(q)
         /\ \A i \in 1..Len(p) : p[i] = q[i]
<1>1. PICK k \in 0..Len(q) : p = SubSeq(q, 1, k)
  BY DEF Prefixes
<1>2. k \in Int /\ \A i \in 1..k : q[i] \in S
  BY <1>1
<1>3. QED
  BY <1>1, <1>2, SubSeqProperties

LEMMA InitHolds == Init => HInv
<1> SUFFICES ASSUME Init PROVE HInv
  OBVIOUS
<1>1. PICK C \in SUBSET Names : clients \in [C -> SUBSET Targets]
  BY DEF Init
<1>2. DOMAIN clients \subseteq Names /\ \A n \in DOMAIN clients : clients[n] \subseteq Targets
  BY <1>1
<1>3. TypeOK
  <2>1. toServer \in Seq(ClientHello) /\ toClient \in Seq(Lines)
    BY DEF Init
  <2>2. permitted \subseteq Names
    BY DEF Init
  <2>3. QED
    BY <1>2, <2>1, <2>2 DEF Init, TypeOK, Lines
<1>4. QED
  BY <1>3 DEF Init, HInv, Waiting, Decided, GateFirst, SkewIsExplained, Early, Accepted

-----------------------------------------------------------------------------
(* The steps of the client.                                                *)

\* A step of the client's alone that leaves the wire as it is.
LEMMA ClientMoves ==
  ASSUME HInv, UNCHANGED <<policyVars, spc, toClient>>,
         link' = link \/ link' = FALSE,
         TypeOK', toServer' \in {<<>>, <<request>>},
         cpc' \in {"closed"} \/ (cpc = "hello" /\ cpc' = "status")
  PROVE  HInv'
<1>1. Waiting' /\ Decided' /\ SkewIsExplained'
  BY DEF HInv, Waiting, Decided, SkewIsExplained, policyVars, Early, Accepted, Allowed, Compatible
<1>2. CASE cpc' = "closed"
  BY <1>1, <1>2 DEF HInv, GateFirst, Asking
<1>3. CASE cpc = "hello" /\ cpc' = "status"
  <2>1. Compatible' = Compatible /\ UNCHANGED <<spc, toClient>>
    BY DEF Compatible, policyVars
  <2>2. \A line : Follows(line)' <=> Follows(line)
    BY <2>1 DEF Follows
  <2>3. GateFirst'
    BY <1>3, <2>1, <2>2 DEF HInv, GateFirst, Asking
  <2>4. QED
    BY <1>1, <2>3 DEF HInv
<1>4. QED
  BY <1>2, <1>3

LEMMA ConnectHolds == HInv /\ (Connect \/ ConnectFails) => HInv'
<1> SUFFICES ASSUME HInv, Connect \/ ConnectFails PROVE HInv'
  OBVIOUS
<1>1. TypeOK' /\ spc = "off" /\ toClient = <<>> /\ toClient' = <<>>
  BY DEF HInv, TypeOK, Waiting, Decided, Early, Connect, ConnectFails, policyVars, ClientEnds
<1>2. Waiting' /\ Decided' /\ SkewIsExplained'
  BY <1>1 DEF HInv, Waiting, Decided, SkewIsExplained, Connect, ConnectFails, policyVars, Early, Accepted
<1>3. GateFirst'
  BY <1>1 DEF GateFirst, Connect, ConnectFails
<1>4. QED
  BY <1>1, <1>2, <1>3 DEF HInv

LEMMA ClientSendsHelloHolds == HInv /\ ClientSendsHello => HInv'
<1> SUFFICES ASSUME HInv, ClientSendsHello PROVE HInv'
  OBVIOUS
<1> request \in ClientHello => <<request>> \in Seq(ClientHello)
  OBVIOUS
<1>1. TypeOK'
  BY DEF HInv, TypeOK, ClientSendsHello, policyVars, ClientEnds
<1>2. toServer' \in {<<>>, <<request>>}
  BY DEF HInv, Waiting, ClientSendsHello
<1>3. QED
  BY <1>1, <1>2, ClientMoves DEF ClientSendsHello, policyVars

LEMMA ClientReadsStatusHolds == HInv /\ ClientReadsStatus => HInv'
<1> SUFFICES ASSUME HInv, ClientReadsStatus PROVE HInv'
  OBVIOUS
<1>1. /\ toClient \in Seq(Lines) /\ toClient # <<>> /\ cpc = "status"
      /\ toClient[1] = ServerStatus(Compatible) /\ Compatible \in BOOLEAN
      /\ ~Compatible => spc = "refused"
  BY DEF HInv, TypeOK, Lines, GateFirst, Asking, ClientReadsStatus, Compatible, version_compatible
<1>2. /\ toClient' \in Seq(Lines) /\ Len(toClient') = Len(toClient) - 1
      /\ \A i \in 1..Len(toClient') : toClient'[i] = toClient[i+1]
  BY <1>1, HeadTailProperties DEF ClientReadsStatus
<1>3. cpc' = IF Compatible THEN "await" ELSE "rejected"
  BY <1>1, LineFacts DEF ClientReadsStatus
<1>4. TypeOK'
  BY <1>2, <1>3 DEF HInv, TypeOK, Lines, ClientReadsStatus, policyVars, ClientEnds
<1>5. Compatible' = Compatible /\ UNCHANGED <<spc, link, toServer, request>>
  BY DEF Compatible, ClientReadsStatus, policyVars
<1>6. Waiting' /\ Decided'
  BY <1>1, <1>3, <1>5 DEF HInv, Waiting, Decided, ClientReadsStatus, policyVars, Early, Accepted, Allowed
<1>7. GateFirst'
  <2>1. \A i \in 1..Len(toClient') : Follows(toClient'[i])
    BY <1>1, <1>2, <1>5 DEF HInv, GateFirst, Asking
  <2>2. QED
    BY <1>3, <1>5, <2>1 DEF GateFirst, Asking, Follows
<1>8. SkewIsExplained'
  BY <1>1, <1>3, <1>5, ServerVersionAssumption
  DEF SkewIsExplained, Compatible, version_compatible
<1>9. QED
  BY <1>4, <1>6, <1>7, <1>8 DEF HInv

LEMMA ClientReadsHelloHolds ==
  HInv /\ ClientReadsHello => HInv' /\ (cpc' = "ready" => spc \in Accepted)
<1> SUFFICES ASSUME HInv, ClientReadsHello
             PROVE  HInv' /\ (cpc' = "ready" => spc \in Accepted)
  OBVIOUS
<1>1. toClient \in Seq(Lines) /\ toClient # <<>> /\ cpc = "await" /\ Compatible
  BY DEF HInv, TypeOK, Lines, Waiting, ClientReadsHello
<1>2. Len(toClient) >= 1 /\ Follows(toClient[1])
  BY <1>1 DEF HInv, GateFirst
<1>3. toClient' \in Seq(Lines)
  BY <1>1, HeadTailProperties DEF ClientReadsHello
<1>4. \/ cpc' = "ready" /\ spc \in Accepted
      \/ cpc' = "garbled" /\ spc = "refused"
  <2>1. Head(toClient) = toClient[1]
    BY <1>1
  <2>2. CASE toClient[1] = ServerHello /\ spc \in Accepted
    BY <2>1, <2>2, LineFacts DEF ClientReadsHello
  <2>3. CASE toClient[1] = ServerStatus(FALSE) /\ spc = "refused"
    BY <2>1, <2>3, LineFacts DEF ClientReadsHello
  <2>4. QED
    BY <1>2, <2>2, <2>3 DEF Follows
<1>5. TypeOK'
  BY <1>3, <1>4 DEF HInv, TypeOK, Lines, ClientReadsHello, policyVars, ClientEnds
<1>6. Waiting' /\ Decided'
  BY <1>1, <1>4 DEF HInv, Waiting, Decided, ClientReadsHello, policyVars, Early, Accepted, Allowed, Compatible
<1>7. GateFirst'
  BY <1>4 DEF GateFirst, Asking
<1>8. SkewIsExplained'
  BY <1>1, <1>4 DEF SkewIsExplained, ClientReadsHello, policyVars, Compatible, version_compatible
<1>9. QED
  BY <1>4, <1>5, <1>6, <1>7, <1>8 DEF HInv

LEMMA ClientEofHolds == HInv /\ ClientEof => HInv'
<1> SUFFICES ASSUME HInv, ClientEof PROVE HInv'
  OBVIOUS
<1>1. TypeOK' /\ toServer' \in {<<>>, <<request>>}
  BY DEF HInv, TypeOK, Waiting, ClientEof, policyVars, ClientEnds
<1>2. QED
  BY <1>1, ClientMoves DEF ClientEof, policyVars

-----------------------------------------------------------------------------
(* The steps of the server.                                                *)

LEMMA ServerStartsHolds == HInv /\ ServerStarts => HInv'
<1> SUFFICES ASSUME HInv, ServerStarts PROVE HInv'
  OBVIOUS
<1>1. TypeOK'
  BY DEF HInv, TypeOK, ServerStarts, policyVars, ServerEnds
<1>2. toClient = <<>> /\ toClient' = <<>>
  BY DEF HInv, Decided, Early, ServerStarts
<1>3. Waiting' /\ Decided' /\ SkewIsExplained'
  BY <1>2 DEF HInv, Waiting, Decided, SkewIsExplained, ServerStarts, policyVars, Early, Accepted, Compatible
<1>4. GateFirst'
  BY <1>2 DEF GateFirst, ServerStarts
<1>5. QED
  BY <1>1, <1>3, <1>4 DEF HInv

\* A line is added to the wire, or is not, by a server that leaves its state
\* for a later one.
LEMMA ServerSays ==
  ASSUME HInv, TypeOK', UNCHANGED <<policyVars, cpc, toServer, link>>,
         spc \in {"name", "state"}, spc' \in {"refused", "flush"}, spc' = "flush" => Allowed,
         NEW line \in Lines, toClient' \in AsItExits(line) \cup {Sent(line)},
         line = IF spc' = "flush" THEN ServerHello ELSE ServerStatus(FALSE)
  PROVE  HInv'
<1>1. /\ toClient \in Seq(Lines) /\ Compatible /\ Compatible' = Compatible
      /\ Allowed' = Allowed
  BY DEF HInv, TypeOK, Lines, Decided, Compatible, policyVars, Allowed
<1>2. /\ toClient' \in Seq(Lines) /\ Len(toClient') >= Len(toClient)
      /\ \A i \in 1..Len(toClient') : i <= Len(toClient) => toClient'[i] = toClient[i]
      /\ \A i \in 1..Len(toClient') :
            i > Len(toClient) => link /\ i = Len(toClient) + 1 /\ toClient'[i] = line
  BY <1>1, SentFacts
<1>3. cpc \in Asking /\ link => toClient # <<>>
  BY DEF HInv, GateFirst
<1>4. Waiting' /\ Decided' /\ SkewIsExplained'
  BY <1>1 DEF HInv, Waiting, Decided, SkewIsExplained, Early, Accepted, policyVars
<1>5. \A i \in 1..Len(toClient) :
         ~(cpc = "await" \/ (cpc \in Asking /\ i > 1))
  <2>1. \A x : ~Follows(x)
    BY DEF Follows, Accepted
  <2>2. QED
    BY <2>1 DEF HInv, GateFirst
<1>6. GateFirst'
  <2>1. ASSUME cpc \in Asking, toClient' # <<>> PROVE toClient'[1] = ServerStatus(Compatible)
    <3>1. Len(toClient') >= 1
      BY <1>2, <2>1
    <3>2. toClient # <<>>
      <4>1. ASSUME toClient = <<>> PROVE link
        <5>1. 1 > Len(toClient) /\ 1 \in 1..Len(toClient')
          BY <1>2, <3>1, <4>1
        <5>2. QED
          BY <1>2, <5>1
      <4>2. QED
        BY <1>3, <2>1, <4>1
    <3>3. Len(toClient) >= 1 /\ toClient'[1] = toClient[1]
      BY <1>1, <1>2, <3>1, <3>2
    <3>4. QED
      BY <2>1, <3>2, <3>3 DEF HInv, GateFirst
  <2>2. ASSUME NEW i \in 1..Len(toClient'), cpc = "await" \/ (cpc \in Asking /\ i > 1)
        PROVE  Follows(toClient[i])'
    <3>1. Len(toClient) \in Nat /\ Len(toClient') \in Nat
      BY <1>1, <1>2
    <3>2. i > Len(toClient)
      BY <1>5, <2>2, <3>1
    <3>3. toClient'[i] = line
      BY <1>2, <3>2
    <3>4. QED
      BY <1>1, <3>3 DEF Follows, Accepted
  <2>3. (cpc \in Asking /\ link /\ spc \in {"name", "state"})' => (toClient # <<>>)'
    OBVIOUS
  <2>4. QED
    BY <1>1, <2>1, <2>2, <2>3 DEF GateFirst
<1>7. QED
  BY <1>4, <1>6 DEF HInv

LEMMA ServerChecksVersionHolds == HInv /\ ServerChecksVersion => HInv'
<1> SUFFICES ASSUME HInv, ServerChecksVersion PROVE HInv'
  OBVIOUS
<1>1. spc = "hello" /\ toClient = <<>> /\ cpc \notin {"await", "start", "rejected", "garbled"}
  BY DEF HInv, Waiting, Decided, SkewIsExplained, Early, ServerChecksVersion
<1>2. toServer = <<request>> /\ request \in ClientHello
  BY DEF HInv, TypeOK, Waiting, ServerChecksVersion
<1>3. Head(toServer) = request /\ toServer' = <<>>
  BY <1>2, OneLine DEF ServerChecksVersion
<1>4. Compatible' = Compatible /\ Compatible \in BOOLEAN
  BY DEF Compatible, version_compatible, ServerChecksVersion, policyVars
<1>5. PICK gate \in Lines :
         /\ gate = ServerStatus(Compatible)
         /\ toClient' \in {<<>>, <<gate>>}
         /\ Compatible /\ link => toClient' = <<gate>>
         /\ spc' = IF Compatible THEN "name" ELSE "refused"
  <2>1. \A line : Append(toClient, line) = <<line>>
    BY <1>1
  <2>2. CASE Compatible
    <3>1. spc' = "name" /\ toClient' = Sent(ServerStatus(TRUE)) /\ Compatible = TRUE
      BY <1>3, <1>4, <2>2 DEF ServerChecksVersion, Compatible
    <3>2. toClient' = IF link THEN <<ServerStatus(TRUE)>> ELSE <<>>
      BY <1>1, <2>1, <3>1 DEF Sent
    <3>3. ServerStatus(TRUE) \in Lines
      BY DEF Lines
    <3>4. QED
      BY <3>1, <3>2, <3>3
  <2>3. CASE ~Compatible
    <3>1. spc' = "refused" /\ toClient' \in AsItExits(ServerStatus(FALSE)) /\ Compatible = FALSE
      BY <1>3, <1>4, <2>3 DEF ServerChecksVersion, Compatible
    <3>2. toClient' = <<ServerStatus(FALSE)>> \/ toClient' = <<>>
      BY <1>1, <2>1, <3>1 DEF Sent, AsItExits
    <3>3. ServerStatus(FALSE) \in Lines
      BY DEF Lines
    <3>4. QED
      BY <3>1, <3>2, <3>3
  <2>4. QED
    BY <2>2, <2>3
<1>6. TypeOK'
  <2>1. toClient' \in Seq(Lines)
    <3>1. <<>> \in Seq(Lines) /\ <<gate>> \in Seq(Lines)
      BY EmptySeq, OneLine
    <3>2. QED
      BY <1>5, <3>1
  <2>2. toServer' \in Seq(ClientHello)
    BY <1>3
  <2>3. QED
    BY <1>5, <2>1, <2>2 DEF HInv, TypeOK, Lines, ServerChecksVersion, policyVars, ServerEnds
<1>7. Waiting' /\ Decided' /\ SkewIsExplained'
  BY <1>1, <1>3, <1>4, <1>5
  DEF HInv, Waiting, Decided, SkewIsExplained, Early, Accepted, ServerChecksVersion, policyVars
<1>8. GateFirst'
  <2>1. \A i \in 1..Len(toClient') : ~(i > 1)
    <3>1. Len(<<>>) = 0 /\ Len(<<gate>>) = 1
      BY EmptySeq, OneLine
    <3>2. CASE toClient' = <<>>
      BY <3>1, <3>2
    <3>3. CASE toClient' = <<gate>>
      BY <3>1, <3>3
    <3>4. QED
      BY <1>5, <3>2, <3>3
  <2>2. cpc' # "await" /\ link' = link /\ cpc' = cpc
    BY <1>1 DEF ServerChecksVersion
  <2>3. toClient' # <<>> => toClient'[1] = ServerStatus(Compatible)
    BY <1>5, OneLine
  <2>4. link /\ spc' \in {"name", "state"} => toClient' # <<>>
    BY <1>5, OneLine
  <2>5. ~Compatible => spc' = "refused"
    BY <1>5
  <2>6. QED
    BY <1>4, <2>1, <2>2, <2>3, <2>4, <2>5 DEF GateFirst
<1>9. QED
  BY <1>6, <1>7, <1>8 DEF HInv

\* The server exits without a word; what it had written may go with it.
LEMMA ServerFails ==
  ASSUME HInv, UNCHANGED <<policyVars, cpc, link>>, toServer' = toServer,
         toClient' \in Vanishing, spc \notin {"off", "refused"}, spc' = "failed",
         spc \in Accepted => FALSE
  PROVE  HInv'
<1>1. TypeOK'
  <2>1. toClient' \in Seq(Lines)
    <3>1. toClient \in Seq(Lines) /\ <<>> \in Seq(Lines)
      BY EmptySeq DEF HInv, TypeOK, Lines
    <3>2. QED
      BY <3>1 DEF Vanishing
  <2>2. QED
    BY <2>1 DEF HInv, TypeOK, Lines, policyVars, ServerEnds
<1>2. Waiting' /\ Decided' /\ SkewIsExplained'
  BY DEF HInv, TypeOK, Waiting, Decided, SkewIsExplained, Early, Accepted, policyVars, Compatible
<1>3. GateFirst'
  <2>1. CASE toClient' = <<>>
    BY <2>1 DEF GateFirst
  <2>2. CASE toClient' = toClient
    <3>1. \A x : ~Follows(x)
      BY DEF Follows, Accepted
    <3>2. Compatible' = Compatible
      BY DEF Compatible, policyVars
    <3>3. cpc \in Asking /\ toClient # <<>> => Compatible
      BY DEF HInv, GateFirst
    <3>4. QED
      BY <2>2, <3>1, <3>2, <3>3 DEF HInv, GateFirst
  <2>3. QED
    BY <2>1, <2>2 DEF Vanishing
<1>4. QED
  BY <1>1, <1>2, <1>3 DEF HInv

LEMMA ServerChecksNameHolds == HInv /\ ServerChecksName => HInv'
<1> SUFFICES ASSUME HInv, ServerChecksName PROVE HInv'
  OBVIOUS
<1>1. spc = "name" /\ UNCHANGED <<policyVars, cpc, toServer, link>> /\ Compatible
  BY DEF HInv, Decided, ServerChecksName, policyVars
<1>2. CASE MayReceive /\ spc' = "state" /\ UNCHANGED toClient
  <2>1. Allowed /\ Compatible' /\ Allowed'
    BY <1>1, <1>2 DEF Allowed, Compatible, MayReceive, policyVars
  <2>2. TypeOK' /\ Waiting' /\ Decided' /\ SkewIsExplained'
    BY <1>1, <1>2, <2>1 DEF HInv, TypeOK, Waiting, Decided, SkewIsExplained, Early, Accepted, policyVars
  <2>3. \A x : ~Follows(x)
    BY <1>1 DEF Follows, Accepted
  <2>4. GateFirst'
    BY <1>1, <1>2, <2>1, <2>3 DEF HInv, GateFirst, Compatible
  <2>5. QED
    BY <2>2, <2>4 DEF HInv
<1>3. CASE spc' = "failed" /\ toClient' \in Vanishing
  BY <1>1, <1>3, ServerFails DEF Accepted
<1>4. CASE spc' = "refused" /\ toClient' \in AsItExits(ServerStatus(FALSE))
  <2>1. ServerStatus(FALSE) \in Lines /\ toClient \in Seq(Lines)
    BY DEF HInv, TypeOK, Lines
  <2>2. toClient' \in Seq(Lines)
    BY <1>4, <2>1, SentFacts
  <2>3. TypeOK'
    BY <1>1, <1>4, <2>2 DEF HInv, TypeOK, Lines, policyVars, ServerEnds
  <2>4. QED
    BY <1>1, <1>4, <2>1, <2>3, ServerSays
<1>5. QED
  BY <1>2, <1>3, <1>4 DEF ServerChecksName

LEMMA ServerSendsHelloHolds == HInv /\ ServerSendsHello => HInv'
<1> SUFFICES ASSUME HInv, ServerSendsHello PROVE HInv'
  OBVIOUS
<1>1. spc = "state" /\ UNCHANGED <<policyVars, cpc, toServer, link>> /\ Allowed
  BY DEF HInv, Decided, ServerSendsHello, policyVars
<1>2. CASE spc' = "failed" /\ toClient' \in Vanishing
  BY <1>1, <1>2, ServerFails DEF Accepted
<1>3. CASE spc' = "flush" /\ toClient' = Sent(ServerHello)
  <2>1. ServerHello \in Lines /\ toClient \in Seq(Lines)
    BY DEF HInv, TypeOK, Lines
  <2>2. toClient' \in Seq(Lines)
    BY <1>3, <2>1, SentFacts
  <2>3. TypeOK'
    BY <1>1, <1>3, <2>2 DEF HInv, TypeOK, Lines, policyVars, ServerEnds
  <2>4. QED
    BY <1>1, <1>3, <2>1, <2>3, ServerSays
<1>4. QED
  BY <1>2, <1>3 DEF ServerSendsHello

LEMMA ServerFlushesHolds == HInv /\ ServerFlushes => HInv'
<1> SUFFICES ASSUME HInv, ServerFlushes PROVE HInv'
  OBVIOUS
<1>1. /\ spc \in Accepted /\ spc' \in Accepted /\ spc' \in ServerEnds
      /\ UNCHANGED <<policyVars, cpc, toServer, toClient, link>>
  BY DEF ServerFlushes, Accepted, ServerEnds
<1>2. Compatible' = Compatible /\ Allowed' = Allowed
  BY <1>1 DEF Compatible, Allowed, policyVars
<1>3. TypeOK' /\ Waiting' /\ Decided' /\ SkewIsExplained'
  BY <1>1, <1>2 DEF HInv, TypeOK, Waiting, Decided, SkewIsExplained, Early, Accepted, policyVars
<1>4. \A x : Follows(x) => Follows(x)'
  BY <1>1, <1>2 DEF Follows, Accepted
<1>5. GateFirst'
  <2>1. spc # "refused" /\ spc' # "name" /\ spc' # "state"
    BY <1>1 DEF Accepted
  <2>2. QED
    BY <1>1, <1>2, <1>4, <2>1 DEF HInv, GateFirst
<1>6. QED
  BY <1>3, <1>5 DEF HInv

LEMMA ServerLosesLinkHolds == HInv /\ ServerLosesLink => HInv'
<1> SUFFICES ASSUME HInv, ServerLosesLink PROVE HInv'
  OBVIOUS
<1>1. /\ spc \in {"hello", "name", "state"} /\ spc' = "failed" /\ toClient' \in Vanishing
      /\ UNCHANGED <<policyVars, cpc, link>> /\ toServer' = toServer
  BY DEF ServerLosesLink, Vanishing
<1>2. QED
  BY <1>1, ServerFails DEF Accepted

-----------------------------------------------------------------------------
(* Failures.                                                               *)

LEMMA DisconnectHolds == HInv /\ Disconnect => HInv'
<1> SUFFICES ASSUME HInv, Disconnect PROVE HInv'
  OBVIOUS
<1>1. link' = FALSE /\ UNCHANGED <<policyVars, cpc, spc>>
  BY DEF Disconnect, policyVars
<1>2. toClient \in Seq(Lines) /\ toServer \in Seq(ClientHello) /\ request \in ClientHello
  BY DEF HInv, TypeOK, Lines
<1>3. /\ toClient' \in Seq(Lines) /\ Len(toClient') <= Len(toClient)
      /\ \A i \in 1..Len(toClient') : toClient'[i] = toClient[i]
  BY <1>2, PrefixFacts DEF Disconnect
<1>4. /\ toServer' \in Seq(ClientHello) /\ Len(toServer') <= Len(toServer)
      /\ \A i \in 1..Len(toServer') : toServer'[i] = toServer[i]
  BY <1>2, PrefixFacts DEF Disconnect
<1>5. toServer' \in {<<>>, <<request>>}
  <2>1. CASE toServer = <<>>
    BY <1>4, <2>1
  <2>2. CASE toServer = <<request>>
    BY <1>2, <1>4, <2>2
  <2>3. QED
    BY <2>1, <2>2 DEF HInv, Waiting
<1>6. toClient = <<>> => toClient' = <<>>
  BY <1>3
<1>7. Compatible' = Compatible /\ Allowed' = Allowed /\ \A x : Follows(x)' <=> Follows(x)
  BY <1>1 DEF Compatible, Allowed, Follows, policyVars
<1>8. TypeOK'
  BY <1>1, <1>3, <1>4 DEF HInv, TypeOK, Lines, policyVars
<1>9. Waiting' /\ Decided' /\ SkewIsExplained'
  BY <1>1, <1>5, <1>6, <1>7 DEF HInv, Waiting, Decided, SkewIsExplained, policyVars
<1>10. GateFirst'
  <2>1. Len(toClient) \in Nat /\ Len(toClient') \in Nat
    BY <1>2, <1>3
  <2>2. toClient' # <<>> => toClient # <<>> /\ toClient'[1] = toClient[1]
    BY <1>3, <1>6
  <2>3. \A i \in 1..Len(toClient') : i \in 1..Len(toClient)
    BY <1>3, <2>1
  <2>4. QED
    BY <1>1, <1>3, <1>7, <2>2, <2>3 DEF HInv, GateFirst
<1>11. QED
  BY <1>8, <1>9, <1>10 DEF HInv

LEMMA ClientDiesHolds == HInv /\ ClientDies => HInv'
<1> SUFFICES ASSUME HInv, ClientDies PROVE HInv'
  OBVIOUS
<1>1. TypeOK' /\ toServer' \in {<<>>, <<request>>}
  BY DEF HInv, TypeOK, Waiting, ClientDies, policyVars, ClientEnds
<1>2. QED
  BY <1>1, ClientMoves DEF ClientDies, policyVars

LEMMA StutterHolds == HInv /\ UNCHANGED vars => HInv'
<1> SUFFICES ASSUME HInv, UNCHANGED vars PROVE HInv'
  OBVIOUS
<1>1. Compatible' = Compatible /\ Allowed' = Allowed /\ \A x : Follows(x)' <=> Follows(x)
  BY DEF vars, policyVars, Compatible, Allowed, Follows
<1>2. TypeOK' /\ Waiting' /\ Decided' /\ SkewIsExplained'
  BY <1>1 DEF HInv, vars, policyVars, TypeOK, Waiting, Decided, SkewIsExplained
<1>3. GateFirst'
  BY <1>1 DEF HInv, vars, policyVars, GateFirst
<1>4. QED
  BY <1>2, <1>3 DEF HInv

LEMMA StepHolds == HInv /\ [Next]_vars => HInv'
<1> SUFFICES ASSUME HInv, [Next]_vars PROVE HInv'
  OBVIOUS
<1>1. CASE ClientStep
  BY <1>1, ConnectHolds, ClientSendsHelloHolds, ClientReadsStatusHolds, ClientReadsHelloHolds,
     ClientEofHolds DEF ClientStep
<1>2. CASE ServerStep
  BY <1>2, ServerStartsHolds, ServerChecksVersionHolds, ServerChecksNameHolds,
     ServerSendsHelloHolds, ServerFlushesHolds, ServerLosesLinkHolds DEF ServerStep
<1>3. CASE Disconnect
  BY <1>3, DisconnectHolds
<1>4. CASE ClientDies
  BY <1>4, ClientDiesHolds
<1>5. CASE UNCHANGED vars
  BY <1>5, StutterHolds
<1>6. QED
  BY <1>1, <1>2, <1>3, <1>4, <1>5 DEF Next

LEMMA Invariance == Spec => []HInv
<1>1. Init => HInv
  BY InitHolds
<1>2. HInv /\ [Next]_vars => HInv'
  BY StepHolds
<1>3. QED
  BY <1>1, <1>2, PTL DEF Spec

\* client_handshake and server_handshake: a rejection the client shows is the
\* version gate's and an answer it cannot decode is never due to a version skew,
\* for all versions, configs and keys.
THEOREM SkewExplained == Spec => []SkewIsExplained
<1>1. HInv => SkewIsExplained
  BY DEF HInv
<1>2. QED
  BY <1>1, Invariance, PTL

\* Every line on the wire is a message of the protocol and both handshakes are
\* in one of their states, for all versions, configs and keys, whatever is lost.
THEOREM HandshakeTyped == Spec => []TypeOK
<1>1. HInv => TypeOK
  BY DEF HInv
<1>2. QED
  BY <1>1, Invariance, PTL

-----------------------------------------------------------------------------
(* The refinement.                                                         *)

LEMMA InitRefines == Init => Abstract!Init
<1> SUFFICES ASSUME Init PROVE Abstract!Init
  OBVIOUS
<1>1. Allowed \in BOOLEAN
  BY DEF Allowed
<1>2. Decision = "open" /\ Verdict = "open"
  BY DEF Init, Decision, Verdict, Accepted, ClientEnds
<1>3. QED
  BY <1>1, <1>2 DEF Abstract!Init

LEMMA StepRefines == HInv /\ [Next]_vars => [Abstract!Next]_(Abstract!vars)
<1> SUFFICES ASSUME HInv, [Next]_vars PROVE [Abstract!Next]_(Abstract!vars)
  OBVIOUS
<1>1. UNCHANGED <<policyVars>> /\ Allowed' = Allowed
  <2>1. UNCHANGED policyVars
    BY DEF Next, vars, policyVars, ClientStep, ServerStep, ConnectFails, Connect, ClientSendsHello,
           ClientReadsStatus, ClientReadsHello, ClientEof, ServerStarts, ServerChecksVersion,
           ServerChecksName, ServerSendsHello, ServerFlushes, ServerLosesLink, Disconnect, ClientDies
  <2>2. QED
    BY <2>1 DEF policyVars, Allowed
<1>2. CASE Verdict' = Verdict /\ Decision' = Decision
  BY <1>1, <1>2 DEF Abstract!vars
<1>3. CASE Verdict = "open" /\ Verdict' = "gave_up" /\ Decision' = Decision
  BY <1>1, <1>3 DEF Abstract!Next, Abstract!GiveUp
<1>4. CASE Verdict = "open" /\ Verdict' = "proceeds" /\ Decision = "accepted" /\ Decision' = Decision
  BY <1>1, <1>4 DEF Abstract!Next, Abstract!Proceed
<1>5. CASE Verdict' = Verdict /\ Decision = "open" /\ Decision' = "refused"
  BY <1>1, <1>5 DEF Abstract!Next, Abstract!Refuse
<1>6. CASE Verdict' = Verdict /\ Decision = "open" /\ Decision' = "accepted" /\ Allowed
  BY <1>1, <1>6 DEF Abstract!Next, Abstract!Accept
<1> USE DEF Decision, Verdict, Accepted, ClientEnds
<1>7. CASE ClientReadsHello
  <2>1. spc' = spc /\ cpc = "await" /\ cpc' \in {"ready", "garbled"}
    BY <1>7 DEF ClientReadsHello
  <2>2. cpc' = "ready" => spc \in Accepted
    BY <1>7, ClientReadsHelloHolds
  <2>3. QED
    BY <1>3, <1>4, <2>1, <2>2
<1>8. CASE ClientStep /\ ~ClientReadsHello
  <2>1. CASE Connect
    BY <1>2, <2>1 DEF Connect, HInv, Waiting
  <2>2. spc' = spc \/ Connect
    BY <1>8 DEF ClientStep, ConnectFails, ClientSendsHello, ClientReadsStatus, ClientEof
  <2>3. /\ cpc \in {"start", "hello", "status", "await"}
        /\ cpc' \in {"hello", "status", "await", "closed", "garbled", "rejected"}
    BY <1>8 DEF ClientStep, ConnectFails, Connect, ClientSendsHello, ClientReadsStatus, ClientEof
  <2>4. QED
    BY <1>2, <1>3, <2>1, <2>2, <2>3
<1>9. CASE ServerSendsHello
  <2>1. cpc' = cpc /\ spc = "state" /\ spc' \in {"flush", "failed"} /\ Allowed
    BY <1>9 DEF ServerSendsHello, HInv, Decided
  <2>2. QED
    BY <1>5, <1>6, <2>1
<1>10. CASE ServerStep /\ ~ServerSendsHello
  <2>1. cpc' = cpc
    BY <1>10 DEF ServerStep, ServerStarts, ServerChecksVersion, ServerChecksName, ServerFlushes,
                 ServerLosesLink
  <2>2. \/ spc = "flush" /\ spc' \in {"ready", "cut"}
        \/ /\ spc \in {"start", "hello", "name", "state"}
           /\ spc' \in {"hello", "name", "state", "refused", "failed"}
    BY <1>10 DEF ServerStep, ServerStarts, ServerChecksVersion, ServerChecksName, ServerFlushes,
                 ServerLosesLink
  <2>3. QED
    BY <1>2, <1>5, <2>1, <2>2
<1>11. CASE Disconnect \/ UNCHANGED vars
  BY <1>2, <1>11 DEF Disconnect, vars
<1>12. CASE ClientDies
  <2>1. spc' = spc /\ cpc \notin ClientEnds /\ cpc' = "closed"
    BY <1>12 DEF ClientDies
  <2>2. QED
    BY <1>3, <2>1
<1>13. QED
  BY <1>7, <1>8, <1>9, <1>10, <1>11, <1>12 DEF Next

\* The handshake of handshake.rs implements Agreement: whatever is lost, refused
\* or not flushed, the server accepts only what version, key and allow list
\* permit, and the client goes on only after that.
THEOREM Implements == Spec => ImplementsAgreement
<1>1. Init => Abstract!Init
  BY InitRefines
<1>2. HInv /\ [Next]_vars => [Abstract!Next]_(Abstract!vars)
  BY StepRefines
<1>3. QED
  BY <1>1, <1>2, Invariance, PTL DEF Spec, ImplementsAgreement, Abstract!Spec
=============================================================================
