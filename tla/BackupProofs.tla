---------------------------- MODULE BackupProofs ----------------------------
(***************************************************************************)
(* Proofs about Backup, for every set of Remotes and sessions and every    *)
(* value of the bounds.                                                    *)
(***************************************************************************)
EXTENDS Backup, FiniteSetTheorems, TLAPS

-----------------------------------------------------------------------------
(* Facts about the helpers.                                                *)

\* A dataset has at most one newest Snapshot.
LEMMA NewestUnique ==
  ASSUME NEW S \in SUBSET Time, NEW g, NEW h, IsNewest(g, S), IsNewest(h, S)
  PROVE  g = h
<1>1. CASE S = {}
  BY <1>1 DEF IsNewest
<1>2. CASE S # {}
  <2>1. g \in S /\ h \in S /\ g <= h /\ h <= g
    BY <1>2 DEF IsNewest
  <2>2. g \in Int /\ h \in Int
    BY <2>1, BoundsAssumption DEF Time
  <2> QED BY <2>1, <2>2
<1> QED BY <1>1, <1>2

\* zfs send emits a stream for a Snapshot, or nothing.
LEMMA EmittedType ==
  ASSUME NEW want \in [base : 0..MaxTime, to : 0..MaxTime], TypeOK
  PROVE  Emitted(want) \in Stream
  BY DEF Emitted, Stream, TypeOK, Datasets

\* A decision is one of the TransferDecisions, or divergence.
LEMMA DecisionType ==
  ASSUME NEW h, NEW loc, NEW lat
  PROVE  decide_transfer(h, loc, lat) \in Sending \cup {"uptodate", "diverged"}
  BY DEF decide_transfer, Sending

LEMMA RequestedType ==
  ASSUME NEW k, NEW h \in [head : 0..MaxTime, token : Stream],
         NEW lat \in 0..MaxTime
  PROVE  Requested(k, h, lat) \in [base : 0..MaxTime, to : 0..MaxTime]
  BY BoundsAssumption DEF Requested, Stream, NoStream, Time

-----------------------------------------------------------------------------
(* Type correctness.                                                       *)

\* TypeOK is not inductive: that a receive that completes adds a Snapshot needs
\* that a receive in progress has a stream.
ReceivesAStream ==
  \A s \in Sessions : spc[s] = "receiving" => stream[s] # NoStream

TypeInv == TypeOK /\ ReceivesAStream

LEMMA InitType == Init => TypeInv
  BY BoundsAssumption
  DEF Init, TypeInv, ReceivesAStream, TypeOK, Datasets, Time, NoSnap, NoStream, Stream, ClientPC,
      ServerPC, PrunePC, Sending

USE DEF Datasets

\* Every step of a client keeps the types.
LEMMA ClientType ==
  ASSUME NEW s \in Sessions, TypeOK, ClientStep(s)
  PROVE  TypeOK'
<1> USE BoundsAssumption, SessionsAssumption
    DEF TypeOK, zfsVars, clientVars, serverVars, pruneVars, ackVars, ClientPC
<1>1. CASE ClientDecide(s)
  <2> DEFINE k == decide_transfer(hello[s], local[s], latest[s])
  <2>1. k \in Sending \cup {"uptodate", "diverged"}
    BY DecisionType
  <2>2. Emitted(Requested(k, hello[s], latest[s])) \in Stream
    BY RequestedType, EmittedType
  <2>3. kind' \in [Sessions -> Sending \cup {"none", "uptodate", "diverged"}]
    BY <1>1, <2>1 DEF ClientDecide
  <2>4. stream' \in [Sessions -> Stream] /\ cpc' \in [Sessions -> ClientPC]
    <3> HIDE DEF k
    <3>1. CASE k \in Sending
      <4> DEFINE e == Emitted(Requested(k, hello[s], latest[s]))
      <4>1. /\ stream' = [stream EXCEPT ![s] = e]
            /\ cpc' = [cpc EXCEPT ![s] = "stream"]
        BY <1>1, <3>1 DEF ClientDecide, k
      <4>2. e \in Stream
        BY <2>2
      <4> HIDE DEF e
      <4> QED BY <4>1, <4>2
    <3>2. CASE k \notin Sending
      BY <1>1, <3>2 DEF ClientDecide, k
    <3> QED BY <3>1, <3>2
  <2> QED BY <1>1, <2>3, <2>4 DEF ClientDecide
<1>2. CASE ClientReadStatus(s)
  BY <1>2 DEF ClientReadStatus, AfterStatus, AfterStatus
<1>3. CASE ClientFindHeld(s)
  <2>1. {} \in SUBSET Time /\ (cOld[s] \cap srcHold[RemoteOf[s]]) \ {latest[s]} \in SUBSET Time
    OBVIOUS
  <2>2. cOld' \in [Sessions -> SUBSET Time]
    BY <1>3, <2>1 DEF ClientFindHeld
  <2> QED BY <1>3, <2>2 DEF ClientFindHeld
<1>9. CASE ClientListHeld(s)
  <2>1. snaps[Source] \in SUBSET Time
    BY DEF Datasets
  <2> QED BY <1>9, <2>1 DEF ClientListHeld
<1>4. CASE ClientPlaceHold(s)
  BY <1>4 DEF ClientPlaceHold, Acknowledge
<1>5. CASE ClientHoldFails(s)
  BY <1>5 DEF ClientHoldFails, Acknowledge
<1>6. CASE ClientRelease(s)
  BY <1>6 DEF ClientRelease
<1>7. CASE ClientFinish(s)
  BY <1>7 DEF ClientFinish
<1>8. CASE ClientLosesLink(s)
  BY <1>8 DEF ClientLosesLink
<1> QED
  BY <1>1, <1>2, <1>3, <1>4, <1>5, <1>6, <1>7, <1>8, <1>9 DEF ClientStep

\* The end of a receive keeps the types.
LEMMA CompleteType ==
  ASSUME NEW s \in Sessions, TypeInv, spc[s] = "receiving", Complete(s)
  PROVE  /\ snaps' \in [Datasets -> SUBSET Time]
         /\ token' \in [Remotes -> Stream]
         /\ unacked' \in SUBSET Sessions
<1>1. stream[s].to \in Time
  BY DEF TypeInv, TypeOK, ReceivesAStream, Stream
<1> QED
  BY <1>1, SessionsAssumption DEF TypeInv, TypeOK, Complete, Stream

\* Filling in one field of ServerHello keeps its type.
LEMMA HelloField ==
  ASSUME NEW H \in [Sessions -> [head : 0..MaxTime, token : Stream]],
         NEW s \in Sessions, NEW h \in 0..MaxTime, NEW t \in Stream
  PROVE  /\ [H EXCEPT ![s].head = h]
               \in [Sessions -> [head : 0..MaxTime, token : Stream]]
         /\ [H EXCEPT ![s].token = t]
               \in [Sessions -> [head : 0..MaxTime, token : Stream]]
  OBVIOUS

\* Every step of a server keeps the types.
LEMMA ServerType ==
  ASSUME NEW s \in Sessions, TypeInv, ServerStep(s)
  PROVE  TypeOK'
<1> USE BoundsAssumption, SessionsAssumption
    DEF TypeInv, TypeOK, zfsVars, clientVars, serverVars, pruneVars, ackVars,
        ServerPC
<1>1. CASE ServerReadToken(s)
  <2>1. hello' \in [Sessions -> [head : 0..MaxTime, token : Stream]]
    <3>1. 0 \in 0..MaxTime /\ token[RemoteOf[s]] \in Stream
      OBVIOUS
    <3> QED BY <1>1, <3>1, HelloField DEF ServerReadToken
  <2> QED BY <1>1, <2>1 DEF ServerReadToken
<1>2. CASE ServerSendHello(s)
  <2> PICK h \in 0..MaxTime : hello' = [hello EXCEPT ![s].head = h]
    BY <1>2 DEF ServerSendHello
  <2>1. hello' \in [Sessions -> [head : 0..MaxTime, token : Stream]]
    <3>1. NoStream \in Stream
      BY DEF Stream
    <3> QED BY <3>1, HelloField
  <2> QED BY <1>2, <2>1 DEF ServerSendHello
<1>3. CASE ServerReady(s)
  BY <1>3 DEF ServerReady
<1>4. CASE ServerDeclined(s)
  BY <1>4 DEF ServerDeclined
<1>5. CASE RecvBegin(s)
  BY <1>5 DEF RecvBegin
<1>6. CASE RecvReject(s)
  BY <1>6 DEF RecvReject
<1>7. CASE RecvFinish(s)
  BY <1>7, CompleteType DEF RecvFinish
<1>8. CASE RecvInterrupted(s)
  BY <1>8 DEF RecvInterrupted
<1>9. CASE ServerAnnotate(s) \/ ServerReadSince(s)
  BY <1>9 DEF ServerAnnotate, ServerReadSince, Report
<1>16. CASE ServerMark(s)
  BY <1>16 DEF ServerMark, Report, Time
<1>10. CASE ServerHoldList(s)
  <2>1. snaps[RemoteOf[s]] \in SUBSET Time
    BY DEF Datasets
  <2> QED BY <1>10, <2>1 DEF ServerHoldList, Time
<1>17. CASE ServerFindHeld(s)
  <2>1. {} \in SUBSET Time /\ (sOld[s] \cap recvHold[RemoteOf[s]]) \ {sNew[s]} \in SUBSET Time
    OBVIOUS
  <2>2. sOld' \in [Sessions -> SUBSET Time]
    BY <1>17, <2>1 DEF ServerFindHeld
  <2> QED BY <1>17, <2>2 DEF ServerFindHeld
<1>11. CASE ServerPlaceHold(s)
  BY <1>11 DEF ServerPlaceHold
<1>12. CASE ServerHoldFails(s)
  BY <1>12 DEF ServerHoldFails
<1>13. CASE ServerRelease(s)
  BY <1>13 DEF ServerRelease
<1>14. CASE ServerSendStatus(s)
  BY <1>14 DEF ServerSendStatus, Report
<1>15. CASE ServerLosesLink(s)
  BY <1>15 DEF ServerLosesLink
<1> QED
  BY <1>1, <1>2, <1>3, <1>4, <1>5, <1>6, <1>7, <1>8, <1>9, <1>10, <1>11,
     <1>12, <1>13, <1>14, <1>15, <1>16, <1>17 DEF ServerStep

\* Every step of a prune keeps the types.
LEMMA PruneType ==
  ASSUME NEW d \in Pruned, TypeOK, PruneStep(d)
  PROVE  TypeOK'
<1> USE BoundsAssumption, PrunedAssumption, RemotesAssumption
    DEF TypeOK, zfsVars, clientVars, serverVars, pruneVars, ackVars, PrunePC
<1>1. CASE PruneReadToken(d)
  BY <1>1 DEF PruneReadToken
<1>8. CASE PruneReadSince(d)
  <2>1. ppc' \in [Datasets -> PrunePC]
    BY <1>8 DEF PruneReadSince, resume_decision
  <2> QED BY <1>8, <2>1 DEF PruneReadSince
<1>2. CASE PruneAbort(d)
  <2>1. token' \in [Remotes -> Stream]
    BY <1>2 DEF PruneAbort, Stream, HasToken
  <2>2. PICK pc \in {"clear", "idle"} : ppc' = [ppc EXCEPT ![d] = pc]
    BY <1>2 DEF PruneAbort
  <2>3. ppc' \in [Datasets -> PrunePC]
    BY <2>2
  <2> QED BY <1>2, <2>1, <2>3 DEF PruneAbort
<1>3. CASE PruneClear(d)
  <2>1. since' \in [Remotes -> 0..MaxTime]
    <3>1. CASE d \in Remotes
      BY <1>3, <3>1 DEF PruneClear
    <3>2. CASE d \notin Remotes
      BY <1>3, <3>2 DEF PruneClear
    <3> QED BY <3>1, <3>2
  <2> QED BY <1>3, <2>1 DEF PruneClear
<1>4. CASE PruneList(d)
  <2> PICK C \in SUBSET Deletable(snaps[d]) : cand' = [cand EXCEPT ![d] = C]
    BY <1>4 DEF PruneList
  <2>1. C \in SUBSET Time
    BY DEF Deletable
  <2>2. cand' \in [Datasets -> SUBSET Time]
    BY <2>1
  <2> QED BY <1>4, <2>2 DEF PruneList
<1>5. CASE PruneClassify(d)
  BY <1>5 DEF PruneClassify
<1>6. CASE PruneDestroy(d)
  <2>1. snaps' \in [Datasets -> SUBSET Time]
    BY <1>6 DEF PruneDestroy
  <2>2. cand' \in [Datasets -> SUBSET Time]
    BY <1>6 DEF PruneDestroy
  <2>3. ppc' \in [Datasets -> PrunePC]
    BY <1>6 DEF PruneDestroy
  <2> QED BY <1>6, <2>1, <2>2, <2>3 DEF PruneDestroy
<1>7. CASE PruneEnd(d)
  BY <1>7 DEF PruneEnd
<1> QED
  BY <1>1, <1>2, <1>3, <1>4, <1>5, <1>6, <1>7, <1>8 DEF PruneStep

\* The remaining steps of a session keep the types.
LEMMA SessionType ==
  ASSUME NEW s \in Sessions, TypeInv,
         \/ StartSend(s) \/ EndSession(s) \/ Disconnect(s)
         \/ ClientStops(s) \/ ServerStops(s)
  PROVE  TypeOK'
<1> USE BoundsAssumption, SessionsAssumption
    DEF TypeInv, TypeOK, zfsVars, clientVars, serverVars, pruneVars, ackVars,
        ServerPC, ClientPC
<1>1. CASE StartSend(s)
  BY <1>1 DEF StartSend, Time
<1>2. CASE EndSession(s)
  BY <1>2 DEF EndSession, NoSnap, NoStream, Stream
<1>3. CASE Disconnect(s)
  BY <1>3 DEF Disconnect
<1>4. CASE ClientStops(s)
  BY <1>4 DEF ClientStops
<1>5. CASE ServerStops(s)
  <2>1. CASE UNCHANGED <<snaps, token, unacked>>
    BY <1>5, <2>1 DEF ServerStops
  <2>2. CASE spc[s] = "receiving" /\ Complete(s)
    BY <1>5, <2>2, CompleteType DEF ServerStops
  <2> QED BY <1>5, <2>1, <2>2 DEF ServerStops
<1> QED BY <1>1, <1>2, <1>3, <1>4, <1>5

\* A session's stream changes only before and after its receive.
LEMMA NextReceives == TypeInv /\ [Next]_vars => ReceivesAStream'
<1> SUFFICES ASSUME TypeInv, [Next]_vars,
                    NEW t \in Sessions, spc'[t] = "receiving"
             PROVE  stream'[t] # NoStream
  BY DEF ReceivesAStream
<1> USE DEF zfsVars, clientVars, serverVars, pruneVars, ackVars
<1>1. ASSUME NEW s \in Sessions, ClientStep(s) PROVE stream'[t] # NoStream
  <2>1. spc' = spc
    BY <1>1 DEF ClientStep, ClientDecide, ClientReadStatus, AfterStatus,
       ClientListHeld, ClientFindHeld, ClientPlaceHold, ClientHoldFails, ClientRelease,
       ClientFinish, ClientLosesLink
  <2>2. stream'[t] = stream[t]
    BY <1>1, <2>1 DEF TypeInv, TypeOK, ClientStep, ClientDecide,
       ClientReadStatus, AfterStatus, ClientListHeld, ClientFindHeld, ClientPlaceHold,
       ClientHoldFails, ClientRelease, ClientFinish, ClientLosesLink
  <2> QED BY <2>1, <2>2 DEF TypeInv, ReceivesAStream
<1>2. ASSUME NEW s \in Sessions, ServerStep(s) PROVE stream'[t] # NoStream
  <2>1. stream' = stream
    BY <1>2 DEF ServerStep, ServerReadToken, ServerSendHello, ServerReady,
       ServerDeclined, RecvBegin, RecvReject, RecvFinish, RecvInterrupted,
       ServerAnnotate, ServerReadSince, ServerMark,
       Report, ServerHoldList, ServerFindHeld, ServerPlaceHold,
       ServerHoldFails, ServerRelease, ServerSendStatus, ServerLosesLink
  <2>2. CASE RecvBegin(s) /\ s = t
    BY <2>1, <2>2 DEF RecvBegin, Acceptable
  <2>3. CASE ~(RecvBegin(s) /\ s = t)
    <3>1. spc[t] = "receiving"
      BY <1>2, <2>3 DEF TypeInv, TypeOK, ServerStep, ServerReadToken,
         ServerSendHello, ServerReady, ServerDeclined, RecvBegin,
         RecvReject, RecvFinish, RecvInterrupted, ServerAnnotate, ServerReadSince,
         ServerMark, Report, ServerHoldList, ServerFindHeld, ServerPlaceHold,
         ServerHoldFails, ServerRelease, ServerSendStatus, ServerLosesLink
    <3> QED BY <2>1, <3>1 DEF TypeInv, ReceivesAStream
  <2> QED BY <2>2, <2>3
<1>3. ASSUME NEW s \in Sessions,
             \/ StartSend(s) \/ EndSession(s) \/ Disconnect(s)
             \/ ClientStops(s) \/ ServerStops(s)
      PROVE  stream'[t] # NoStream
  BY <1>3 DEF TypeInv, TypeOK, ReceivesAStream, StartSend, EndSession,
       Disconnect, ClientStops, ServerStops
<1>4. ASSUME NEW d \in Pruned, PruneStep(d) PROVE stream'[t] # NoStream
  BY <1>4 DEF TypeInv, ReceivesAStream, PruneStep, PruneReadToken,
     PruneReadSince, PruneAbort, PruneClear, PruneList, PruneClassify,
     PruneDestroy, PruneEnd
<1>5. CASE Tick \/ CreateSnapshot \/ UNCHANGED vars
  BY <1>5 DEF TypeInv, ReceivesAStream, Tick, CreateSnapshot, vars
<1> QED
  BY <1>1, <1>2, <1>3, <1>4, <1>5 DEF Next

LEMMA NextType == TypeInv /\ [Next]_vars => TypeInv'
<1> SUFFICES ASSUME TypeInv, [Next]_vars PROVE TypeOK'
  BY NextReceives DEF TypeInv
<1> USE DEF TypeInv
<1>1. CASE Tick
  BY <1>1, BoundsAssumption
  DEF Tick, TypeOK, Time, zfsVars, clientVars, serverVars, pruneVars, ackVars
<1>2. CASE CreateSnapshot
  BY <1>2, RemotesAssumption
  DEF CreateSnapshot, TypeOK, clientVars, serverVars, pruneVars, ackVars
<1>3. CASE UNCHANGED vars
  BY <1>3
  DEF vars, TypeOK, zfsVars, clientVars, serverVars, pruneVars, ackVars
<1> QED
  BY <1>1, <1>2, <1>3, ClientType, ServerType, PruneType, SessionType DEF Next

\* Every variable keeps its type in every state of every session and prune.
THEOREM TypeCorrect == Spec => []TypeOK
<1>1. TypeInv => TypeOK
  BY DEF TypeInv
<1> QED
  BY <1>1, InitType, NextType, PTL DEF Spec

-----------------------------------------------------------------------------
(* Transfers and prunes.                                                   *)

\* Every stream, spawned or named by a token the server announced, leads to a
\* newer Snapshot than it starts from.
StreamsAdvance ==
  \A s \in Sessions :
     /\ stream[s] # NoStream => stream[s].base < stream[s].to
     /\ hello[s].token # NoStream => hello[s].token.base < hello[s].token.to
     /\ cpc[s] = "hello" => latest[s] \in local[s] /\ IsNewest(latest[s], local[s])

\* The only receive running on a Remote is the one its token belongs to.
ReceiverOwnsToken ==
  \A s \in Sessions : spc[s] = "receiving" =>
     /\ token[RemoteOf[s]] = stream[s]
     /\ \A t \in Sessions :
           spc[t] = "receiving" /\ RemoteOf[t] = RemoteOf[s] => t = s

TransferParts ==
  PruneSparesNewest /\ TokenExtendsHead /\ StreamsAdvance /\ ReceiverOwnsToken

TransferInv == TypeInv /\ TransferParts

LEMMA InitTransfer == Init => TransferInv
<1> SUFFICES ASSUME Init PROVE TransferInv
  OBVIOUS
<1>1. TypeInv
  BY InitType
<1>2. TransferParts
  BY DEF TransferParts, Init, PruneSparesNewest, TokenExtendsHead, StreamsAdvance,
         ReceiverOwnsToken
<1> QED BY <1>1, <1>2 DEF TransferInv

\* What the Retention Policy may delete is never the newest: with Recent >= 1
\* there is a newer Snapshot for each of them.
LEMMA DeletableIsOlder ==
  ASSUME NEW S \in SUBSET Time, NEW x \in Deletable(S), Recent >= 1
  PROVE  \E y \in S : x < y
<1> DEFINE N == {y \in S : y > x}
<1>1. Cardinality(N) >= Recent
  BY DEF Deletable
<1>2. N # {}
  BY <1>1, FS_EmptySet, BoundsAssumption
<1>3. PICK y \in N : TRUE
  BY <1>2
<1>4. y \in S /\ y > x /\ x \in S
  BY <1>3 DEF Deletable
<1> QED BY <1>4, BoundsAssumption DEF Time

\* Removing an older Snapshot does not change which one is the newest.
LEMMA NewestWithout ==
  ASSUME NEW S \in SUBSET Time, NEW x \in Time, NEW y \in S, x < y,
         NEW h
  PROVE  IsNewest(h, S \ {x}) <=> IsNewest(h, S)
<1> USE BoundsAssumption DEF Time
<1>1. y \in S \ {x}
  OBVIOUS
<1>2. ASSUME IsNewest(h, S) PROVE IsNewest(h, S \ {x})
  <2>1. h \in S /\ \A z \in S : z <= h
    BY <1>2 DEF IsNewest
  <2>2. h # x
    BY <2>1
  <2> QED BY <2>1, <2>2 DEF IsNewest
<1>3. ASSUME IsNewest(h, S \ {x}) PROVE IsNewest(h, S)
  <2>1. h \in S /\ \A z \in S \ {x} : z <= h
    BY <1>1, <1>3 DEF IsNewest
  <2>2. x <= h
    BY <1>1, <2>1
  <2> QED BY <2>1, <2>2 DEF IsNewest
<1> QED BY <1>2, <1>3

\* A completed stream is the newest Snapshot of its target.
LEMMA NewestWith ==
  ASSUME NEW S \in SUBSET Time, NEW b \in 0..MaxTime, NEW x \in Time,
         IsNewest(b, S), b < x
  PROVE  IsNewest(x, S \cup {x})
  BY BoundsAssumption DEF IsNewest, Time, NoSnap

\* A base other than the newest Snapshot of a list is older than it.
LEMMA BaseIsOlder ==
  ASSUME NEW S \in SUBSET Time, NEW h \in 0..MaxTime, NEW l \in S,
         IsNewest(l, S), h # l, h = NoSnap \/ h \in S
  PROVE  h < l
<1>1. l \in Int /\ h \in Int /\ l > 0
  BY BoundsAssumption DEF Time
<1>2. h = 0 \/ h <= l
  BY DEF IsNewest, NoSnap
<1> QED BY <1>1, <1>2

\* What client_handshake and decide_transfer lead to: an advancing stream.
LEMMA DecideAdvances ==
  ASSUME TransferInv, NEW s \in Sessions, ClientDecide(s),
         stream'[s] # NoStream
  PROVE  stream'[s].base < stream'[s].to
<1> USE BoundsAssumption DEF TransferInv, TransferParts, TypeInv, TypeOK
<1> DEFINE k == decide_transfer(hello[s], local[s], latest[s])
           want == Requested(k, hello[s], latest[s])
<1>0. cpc[s] = "hello"
  BY DEF ClientDecide
<1>1. CASE k \notin Sending
  <2>1. stream' = stream
    BY <1>1 DEF ClientDecide
  <2> QED BY <2>1 DEF StreamsAdvance
<1>2. CASE k \in Sending
  <2>1. stream'[s] = want
    BY <1>2 DEF ClientDecide, Emitted
  <2>2. CASE k = "resume"
    <3>1. want = hello[s].token /\ hello[s].token # NoStream
      BY <2>2 DEF Requested, decide_transfer
    <3> QED BY <2>1, <3>1 DEF StreamsAdvance
  <2>3. CASE k # "resume"
    <3>1. want.base = hello[s].head /\ want.to = latest[s]
      BY <2>3 DEF Requested
    <3>2. latest[s] \in local[s] /\ IsNewest(latest[s], local[s])
      BY <1>0 DEF StreamsAdvance
    <3>3. hello[s].head # latest[s]
      BY <1>2 DEF decide_transfer, Sending
    <3>4. hello[s].head = NoSnap \/ hello[s].head \in local[s]
      BY <1>2, <2>3 DEF decide_transfer, Sending
    <3>5. local[s] \in SUBSET Time /\ hello[s].head \in 0..MaxTime
      OBVIOUS
    <3>6. hello[s].head < latest[s]
      BY <3>2, <3>3, <3>4, <3>5, BaseIsOlder
    <3> QED BY <2>1, <3>1, <3>6
  <2> QED BY <2>2, <2>3
<1> QED BY <1>1, <1>2

\* A completed receive leaves the invariant's parts in place.
LEMMA CompleteTransfer ==
  ASSUME TransferInv, NEW s \in Sessions, spc[s] = "receiving", Complete(s),
         UNCHANGED <<cpc, latest, local, stream, hello, cand>>,
         spc' = [spc EXCEPT ![s] = "holdlist"] \/ spc' = [spc EXCEPT ![s] = "done"]
  PROVE  TransferParts'
<1> DEFINE r == RemoteOf[s]
<1> USE SessionsAssumption DEF TransferInv, TransferParts, TypeInv, TypeOK
<1>1. PruneSparesNewest'
  BY DEF PruneSparesNewest, Complete
<1>2. TokenExtendsHead'
  <2> SUFFICES ASSUME NEW q \in Remotes, token'[q] # NoStream
               PROVE  /\ IsNewest(token'[q].base, snaps'[q])
                      /\ token'[q].base < token'[q].to
    BY DEF TokenExtendsHead
  <2>1. q # r /\ q # Source
    BY RemotesAssumption DEF Complete
  <2>2. token'[q] = token[q] /\ snaps'[q] = snaps[q]
    BY <2>1 DEF Complete
  <2> QED BY <2>2 DEF TokenExtendsHead
<1>3. StreamsAdvance'
  BY DEF StreamsAdvance
<1>4. ReceiverOwnsToken'
  <2> SUFFICES ASSUME NEW t \in Sessions, spc'[t] = "receiving"
               PROVE  /\ token'[RemoteOf[t]] = stream'[t]
                      /\ \A u \in Sessions : spc'[u] = "receiving"
                            /\ RemoteOf[u] = RemoteOf[t] => u = t
    BY DEF ReceiverOwnsToken
  <2>1. t # s /\ spc[t] = "receiving"
    OBVIOUS
  <2>2. RemoteOf[t] # r
    BY <2>1 DEF ReceiverOwnsToken
  <2>3. token'[RemoteOf[t]] = stream'[t]
    BY <2>1, <2>2 DEF ReceiverOwnsToken, Complete
  <2>4. \A u \in Sessions : spc'[u] = "receiving" => spc[u] = "receiving"
    OBVIOUS
  <2> QED BY <2>1, <2>3, <2>4 DEF ReceiverOwnsToken
<1> QED BY <1>1, <1>2, <1>3, <1>4

\* Steps that leave the datasets, the tokens and prune alone, and neither
\* start nor spawn a transfer.
LEMMA QuietTransfer ==
  ASSUME TransferInv, UNCHANGED <<snaps, token, cand, latest, local, stream>>,
         \A s \in Sessions : cpc'[s] = "hello" => cpc[s] = "hello",
         \A s \in Sessions : spc'[s] = "receiving" => spc[s] = "receiving",
         \A s \in Sessions : hello'[s].token = hello[s].token
  PROVE  TransferParts'
<1>1. PruneSparesNewest'
  BY DEF TransferInv, TransferParts, PruneSparesNewest
<1>2. TokenExtendsHead'
  BY DEF TransferInv, TransferParts, TokenExtendsHead
<1>3. StreamsAdvance'
  BY DEF TransferInv, TransferParts, StreamsAdvance
<1>4. ReceiverOwnsToken'
  BY DEF TransferInv, TransferParts, ReceiverOwnsToken
<1> QED BY <1>1, <1>2, <1>3, <1>4 DEF TransferParts

LEMMA ClientTransfer ==
  ASSUME TransferInv, NEW s \in Sessions, ClientStep(s)
  PROVE  TransferParts'
<1> USE DEF zfsVars, clientVars, serverVars, pruneVars, ackVars
<1>1. CASE ClientDecide(s)
  <2> USE DEF TransferInv, TransferParts, TypeInv, TypeOK
  <2>1. UNCHANGED <<snaps, token, cand, spc, hello, latest, local>>
    BY <1>1 DEF ClientDecide
  <2>2. PruneSparesNewest' /\ TokenExtendsHead'
    BY <2>1 DEF PruneSparesNewest, TokenExtendsHead
  <2>3. \A t \in Sessions : t # s => stream'[t] = stream[t]
    BY <1>1 DEF ClientDecide
  <2>4. \A t \in Sessions : cpc'[t] = "hello" => cpc[t] = "hello"
    BY <1>1 DEF ClientDecide
  <2>5. StreamsAdvance'
    BY <1>1, <2>1, <2>3, <2>4, DecideAdvances DEF StreamsAdvance
  <2>6. spc[s] # "receiving"
    BY <1>1 DEF ClientDecide
  <2>7. ReceiverOwnsToken'
    BY <2>1, <2>3, <2>6 DEF ReceiverOwnsToken
  <2> QED BY <2>2, <2>5, <2>7
<1>2. CASE ~ClientDecide(s)
  <2>1. UNCHANGED <<snaps, token, cand, latest, local, stream, spc, hello>>
    BY <1>2 DEF ClientStep, ClientReadStatus, AfterStatus, ClientListHeld, ClientFindHeld,
       ClientPlaceHold, ClientHoldFails, ClientRelease, ClientFinish,
       ClientLosesLink
  <2>2. \A t \in Sessions : cpc'[t] = "hello" => cpc[t] = "hello"
    BY <1>2 DEF TransferInv, TypeInv, TypeOK, ClientStep, ClientReadStatus,
       AfterStatus, ClientListHeld, ClientFindHeld, ClientPlaceHold, ClientHoldFails,
       ClientRelease, ClientFinish, ClientLosesLink
  <2> QED BY <2>1, <2>2, QuietTransfer
<1> QED BY <1>1, <1>2

\* zfs receive starts: the partial state it creates extends the newest
\* Snapshot, and no other receive is running.
LEMMA BeginTransfer ==
  ASSUME TransferInv, NEW s \in Sessions, RecvBegin(s)
  PROVE  TransferParts'
<1> DEFINE r == RemoteOf[s]
<1> USE SessionsAssumption
    DEF TransferInv, TransferParts, TypeInv, TypeOK, clientVars, pruneVars
<1>1. UNCHANGED <<snaps, cand, cpc, latest, local, stream, hello>>
  BY DEF RecvBegin
<1>2. PruneSparesNewest' /\ StreamsAdvance'
  BY <1>1 DEF PruneSparesNewest, StreamsAdvance
<1>3. TokenExtendsHead'
  <2> SUFFICES ASSUME NEW q \in Remotes, token'[q] # NoStream
               PROVE  /\ IsNewest(token'[q].base, snaps'[q])
                      /\ token'[q].base < token'[q].to
    BY DEF TokenExtendsHead
  <2>1. CASE q # r
    <3>1. token'[q] = token[q]
      BY <2>1 DEF RecvBegin
    <3> QED BY <1>1, <3>1 DEF TokenExtendsHead
  <2>2. CASE q = r
    <3>1. token'[q] = stream[s] /\ stream[s] # NoStream
      BY <2>2 DEF RecvBegin, Acceptable
    <3>2. IsNewest(stream[s].base, snaps[r])
      BY <3>1 DEF RecvBegin, Acceptable, TokenExtendsHead
    <3> QED BY <1>1, <2>2, <3>1, <3>2 DEF StreamsAdvance
  <2> QED BY <2>1, <2>2
<1>4. ReceiverOwnsToken'
  <2>1. \A t \in Sessions : RemoteOf[t] = r => spc[t] # "receiving"
    BY DEF RecvBegin, Acceptable, Busy
  <2>2. \A t \in Sessions : spc'[t] = "receiving" <=> t = s \/ spc[t] = "receiving"
    BY DEF RecvBegin
  <2>3. token'[r] = stream'[s]
    BY <1>1 DEF RecvBegin
  <2>4. \A t \in Sessions : RemoteOf[t] # r => token'[RemoteOf[t]] = token[RemoteOf[t]]
    BY DEF RecvBegin
  <2> QED BY <1>1, <2>1, <2>2, <2>3, <2>4 DEF ReceiverOwnsToken
<1> QED BY <1>2, <1>3, <1>4

LEMMA ServerTransfer ==
  ASSUME TransferInv, NEW s \in Sessions, ServerStep(s)
  PROVE  TransferParts'
<1> USE DEF zfsVars, clientVars, serverVars, pruneVars, ackVars
<1>1. CASE RecvBegin(s)
  BY <1>1, BeginTransfer
<1>2. CASE RecvFinish(s)
  BY <1>2, CompleteTransfer DEF RecvFinish
<1>3. CASE ServerReadToken(s)
  <2> USE SessionsAssumption DEF TransferInv, TransferParts, TypeInv, TypeOK
  <2>1. UNCHANGED <<snaps, token, cand, latest, local, stream, cpc>>
    BY <1>3 DEF ServerReadToken
  <2>2. \A t \in Sessions : spc'[t] = "receiving" <=> spc[t] = "receiving"
    BY <1>3 DEF ServerReadToken
  <2>3. \A t \in Sessions : hello'[t].token = hello[t].token
                          \/ hello'[t].token = token[RemoteOf[t]]
    BY <1>3 DEF ServerReadToken
  <2>4. StreamsAdvance'
    BY <2>1, <2>3 DEF StreamsAdvance, TokenExtendsHead
  <2>5. PruneSparesNewest' /\ TokenExtendsHead' /\ ReceiverOwnsToken'
    BY <2>1, <2>2 DEF PruneSparesNewest, TokenExtendsHead, ReceiverOwnsToken
  <2> QED BY <2>4, <2>5
<1>4. CASE ~(RecvBegin(s) \/ RecvFinish(s) \/ ServerReadToken(s))
  <2>1. UNCHANGED <<snaps, token, cand, latest, local, stream, cpc>>
    BY <1>4 DEF ServerStep, ServerSendHello, ServerReady, ServerDeclined,
       RecvReject, RecvInterrupted, ServerAnnotate, ServerReadSince, ServerMark, Report,
       ServerHoldList, ServerFindHeld, ServerPlaceHold, ServerHoldFails, ServerRelease,
       ServerSendStatus, ServerLosesLink
  <2>2. \A t \in Sessions : spc'[t] = "receiving" => spc[t] = "receiving"
    BY <1>4 DEF TransferInv, TypeInv, TypeOK, ServerStep, ServerSendHello,
       ServerReady, ServerDeclined, RecvReject, RecvInterrupted,
       ServerAnnotate, ServerReadSince, ServerMark,
       Report, ServerHoldList, ServerFindHeld, ServerPlaceHold,
       ServerHoldFails, ServerRelease, ServerSendStatus, ServerLosesLink
  <2>3. \A t \in Sessions : hello'[t].token = hello[t].token
    <3>1. CASE ServerSendHello(s)
      BY <3>1 DEF TransferInv, TypeInv, TypeOK, ServerSendHello
    <3>2. CASE ~ServerSendHello(s)
      BY <1>4, <3>2 DEF ServerStep, ServerReady, ServerDeclined, RecvReject,
         RecvInterrupted, ServerAnnotate, ServerReadSince, ServerMark, Report,
         ServerHoldList, ServerFindHeld, ServerPlaceHold, ServerHoldFails, ServerRelease,
         ServerSendStatus, ServerLosesLink
    <3> QED BY <3>1, <3>2
  <2> QED BY <2>1, <2>2, <2>3, QuietTransfer
<1> QED BY <1>1, <1>2, <1>3, <1>4

\* zfs destroy removes a Snapshot that has a newer one beside it.
LEMMA DestroyKeepsNewest ==
  ASSUME TransferInv, NEW d \in Datasets, PruneDestroy(d)
  PROVE  \A e \in Datasets : \A h :
            IsNewest(h, snaps'[e]) <=> IsNewest(h, snaps[e])
<1> USE DEF TransferInv, TransferParts, TypeInv, TypeOK
<1> TAKE e \in Datasets
<1> TAKE h
<1>1. CASE snaps' = snaps
  BY <1>1
<1>2. CASE snaps' # snaps
  <2>1. PICK x \in cand[d] : snaps' = [snaps EXCEPT ![d] = @ \ {x}]
    BY <1>2 DEF PruneDestroy
  <2>2. PICK y \in snaps[d] : x < y
    BY <2>1 DEF PruneSparesNewest
  <2>3. snaps[d] \in SUBSET Time /\ x \in Time
    BY <2>1
  <2>4. IsNewest(h, snaps[d] \ {x}) <=> IsNewest(h, snaps[d])
    BY <2>2, <2>3, NewestWithout
  <2>5. CASE e = d
    BY <2>1, <2>4, <2>5
  <2>6. CASE e # d
    BY <2>1, <2>6
  <2> QED BY <2>5, <2>6
<1> QED BY <1>1, <1>2

\* What remains on the list has a newer Snapshot still: the oldest goes first.
LEMMA DestroySpares ==
  ASSUME TransferInv, NEW d \in Datasets, PruneDestroy(d)
  PROVE  PruneSparesNewest'
<1> USE DEF TransferInv, TransferParts, TypeInv, TypeOK
<1> SUFFICES ASSUME NEW e \in Datasets, NEW z \in cand'[e]
             PROVE  \E y \in snaps'[e] : z < y
  BY DEF PruneSparesNewest
<1>1. PICK x \in cand[d] :
        /\ \A y \in cand[d] : x <= y
        /\ snaps' = [snaps EXCEPT ![d] = @ \ {x}]
        /\ cand' = [cand EXCEPT ![d] = @ \ {x}]
  BY DEF PruneDestroy
<1>2. z \in cand[e]
  <2>1. cand'[e] = cand[e] \/ cand'[e] = cand[e] \ {x}
    BY <1>1
  <2> QED BY <2>1
<1>3. PICK y \in snaps[e] : z < y
  BY <1>2 DEF PruneSparesNewest
<1>4. y \in snaps'[e]
  <2>1. CASE e = d
    <3>1. x <= z /\ x \in Int /\ z \in Int /\ y \in Int
      BY <1>1, <1>2, <1>3, <2>1, BoundsAssumption DEF Time
    <3>2. y # x
      BY <1>3, <3>1
    <3> QED BY <1>1, <1>3, <2>1, <3>2
  <2>2. CASE e # d
    BY <1>1, <1>3, <2>2
  <2> QED BY <2>1, <2>2
<1> QED BY <1>3, <1>4

LEMMA PruneTransfer ==
  ASSUME TransferInv, NEW d \in Pruned, PruneStep(d), Recent >= 1
  PROVE  TransferParts'
<1> USE PrunedAssumption
    DEF zfsVars, clientVars, serverVars, pruneVars, ackVars
<1>0. UNCHANGED <<cpc, spc, latest, local, stream, hello>>
  BY DEF PruneStep, PruneReadToken, PruneReadSince, PruneAbort, PruneClear,
     PruneList, PruneClassify, PruneDestroy, PruneEnd
<1>1. StreamsAdvance'
  BY <1>0 DEF TransferInv, TransferParts, StreamsAdvance
<1>2. CASE PruneReadToken(d) \/ PruneReadSince(d) \/ PruneClear(d)
  BY <1>0, <1>2, QuietTransfer DEF PruneReadToken, PruneReadSince,
     PruneClear
<1>3. CASE PruneAbort(d)
  <2> USE SessionsAssumption DEF TransferInv, TransferParts, TypeInv, TypeOK
  <2>1. UNCHANGED <<snaps, cand>>
    BY <1>3 DEF PruneAbort
  <2>2. \A q \in Remotes : token'[q] = token[q] \/ (token'[q] = NoStream /\ ~Busy(q))
    BY <1>3 DEF PruneAbort
  <2>3. TokenExtendsHead' /\ PruneSparesNewest'
    BY <2>1, <2>2 DEF TokenExtendsHead, PruneSparesNewest
  <2>4. ReceiverOwnsToken'
    BY <1>0, <2>2 DEF ReceiverOwnsToken, Busy
  <2> QED BY <1>1, <2>3, <2>4
<1>4. CASE PruneList(d) \/ PruneClassify(d) \/ PruneEnd(d)
  <2> USE DEF TransferInv, TransferParts, TypeInv, TypeOK
  <2>1. UNCHANGED <<snaps, token>>
    BY <1>4 DEF PruneList, PruneClassify, PruneEnd
  <2>2. \A e \in Datasets : cand'[e] \subseteq cand[e]
                          \/ cand'[e] \subseteq Deletable(snaps[e])
    BY <1>4 DEF PruneList, PruneClassify, PruneEnd
  <2>3. PruneSparesNewest'
    <3> SUFFICES ASSUME NEW e \in Datasets, NEW x \in cand'[e]
                 PROVE  \E y \in snaps'[e] : x < y
      BY DEF PruneSparesNewest
    <3>1. CASE x \in cand[e]
      BY <2>1, <3>1 DEF PruneSparesNewest
    <3>2. CASE x \in Deletable(snaps[e])
      BY <2>1, <3>2, DeletableIsOlder
    <3> QED BY <2>2, <3>1, <3>2
  <2>4. TokenExtendsHead' /\ ReceiverOwnsToken'
    BY <1>0, <2>1 DEF TokenExtendsHead, ReceiverOwnsToken
  <2> QED BY <1>1, <2>3, <2>4
<1>5. CASE PruneDestroy(d)
  <2> USE DEF TransferInv, TransferParts
  <2>1. UNCHANGED token
    BY <1>5 DEF PruneDestroy
  <2>2. TokenExtendsHead'
    BY <1>5, <2>1, DestroyKeepsNewest DEF TokenExtendsHead
  <2>3. PruneSparesNewest'
    BY <1>5, DestroySpares
  <2>4. ReceiverOwnsToken'
    BY <1>0, <2>1 DEF ReceiverOwnsToken
  <2> QED BY <1>1, <2>2, <2>3, <2>4
<1> QED BY <1>2, <1>3, <1>4, <1>5 DEF PruneStep

LEMMA SessionTransfer ==
  ASSUME TransferInv, NEW s \in Sessions,
         \/ StartSend(s) \/ EndSession(s) \/ Disconnect(s)
         \/ ClientStops(s) \/ ServerStops(s)
  PROVE  TransferParts'
<1> USE DEF zfsVars, clientVars, serverVars, pruneVars, ackVars
<1>1. CASE StartSend(s)
  <2> USE DEF TransferInv, TransferParts, TypeInv, TypeOK
  <2>1. UNCHANGED <<snaps, token, cand, stream, hello>>
    BY <1>1 DEF StartSend
  <2>2. PICK l \in snaps[Source] : /\ IsNewest(l, snaps[Source])
                                  /\ latest' = [latest EXCEPT ![s] = l]
    BY <1>1 DEF StartSend
  <2>3. local' = [local EXCEPT ![s] = snaps[Source]]
        /\ cpc' = [cpc EXCEPT ![s] = "hello"]
    BY <1>1 DEF StartSend
  <2>4. StreamsAdvance'
    BY <2>1, <2>2, <2>3 DEF StreamsAdvance
  <2>5. \A t \in Sessions : spc'[t] = "receiving" <=> spc[t] = "receiving"
    BY <1>1 DEF StartSend
  <2>6. PruneSparesNewest' /\ TokenExtendsHead' /\ ReceiverOwnsToken'
    BY <2>1, <2>5 DEF PruneSparesNewest, TokenExtendsHead, ReceiverOwnsToken
  <2> QED BY <2>4, <2>6
<1>2. CASE EndSession(s)
  <2> USE DEF TransferInv, TransferParts, TypeInv, TypeOK
  <2>1. UNCHANGED <<snaps, token, cand>>
    BY <1>2 DEF EndSession
  <2>2. /\ stream'[s] = NoStream /\ hello'[s].token = NoStream
        /\ cpc'[s] = "idle" /\ spc'[s] = "idle"
    BY <1>2 DEF EndSession
  <2>3. \A t \in Sessions \ {s} :
           /\ stream'[t] = stream[t] /\ hello'[t] = hello[t]
           /\ cpc'[t] = cpc[t] /\ spc'[t] = spc[t]
           /\ latest'[t] = latest[t] /\ local'[t] = local[t]
    BY <1>2 DEF EndSession
  <2>4. StreamsAdvance'
    BY <2>2, <2>3 DEF StreamsAdvance
  <2>5. ReceiverOwnsToken'
    BY <2>1, <2>2, <2>3 DEF ReceiverOwnsToken
  <2>6. PruneSparesNewest' /\ TokenExtendsHead'
    BY <2>1 DEF PruneSparesNewest, TokenExtendsHead
  <2> QED BY <2>4, <2>5, <2>6
<1>3. CASE Disconnect(s) \/ ClientStops(s)
  <2>1. UNCHANGED <<snaps, token, cand, latest, local, stream, spc, hello>>
    BY <1>3 DEF Disconnect, ClientStops
  <2>2. \A t \in Sessions : cpc'[t] = "hello" => cpc[t] = "hello"
    BY <1>3 DEF TransferInv, TypeInv, TypeOK, Disconnect, ClientStops
  <2> QED BY <2>1, <2>2, QuietTransfer
<1>4. CASE ServerStops(s)
  <2>1. UNCHANGED <<cpc, latest, local, stream, hello, cand>>
        /\ spc' = [spc EXCEPT ![s] = "done"]
    BY <1>4 DEF ServerStops
  <2>2. CASE spc[s] = "receiving" /\ Complete(s)
    BY <2>1, <2>2, CompleteTransfer
  <2>3. CASE UNCHANGED <<snaps, token, unacked>>
    <3>1. \A t \in Sessions : spc'[t] = "receiving" => spc[t] = "receiving"
      BY <2>1 DEF TransferInv, TypeInv, TypeOK
    <3> QED BY <2>1, <2>3, <3>1, QuietTransfer
  <2> QED BY <1>4, <2>2, <2>3 DEF ServerStops
<1> QED BY <1>1, <1>2, <1>3, <1>4

LEMMA NextTransfer ==
  ASSUME Recent >= 1
  PROVE  TransferInv /\ [Next]_vars => TransferInv'
<1> SUFFICES ASSUME TransferInv, [Next]_vars PROVE TransferParts'
  BY NextType DEF TransferInv
<1> USE DEF zfsVars, clientVars, serverVars, pruneVars, ackVars
<1>1. CASE Tick \/ UNCHANGED vars
  BY <1>1, QuietTransfer DEF Tick, vars
<1>2. CASE CreateSnapshot
  <2> USE DEF TransferInv, TransferParts, TypeInv, TypeOK
  <2>1. UNCHANGED <<token, cand, cpc, spc, latest, local, stream, hello>>
    BY <1>2 DEF CreateSnapshot
  <2>2. \A d \in Datasets : snaps[d] \subseteq snaps'[d]
    BY <1>2 DEF CreateSnapshot
  <2>3. \A r \in Remotes : snaps'[r] = snaps[r]
    BY <1>2, RemotesAssumption DEF CreateSnapshot
  <2>4. PruneSparesNewest'
    BY <2>1, <2>2 DEF PruneSparesNewest
  <2>5. TokenExtendsHead' /\ StreamsAdvance' /\ ReceiverOwnsToken'
    BY <2>1, <2>3 DEF TokenExtendsHead, StreamsAdvance, ReceiverOwnsToken
  <2> QED BY <2>4, <2>5
<1> QED
  BY <1>1, <1>2, ClientTransfer, ServerTransfer, PruneTransfer,
     SessionTransfer DEF Next

\* With retention.recent >= 1, whatever sessions and prunes interleave: a
\* partial receive can always be continued from the newest Snapshot of its
\* target.
THEOREM ResumeBaseKept ==
  ASSUME Recent >= 1
  PROVE  Spec => []TokenExtendsHead
<1>1. TransferInv => TokenExtendsHead
  BY DEF TransferInv, TransferParts
<1> QED
  BY <1>1, InitTransfer, NextTransfer, PTL DEF Spec

\* With retention.recent >= 1, prune never has a dataset's newest Snapshot on
\* its list, although the list is made once and Snapshots arrive meanwhile.
THEOREM NewestIsSpared ==
  ASSUME Recent >= 1
  PROVE  Spec => []PruneSparesNewest
<1>1. TransferInv => PruneSparesNewest
  BY DEF TransferInv, TransferParts
<1> QED
  BY <1>1, InitTransfer, NextTransfer, PTL DEF Spec
=============================================================================
