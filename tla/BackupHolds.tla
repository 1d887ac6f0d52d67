----------------------------- MODULE BackupHolds -----------------------------
(***************************************************************************)
(* Proofs about the Transfer Holds of Backup, for deployments that run at  *)
(* most one session per Remote at a time.                                  *)
(***************************************************************************)
EXTENDS BackupProofs

OneSender == \A s, t \in Sessions : RemoteOf[s] = RemoteOf[t] => s = t

-----------------------------------------------------------------------------
(* The hold a session has placed stays while it releases the old ones.     *)

HoldBeforeRelease ==
  \A s \in Sessions :
     /\ cpc[s] = "place" => latest[s] \notin cOld[s]
     /\ cpc[s] = "release" => latest[s] \in srcHold[RemoteOf[s]] \ cOld[s]
     /\ spc[s] = "place" => sNew[s] \notin sOld[s]
     /\ spc[s] = "release" => sNew[s] \in recvHold[RemoteOf[s]] \ sOld[s]

-----------------------------------------------------------------------------
(* The newest Snapshot of every Remote is protected on the source.         *)

\* Where in a session what has been decided.
PhasesAgree ==
  \A s \in Sessions :
     /\ cpc[s] \in {"idle", "hello"} => kind[s] = "none"
     /\ spc[s] \in {"recv", "receiving", "annotate", "since", "mark", "holdlist",
                    "held", "place", "release", "status"} => kind[s] \in Sending
     /\ kind[s] = "diverged" => cpc[s] = "done"
     /\ status[s] # "none" => spc[s] = "done"

\* A session whose stream arrived has yet to hold, and what arrived is the
\* Remote's newest Snapshot.
UnackedIsNewest ==
  \A s \in unacked :
     /\ spc[s] \in {"holdlist", "held", "place", "release", "status", "done"}
     /\ kind[s] \in Sending
     /\ IsNewest(stream[s].to, snaps[RemoteOf[s]])

\* The client gets to place_transfer_hold only after the stream arrived.
HoldFollowsReceipt ==
  \A s \in Sessions :
     /\ cpc[s] \in {"find", "held", "place"} => s \in unacked
     /\ cpc[s] = "stream" /\ status[s] = "ok" => s \in unacked
     /\ cpc[s] = "stream" /\ spc[s] \in {"holdlist", "held", "place", "release", "status"}
           => s \in unacked
     /\ cpc[s] = "release" /\ s \notin unacked
           => IsNewest(latest[s], snaps[RemoteOf[s]])

\* What a client that is yet to decide has listed, and will be told.
ListCoversHead ==
  \A s \in Sessions : cpc[s] = "hello" =>
     /\ RemoteOf[s] \notin exposed =>
           \A h \in snaps[RemoteOf[s]] :
              IsNewest(h, snaps[RemoteOf[s]]) => h \in local[s]
     /\ spc[s] = "ready" => IsNewest(hello[s].head, snaps[RemoteOf[s]])

HoldsExist == \A r \in Remotes : srcHold[r] \subseteq snaps[Source]

ProtectionParts ==
  /\ HoldBeforeRelease /\ PhasesAgree /\ UnackedIsNewest /\ HoldFollowsReceipt
  /\ ListCoversHead /\ HoldsExist /\ BaseProtected /\ DivergedOnlyIfExposed

ProtectionInv == TransferInv /\ ProtectionParts

USE DEF Datasets

-----------------------------------------------------------------------------
(* Preservation, one lemma per part.                                       *)

\* What arrived is the newest Snapshot of its Remote; the other datasets are
\* as they were.
LEMMA CompleteFacts ==
  ASSUME TransferInv, NEW s \in Sessions, spc[s] = "receiving", Complete(s)
  PROVE  /\ IsNewest(stream[s].to, snaps'[RemoteOf[s]])
         /\ \A d \in Datasets : d # RemoteOf[s] => snaps'[d] = snaps[d]
         /\ snaps'[Source] = snaps[Source]
<1> DEFINE r == RemoteOf[s]
<1> USE SessionsAssumption, RemotesAssumption
    DEF TransferInv, TransferParts, TypeInv, TypeOK
<1>1. token[r] = stream[s] /\ stream[s] # NoStream
  BY DEF ReceiverOwnsToken, ReceivesAStream
<1>2. stream[s].base \in 0..MaxTime /\ stream[s].to \in Time
  BY <1>1 DEF Stream
<1>3. IsNewest(stream[s].base, snaps[r]) /\ stream[s].base < stream[s].to
  BY <1>1 DEF TokenExtendsHead
<1>4. IsNewest(stream[s].to, snaps[r] \cup {stream[s].to})
  BY <1>2, <1>3, NewestWith
<1>5. snaps' = [snaps EXCEPT ![r] = @ \cup {stream[s].to}]
  BY DEF Complete
<1>6. snaps'[r] = snaps[r] \cup {stream[s].to}
  BY <1>5
<1>7. \A d \in Datasets : d # r => snaps'[d] = snaps[d]
  BY <1>5
<1>8. IsNewest(stream[s].to, snaps'[r])
  BY <1>4, <1>6
<1>9. Source # r /\ Source \in Datasets
  OBVIOUS
<1>10. snaps'[Source] = snaps[Source]
  BY <1>7, <1>9
<1> QED BY <1>7, <1>8, <1>10

\* The receipt of one session leaves the other Remotes alone.
LEMMA CompleteUnacked ==
  ASSUME ProtectionInv, OneSender, NEW s \in Sessions, spc[s] = "receiving",
         Complete(s), stream' = stream, kind' = kind,
         NEW p \in {"holdlist", "done"}, spc' = [spc EXCEPT ![s] = p]
  PROVE  UnackedIsNewest'
<1> USE SessionsAssumption, RemotesAssumption
    DEF ProtectionInv, ProtectionParts
<1> SUFFICES ASSUME NEW t \in unacked'
             PROVE  /\ spc'[t] \in {"holdlist", "held", "place", "release", "status", "done"}
                    /\ kind'[t] \in Sending
                    /\ IsNewest(stream'[t].to, snaps'[RemoteOf[t]])
  BY DEF UnackedIsNewest
<1>1. spc \in [Sessions -> ServerPC] /\ unacked \subseteq Sessions
  BY DEF TransferInv, TypeInv, TypeOK
<1>2. CASE t = s
  <2>1. kind[s] \in Sending
    BY DEF PhasesAgree
  <2> QED BY <1>1, <1>2, <2>1, CompleteFacts
<1>3. CASE t # s
  <2>1. t \in unacked
    BY <1>3 DEF Complete
  <2>2. RemoteOf[t] # RemoteOf[s] /\ RemoteOf[t] \in Remotes
    BY <1>1, <1>3, <2>1 DEF OneSender
  <2>3. snaps'[RemoteOf[t]] = snaps[RemoteOf[t]]
    BY <2>2, CompleteFacts
  <2>4. spc'[t] = spc[t]
    BY <1>1, <1>3, <2>1
  <2> QED BY <2>1, <2>3, <2>4 DEF UnackedIsNewest
<1> QED BY <1>2, <1>3

LEMMA CompleteCovers ==
  ASSUME ProtectionInv, OneSender, NEW s \in Sessions, spc[s] = "receiving",
         Complete(s), cpc' = cpc, local' = local, hello' = hello,
         exposed' = exposed,
         NEW p \in {"holdlist", "done"}, spc' = [spc EXCEPT ![s] = p]
  PROVE  ListCoversHead'
<1> USE SessionsAssumption, RemotesAssumption
    DEF ProtectionInv, ProtectionParts
<1> SUFFICES ASSUME NEW t \in Sessions, cpc[t] = "hello"
             PROVE  /\ RemoteOf[t] \notin exposed =>
                         \A h \in snaps'[RemoteOf[t]] :
                            IsNewest(h, snaps'[RemoteOf[t]]) => h \in local[t]
                    /\ spc'[t] = "ready" =>
                         IsNewest(hello[t].head, snaps'[RemoteOf[t]])
  BY DEF ListCoversHead
<1>1. t # s
  BY DEF PhasesAgree, Sending
<1>2. RemoteOf[t] # RemoteOf[s] /\ RemoteOf[t] \in Remotes
  BY <1>1 DEF OneSender
<1>3. snaps'[RemoteOf[t]] = snaps[RemoteOf[t]]
  BY <1>2, CompleteFacts
<1>4. spc'[t] = spc[t]
  BY <1>1 DEF TransferInv, TypeInv, TypeOK
<1> QED BY <1>3, <1>4 DEF ListCoversHead

\* A destroy leaves the held Snapshots.
LEMMA DestroyFrame ==
  ASSUME ProtectionInv, NEW d \in Datasets, PruneDestroy(d)
  PROVE  /\ \A e \in Datasets : snaps'[e] \subseteq snaps[e]
         /\ \A x \in snaps[Source] : x \in Held(Source) => x \in snaps'[Source]
<1>1. snaps \in [Datasets -> SUBSET Time]
  BY DEF ProtectionInv, TransferInv, TypeInv, TypeOK
<1>2. CASE snaps' = snaps
  BY <1>2
<1>3. CASE snaps' # snaps
  <2>1. PICK x \in cand[d] : x \notin Held(d) /\ snaps' = [snaps EXCEPT ![d] = @ \ {x}]
    BY <1>3 DEF PruneDestroy
  <2>2. \A e \in Datasets : snaps'[e] = IF e = d THEN snaps[e] \ {x} ELSE snaps[e]
    BY <1>1, <2>1
  <2> QED BY <2>1, <2>2
<1> QED BY <1>2, <1>3

\* The phases of client and server stay in step.
LEMMA NextPhases ==
  ASSUME TypeInv, PhasesAgree, [Next]_vars
  PROVE  PhasesAgree'
<1> USE SessionsAssumption, RemotesAssumption, PrunedAssumption
    DEF zfsVars, clientVars, serverVars, pruneVars, ackVars, TypeInv, TypeOK
<1>1. ASSUME NEW s \in Sessions, ClientStep(s) PROVE PhasesAgree'
  BY <1>1 DEF PhasesAgree, Sending, decide_transfer, ClientStep,
     ClientDecide, ClientReadStatus, AfterStatus, ClientListHeld, ClientFindHeld,
     ClientPlaceHold, ClientHoldFails, ClientRelease, ClientFinish,
     ClientLosesLink, Acknowledge
<1>2. ASSUME NEW s \in Sessions, ServerStep(s) PROVE PhasesAgree'
  BY <1>2 DEF PhasesAgree, Sending, decide_transfer, ServerStep,
     ServerReadToken, ServerSendHello, ServerReady, ServerDeclined,
     RecvBegin, RecvReject, RecvFinish, RecvInterrupted, ServerAnnotate, ServerReadSince,
     ServerMark, Report, ServerHoldList, ServerFindHeld, ServerPlaceHold, ServerHoldFails,
     ServerRelease, ServerSendStatus, ServerLosesLink, Complete
<1>3. ASSUME NEW s \in Sessions,
             \/ StartSend(s) \/ EndSession(s) \/ Disconnect(s)
             \/ ClientStops(s) \/ ServerStops(s)
      PROVE  PhasesAgree'
  BY <1>3 DEF PhasesAgree, Sending, decide_transfer, StartSend, EndSession,
       Disconnect, ClientStops, ServerStops, Complete
<1>4. ASSUME NEW d \in Pruned, PruneStep(d) PROVE PhasesAgree'
  BY <1>4 DEF PhasesAgree, Sending, decide_transfer, PruneStep,
     PruneReadToken, PruneReadSince, PruneAbort, PruneClear, PruneList,
     PruneClassify, PruneDestroy, PruneEnd
<1>5. CASE Tick \/ CreateSnapshot \/ UNCHANGED vars
  BY <1>5 DEF PhasesAgree, Sending, decide_transfer, Tick, CreateSnapshot,
       vars
<1> QED
  BY <1>1, <1>2, <1>3, <1>4, <1>5 DEF Next

\* With one session per Remote nobody else releases the new hold.
LEMMA NextHoldBefore ==
  ASSUME ProtectionInv, OneSender, Recent >= 1, [Next]_vars
  PROVE  HoldBeforeRelease'
<1> USE SessionsAssumption, RemotesAssumption, PrunedAssumption
    DEF zfsVars, clientVars, serverVars, pruneVars, ackVars, ProtectionInv,
        ProtectionParts, TransferInv, TypeInv, TypeOK
<1>1. ASSUME NEW s \in Sessions, ClientStep(s) PROVE HoldBeforeRelease'
  BY <1>1 DEF HoldBeforeRelease, OneSender, ClientStep, ClientDecide,
     ClientReadStatus, AfterStatus, ClientListHeld, ClientFindHeld, ClientPlaceHold,
     ClientHoldFails, ClientRelease, ClientFinish, ClientLosesLink,
     Acknowledge
<1>2. ASSUME NEW s \in Sessions, ServerStep(s) PROVE HoldBeforeRelease'
  BY <1>2 DEF HoldBeforeRelease, OneSender, ServerStep, ServerReadToken,
     ServerSendHello, ServerReady, ServerDeclined, RecvBegin, RecvReject,
     RecvFinish, RecvInterrupted, ServerAnnotate, ServerReadSince, ServerMark, Report,
     ServerHoldList, ServerFindHeld, ServerPlaceHold, ServerHoldFails, ServerRelease,
     ServerSendStatus, ServerLosesLink, Complete
<1>3. ASSUME NEW s \in Sessions,
             \/ StartSend(s) \/ EndSession(s) \/ Disconnect(s)
             \/ ClientStops(s) \/ ServerStops(s)
      PROVE  HoldBeforeRelease'
  BY <1>3 DEF HoldBeforeRelease, OneSender, StartSend, EndSession,
       Disconnect, ClientStops, ServerStops, Complete
<1>4. ASSUME NEW d \in Pruned, PruneStep(d) PROVE HoldBeforeRelease'
  BY <1>4 DEF HoldBeforeRelease, OneSender, PruneStep, PruneReadToken,
     PruneReadSince, PruneAbort, PruneClear, PruneList, PruneClassify,
     PruneDestroy, PruneEnd
<1>5. CASE Tick \/ CreateSnapshot \/ UNCHANGED vars
  BY <1>5 DEF HoldBeforeRelease, OneSender, Tick, CreateSnapshot, vars
<1> QED
  BY <1>1, <1>2, <1>3, <1>4, <1>5 DEF Next

\* zfs destroy refuses held Snapshots.
LEMMA NextHoldsExist ==
  ASSUME ProtectionInv, OneSender, Recent >= 1, [Next]_vars
  PROVE  HoldsExist'
<1> USE SessionsAssumption, RemotesAssumption, PrunedAssumption
    DEF zfsVars, clientVars, serverVars, pruneVars, ackVars, ProtectionInv,
        ProtectionParts, TransferInv, TypeInv, TypeOK
<1>1. ASSUME NEW s \in Sessions, ClientStep(s) PROVE HoldsExist'
  <2>1. CASE ClientPlaceHold(s)
    BY <2>1 DEF HoldsExist, ClientPlaceHold
  <2>2. CASE ClientRelease(s)
    BY <2>2 DEF HoldsExist, ClientRelease
  <2>3. CASE ~ClientPlaceHold(s) /\ ~ClientRelease(s)
    <3>1. UNCHANGED <<snaps, srcHold>>
      BY <1>1, <2>3 DEF ClientStep, ClientDecide, ClientReadStatus, ClientListHeld,
         ClientFindHeld, ClientHoldFails, ClientFinish, ClientLosesLink
    <3> QED BY <3>1 DEF HoldsExist
  <2> QED BY <2>1, <2>2, <2>3
<1>2. ASSUME NEW s \in Sessions, ServerStep(s) PROVE HoldsExist'
  <2>1. snaps'[Source] = snaps[Source]
    BY <1>2, CompleteFacts DEF ServerStep, ServerReadToken, ServerSendHello,
       ServerReady, ServerDeclined, RecvBegin, RecvReject, RecvFinish,
       RecvInterrupted, ServerAnnotate, ServerReadSince, ServerMark,
       Report, ServerHoldList, ServerFindHeld,
       ServerPlaceHold, ServerHoldFails, ServerRelease, ServerSendStatus,
       ServerLosesLink, Complete
  <2>2. srcHold' = srcHold
    BY <1>2 DEF ServerStep, ServerReadToken, ServerSendHello, ServerReady,
       ServerDeclined, RecvBegin, RecvReject, RecvFinish, RecvInterrupted,
       ServerAnnotate, ServerReadSince, ServerMark,
       Report, ServerHoldList, ServerFindHeld, ServerPlaceHold,
       ServerHoldFails, ServerRelease, ServerSendStatus, ServerLosesLink,
       Complete
  <2> QED BY <2>1, <2>2 DEF HoldsExist
<1>3. ASSUME NEW s \in Sessions,
             \/ StartSend(s) \/ EndSession(s) \/ Disconnect(s)
             \/ ClientStops(s) \/ ServerStops(s)
      PROVE  HoldsExist'
  <2>1. snaps'[Source] = snaps[Source]
    BY <1>3, CompleteFacts DEF StartSend, EndSession, Disconnect,
       ClientStops, ServerStops, Complete
  <2>2. srcHold' = srcHold
    BY <1>3 DEF StartSend, EndSession, Disconnect, ClientStops, ServerStops,
       Complete
  <2> QED BY <2>1, <2>2 DEF HoldsExist
<1>4. ASSUME NEW d \in Pruned, PruneStep(d) PROVE HoldsExist'
  <2>1. srcHold' = srcHold
    BY <1>4 DEF PruneStep, PruneReadToken, PruneReadSince, PruneAbort,
       PruneClear, PruneList, PruneClassify, PruneDestroy, PruneEnd
  <2>2. \A x \in snaps[Source] : x \in Held(Source) => x \in snaps'[Source]
    BY <1>4 DEF PruneStep, PruneReadToken, PruneReadSince, PruneAbort,
       PruneClear, PruneList, PruneClassify, PruneDestroy, PruneEnd
  <2> QED BY <2>1, <2>2 DEF HoldsExist, Held
<1>5. CASE Tick \/ CreateSnapshot \/ UNCHANGED vars
  BY <1>5 DEF HoldsExist, Tick, CreateSnapshot, vars
<1> QED
  BY <1>1, <1>2, <1>3, <1>4, <1>5 DEF Next

\* What arrived stays the newest until its session ends.
LEMMA NextUnacked ==
  ASSUME ProtectionInv, OneSender, Recent >= 1, [Next]_vars
  PROVE  UnackedIsNewest'
<1> USE SessionsAssumption, RemotesAssumption, PrunedAssumption
    DEF zfsVars, clientVars, serverVars, pruneVars, ackVars, ProtectionInv,
        ProtectionParts, TransferInv, TypeInv, TypeOK
<1>1. ASSUME NEW s \in Sessions, ClientStep(s) PROVE UnackedIsNewest'
  <2>1. UNCHANGED <<spc, snaps>> /\ unacked' \subseteq unacked
    BY <1>1 DEF ClientStep, ClientDecide, ClientReadStatus, ClientListHeld, ClientFindHeld,
       ClientPlaceHold, ClientHoldFails, ClientRelease, ClientFinish,
       ClientLosesLink, Acknowledge
  <2>2. \A t \in unacked : kind'[t] = kind[t] /\ stream'[t] = stream[t]
    <3>1. CASE ClientDecide(s)
      <4>1. s \notin unacked
        BY <3>1 DEF ClientDecide, UnackedIsNewest
      <4> QED BY <3>1, <4>1 DEF ClientDecide
    <3>2. CASE ~ClientDecide(s)
      <4>1. UNCHANGED <<kind, stream>>
        BY <1>1, <3>2 DEF ClientStep, ClientReadStatus, ClientListHeld, ClientFindHeld,
           ClientPlaceHold, ClientHoldFails, ClientRelease, ClientFinish,
           ClientLosesLink
      <4> QED BY <4>1
    <3> QED BY <3>1, <3>2
  <2> QED BY <2>1, <2>2 DEF UnackedIsNewest
<1>2. ASSUME NEW s \in Sessions, ServerStep(s) PROVE UnackedIsNewest'
  <2>1. CASE RecvFinish(s)
    BY <2>1, CompleteUnacked DEF RecvFinish
  <2>2. CASE ~RecvFinish(s)
    BY <1>2, <2>2 DEF UnackedIsNewest, OneSender, PhasesAgree, ServerStep,
       ServerReadToken, ServerSendHello, ServerReady, ServerDeclined,
       RecvBegin, RecvReject, RecvInterrupted, ServerAnnotate, ServerReadSince, ServerMark,
       Report, ServerHoldList, ServerFindHeld, ServerPlaceHold, ServerHoldFails,
       ServerRelease, ServerSendStatus, ServerLosesLink
  <2> QED BY <2>1, <2>2
<1>3. ASSUME NEW s \in Sessions,
             \/ StartSend(s) \/ EndSession(s) \/ Disconnect(s)
             \/ ClientStops(s) \/ ServerStops(s)
      PROVE  UnackedIsNewest'
  <2>1. CASE ServerStops(s) /\ spc[s] = "receiving" /\ Complete(s)
    BY <2>1, CompleteUnacked DEF ServerStops
  <2>2. CASE ServerStops(s) /\ UNCHANGED <<snaps, token, unacked>>
    BY <2>2 DEF UnackedIsNewest, OneSender, PhasesAgree, ServerStops
  <2>3. CASE StartSend(s)
    BY <2>3 DEF UnackedIsNewest, OneSender, PhasesAgree, StartSend
  <2>4. CASE EndSession(s) \/ Disconnect(s) \/ ClientStops(s)
    BY <2>4 DEF UnackedIsNewest, OneSender, PhasesAgree, EndSession,
       Disconnect, ClientStops
  <2> QED BY <1>3, <2>1, <2>2, <2>3, <2>4 DEF ServerStops
<1>4. ASSUME NEW d \in Pruned, PruneStep(d) PROVE UnackedIsNewest'
  <2>1. CASE PruneDestroy(d)
    BY <2>1, DestroyKeepsNewest DEF UnackedIsNewest, PruneDestroy
  <2>2. CASE ~PruneDestroy(d)
    BY <1>4, <2>2 DEF UnackedIsNewest, PruneStep, PruneReadToken,
       PruneReadSince, PruneAbort, PruneClear, PruneList, PruneClassify,
       PruneEnd
  <2> QED BY <2>1, <2>2
<1>5. CASE Tick \/ CreateSnapshot \/ UNCHANGED vars
  BY <1>5 DEF UnackedIsNewest, OneSender, Tick, CreateSnapshot, vars
<1> QED
  BY <1>1, <1>2, <1>3, <1>4, <1>5 DEF Next

\* ServerStatus{ok: true} comes after the receive, the hold after it.
LEMMA NextFollows ==
  ASSUME ProtectionInv, OneSender, Recent >= 1, [Next]_vars
  PROVE  HoldFollowsReceipt'
<1> USE SessionsAssumption, RemotesAssumption, PrunedAssumption
    DEF zfsVars, clientVars, serverVars, pruneVars, ackVars, ProtectionInv,
        ProtectionParts, TransferInv, TypeInv, TypeOK
<1>1. ASSUME NEW s \in Sessions, ClientStep(s) PROVE HoldFollowsReceipt'
  BY <1>1 DEF HoldFollowsReceipt, OneSender, UnackedIsNewest, PhasesAgree,
     ClientStep, ClientDecide, ClientReadStatus, AfterStatus,
     ClientListHeld, ClientFindHeld, ClientPlaceHold, ClientHoldFails, ClientRelease,
     ClientFinish, ClientLosesLink, Acknowledge
<1>2. ASSUME NEW s \in Sessions, ServerStep(s) PROVE HoldFollowsReceipt'
  <2>1. CASE RecvFinish(s)
    BY <2>1, CompleteFacts DEF HoldFollowsReceipt, OneSender, PhasesAgree,
       RecvFinish, Complete
  <2>2. CASE ~RecvFinish(s)
    BY <1>2, <2>2 DEF HoldFollowsReceipt, OneSender, PhasesAgree,
       ServerStep, ServerReadToken, ServerSendHello, ServerReady,
       ServerDeclined, RecvBegin, RecvReject, RecvInterrupted,
       ServerAnnotate, ServerReadSince, ServerMark,
       Report, ServerHoldList, ServerFindHeld, ServerPlaceHold,
       ServerHoldFails, ServerRelease, ServerSendStatus, ServerLosesLink
  <2> QED BY <2>1, <2>2
<1>3. ASSUME NEW s \in Sessions,
             \/ StartSend(s) \/ EndSession(s) \/ Disconnect(s)
             \/ ClientStops(s) \/ ServerStops(s)
      PROVE  HoldFollowsReceipt'
  <2>1. CASE ServerStops(s) /\ spc[s] = "receiving" /\ Complete(s)
    BY <2>1, CompleteFacts DEF HoldFollowsReceipt, OneSender, PhasesAgree,
       ServerStops, Complete
  <2>2. CASE ServerStops(s) /\ UNCHANGED <<snaps, token, unacked>>
    BY <2>2 DEF HoldFollowsReceipt, OneSender, PhasesAgree, ServerStops
  <2>3. CASE StartSend(s)
    BY <2>3 DEF HoldFollowsReceipt, OneSender, PhasesAgree, StartSend
  <2>4. CASE EndSession(s) \/ Disconnect(s) \/ ClientStops(s)
    BY <2>4 DEF HoldFollowsReceipt, OneSender, PhasesAgree, EndSession,
       Disconnect, ClientStops
  <2> QED BY <1>3, <2>1, <2>2, <2>3, <2>4 DEF ServerStops
<1>4. ASSUME NEW d \in Pruned, PruneStep(d) PROVE HoldFollowsReceipt'
  <2>1. CASE PruneDestroy(d)
    BY <2>1, DestroyKeepsNewest DEF HoldFollowsReceipt, PruneDestroy
  <2>2. CASE ~PruneDestroy(d)
    BY <1>4, <2>2 DEF HoldFollowsReceipt, PruneStep, PruneReadToken,
       PruneReadSince, PruneAbort, PruneClear, PruneList, PruneClassify,
       PruneEnd
  <2> QED BY <2>1, <2>2
<1>5. CASE Tick \/ CreateSnapshot \/ UNCHANGED vars
  BY <1>5 DEF HoldFollowsReceipt, OneSender, UnackedIsNewest, PhasesAgree,
       Tick, CreateSnapshot, vars
<1> QED
  BY <1>1, <1>2, <1>3, <1>4, <1>5 DEF Next

\* The list made at the start covers the head the server will name.
LEMMA NextCovers ==
  ASSUME ProtectionInv, OneSender, Recent >= 1, [Next]_vars
  PROVE  ListCoversHead'
<1> USE SessionsAssumption, RemotesAssumption, PrunedAssumption
    DEF zfsVars, clientVars, serverVars, pruneVars, ackVars, ProtectionInv,
        ProtectionParts, TransferInv, TypeInv, TypeOK
<1>1. ASSUME NEW s \in Sessions, ClientStep(s) PROVE ListCoversHead'
  BY <1>1 DEF ListCoversHead, OneSender, ClientStep, ClientDecide,
     ClientReadStatus, AfterStatus, ClientListHeld, ClientFindHeld, ClientPlaceHold,
     ClientHoldFails, ClientRelease, ClientFinish, ClientLosesLink,
     Acknowledge
<1>2. ASSUME NEW s \in Sessions, ServerStep(s) PROVE ListCoversHead'
  <2>1. CASE RecvFinish(s)
    BY <2>1, CompleteCovers DEF RecvFinish
  <2>2. CASE ServerSendHello(s)
    BY <2>2 DEF ListCoversHead, ServerSendHello
  <2>3. CASE ~RecvFinish(s) /\ ~ServerSendHello(s)
    <3>1. UNCHANGED <<snaps, cpc, local, exposed>>
      BY <1>2, <2>3 DEF ServerStep, ServerReadToken, ServerReady,
         ServerDeclined, RecvBegin, RecvReject, RecvInterrupted,
         ServerAnnotate, ServerReadSince, ServerMark, Report, ServerHoldList, ServerFindHeld,
         ServerPlaceHold, ServerHoldFails, ServerRelease, ServerSendStatus,
         ServerLosesLink
    <3>2. ASSUME NEW t \in Sessions, spc'[t] = "ready"
          PROVE  spc[t] = "ready" /\ hello'[t] = hello[t]
      BY <1>2, <2>3, <3>2 DEF ServerStep, ServerReadToken, ServerReady,
         ServerDeclined, RecvBegin, RecvReject, RecvInterrupted,
         ServerAnnotate, ServerReadSince, ServerMark, Report, ServerHoldList, ServerFindHeld,
         ServerPlaceHold, ServerHoldFails, ServerRelease, ServerSendStatus,
         ServerLosesLink
    <3> QED BY <3>1, <3>2 DEF ListCoversHead
  <2> QED BY <2>1, <2>2, <2>3
<1>3. ASSUME NEW s \in Sessions,
             \/ StartSend(s) \/ EndSession(s) \/ Disconnect(s)
             \/ ClientStops(s) \/ ServerStops(s)
      PROVE  ListCoversHead'
  <2>1. CASE ServerStops(s) /\ spc[s] = "receiving" /\ Complete(s)
    BY <2>1, CompleteCovers DEF ServerStops
  <2>2. CASE ServerStops(s) /\ UNCHANGED <<snaps, token, unacked>>
    BY <2>2 DEF ListCoversHead, OneSender, PhasesAgree, Sending, ServerStops
  <2>3. CASE StartSend(s)
    <3>1. s \notin unacked
      BY <2>3 DEF StartSend, UnackedIsNewest
    <3>2. \A t \in unacked : RemoteOf[t] # RemoteOf[s]
      BY <3>1 DEF OneSender
    <3>3. RemoteOf[s] \notin exposed =>
            \A h \in snaps[RemoteOf[s]] :
               IsNewest(h, snaps[RemoteOf[s]]) => h \in snaps[Source]
      BY <3>2 DEF BaseProtected
    <3> QED BY <2>3, <3>3 DEF ListCoversHead, StartSend
  <2>4. CASE EndSession(s) \/ Disconnect(s) \/ ClientStops(s)
    <3>1. snaps' = snaps /\ exposed \subseteq exposed'
      BY <2>4 DEF EndSession, Disconnect, ClientStops
    <3>2. ASSUME NEW t \in Sessions, cpc'[t] = "hello"
          PROVE  /\ cpc[t] = "hello" /\ local'[t] = local[t]
                 /\ spc'[t] = spc[t] /\ hello'[t] = hello[t]
      BY <2>4, <3>2 DEF EndSession, Disconnect, ClientStops
    <3> QED BY <3>1, <3>2 DEF ListCoversHead
  <2> QED BY <1>3, <2>1, <2>2, <2>3, <2>4 DEF ServerStops
<1>4. ASSUME NEW d \in Pruned, PruneStep(d) PROVE ListCoversHead'
  <2>1. CASE PruneDestroy(d)
    <3>1. UNCHANGED <<cpc, spc, local, hello, exposed>>
      BY <2>1 DEF PruneDestroy
    <3>2. \A r \in Remotes : snaps'[r] \subseteq snaps[r]
      BY <2>1, DestroyFrame
    <3>3. \A r \in Remotes : \A h : IsNewest(h, snaps'[r]) <=> IsNewest(h, snaps[r])
      BY <2>1, DestroyKeepsNewest
    <3> QED BY <3>1, <3>2, <3>3 DEF ListCoversHead
  <2>2. CASE ~PruneDestroy(d)
    BY <1>4, <2>2 DEF ListCoversHead, PruneStep, PruneReadToken,
       PruneReadSince, PruneAbort, PruneClear, PruneList, PruneClassify,
       PruneEnd
  <2> QED BY <2>1, <2>2
<1>5. CASE Tick \/ CreateSnapshot \/ UNCHANGED vars
  BY <1>5 DEF ListCoversHead, OneSender, Tick, CreateSnapshot, vars
<1> QED
  BY <1>1, <1>2, <1>3, <1>4, <1>5 DEF Next

\* A head that is protected is on the client's list.
LEMMA NextDiverged ==
  ASSUME ProtectionInv, OneSender, Recent >= 1, [Next]_vars
  PROVE  DivergedOnlyIfExposed'
<1> USE SessionsAssumption, RemotesAssumption, PrunedAssumption
    DEF zfsVars, clientVars, serverVars, pruneVars, ackVars, ProtectionInv,
        ProtectionParts, TransferInv, TypeInv, TypeOK
<1>1. ASSUME NEW s \in Sessions, ClientStep(s) PROVE DivergedOnlyIfExposed'
  <2>1. CASE ClientDecide(s)
    <3> DEFINE r == RemoteOf[s]
    <3>1. ASSUME kind'[s] = "diverged" PROVE r \in exposed
      <4>1. hello[s].head # NoSnap /\ hello[s].head \notin local[s]
        BY <2>1, <3>1 DEF ClientDecide, decide_transfer
      <4>2. IsNewest(hello[s].head, snaps[r])
        BY <2>1 DEF ClientDecide, ListCoversHead
      <4>3. hello[s].head \in snaps[r]
        BY <4>1, <4>2 DEF IsNewest
      <4> QED BY <2>1, <4>1, <4>2, <4>3 DEF ClientDecide, ListCoversHead
    <3>2. \A t \in Sessions : t # s => kind'[t] = kind[t]
      BY <2>1 DEF ClientDecide
    <3>3. exposed' = exposed
      BY <2>1 DEF ClientDecide
    <3> QED BY <3>1, <3>2, <3>3 DEF DivergedOnlyIfExposed
  <2>2. CASE ~ClientDecide(s)
    BY <1>1, <2>2 DEF DivergedOnlyIfExposed, OneSender, PhasesAgree,
       ClientStep, ClientReadStatus, AfterStatus, ClientListHeld, ClientFindHeld,
       ClientPlaceHold, ClientHoldFails, ClientRelease, ClientFinish,
       ClientLosesLink, Acknowledge
  <2> QED BY <2>1, <2>2
<1>2. ASSUME NEW s \in Sessions, ServerStep(s) PROVE DivergedOnlyIfExposed'
  BY <1>2 DEF DivergedOnlyIfExposed, ServerStep, ServerReadToken,
     ServerSendHello, ServerReady, ServerDeclined, RecvBegin, RecvReject,
     RecvFinish, RecvInterrupted, ServerAnnotate, ServerReadSince, ServerMark, Report,
     ServerHoldList, ServerFindHeld, ServerPlaceHold, ServerHoldFails, ServerRelease,
     ServerSendStatus, ServerLosesLink, Complete
<1>3. ASSUME NEW s \in Sessions,
             \/ StartSend(s) \/ EndSession(s) \/ Disconnect(s)
             \/ ClientStops(s) \/ ServerStops(s)
      PROVE  DivergedOnlyIfExposed'
  BY <1>3 DEF DivergedOnlyIfExposed, StartSend, EndSession, Disconnect,
       ClientStops, ServerStops, Complete
<1>4. ASSUME NEW d \in Pruned, PruneStep(d) PROVE DivergedOnlyIfExposed'
  BY <1>4 DEF DivergedOnlyIfExposed, PruneStep, PruneReadToken,
     PruneReadSince, PruneAbort, PruneClear, PruneList, PruneClassify,
     PruneDestroy, PruneEnd
<1>5. CASE Tick \/ CreateSnapshot \/ UNCHANGED vars
  BY <1>5 DEF DivergedOnlyIfExposed, Tick, CreateSnapshot, vars
<1> QED
  BY <1>1, <1>2, <1>3, <1>4, <1>5 DEF Next

\* The hold is on the newest Snapshot, or the history says why not.
LEMMA NextProtected ==
  ASSUME ProtectionInv, OneSender, Recent >= 1, [Next]_vars
  PROVE  BaseProtected'
<1> USE SessionsAssumption, RemotesAssumption, PrunedAssumption
    DEF zfsVars, clientVars, serverVars, pruneVars, ackVars, ProtectionInv,
        ProtectionParts, TransferInv, TypeInv, TypeOK
<1>1. ASSUME NEW s \in Sessions, ClientStep(s) PROVE BaseProtected'
  <2>1. CASE ClientPlaceHold(s) \/ ClientHoldFails(s)
    <3>1. s \in unacked
      BY <2>1 DEF ClientPlaceHold, ClientHoldFails, HoldFollowsReceipt
    <3>2. IsNewest(stream[s].to, snaps[RemoteOf[s]])
      BY <3>1 DEF UnackedIsNewest
    <3>3. ASSUME NEW h, IsNewest(h, snaps[RemoteOf[s]]) PROVE h = stream[s].to
      <4>1. snaps[RemoteOf[s]] \in SUBSET Time
        OBVIOUS
      <4> QED BY <3>2, <3>3, <4>1, NewestUnique
    <3>4. snaps' = snaps /\ \A r \in Remotes : srcHold[r] \subseteq srcHold'[r]
      <4>1. CASE ClientPlaceHold(s)
        <5>1. srcHold' = [srcHold EXCEPT
                            ![RemoteOf[s]] = @ \cup {latest[s]}]
          BY <4>1 DEF ClientPlaceHold
        <5>2. snaps' = snaps
          BY <4>1 DEF ClientPlaceHold
        <5> QED BY <5>1, <5>2
      <4>2. CASE ClientHoldFails(s)
        BY <4>2 DEF ClientHoldFails
      <4> QED BY <2>1, <4>1, <4>2
    <3>5. \/ UNCHANGED <<unacked, exposed>>
          \/ /\ stream[s].to = latest[s]
             /\ latest[s] \in srcHold'[RemoteOf[s]] \cap snaps[Source]
             /\ unacked' = unacked \ {s}
             /\ exposed' = exposed \ {RemoteOf[s]}
      BY <2>1 DEF HoldsExist, ClientPlaceHold, ClientHoldFails, Acknowledge
    <3>6. CASE UNCHANGED <<unacked, exposed>>
      BY <3>4, <3>6 DEF BaseProtected
    <3>7. CASE /\ stream[s].to = latest[s]
               /\ latest[s] \in srcHold'[RemoteOf[s]] \cap snaps[Source]
               /\ unacked' = unacked \ {s}
               /\ exposed' = exposed \ {RemoteOf[s]}
      <4>1. SUFFICES ASSUME NEW r \in Remotes, NEW h \in snaps[r],
                            IsNewest(h, snaps[r]), r \notin exposed',
                            \A t \in unacked' : RemoteOf[t] # r
                     PROVE  h \in srcHold'[r] \cap snaps[Source]
        BY <3>4 DEF BaseProtected
      <4>2. CASE r = RemoteOf[s]
        BY <3>3, <3>7, <4>1, <4>2
      <4>3. CASE r # RemoteOf[s]
        <5>1. r \notin exposed /\ \A t \in unacked : RemoteOf[t] # r
          BY <3>7, <4>1, <4>3
        <5> QED BY <3>4, <4>1, <5>1 DEF BaseProtected
      <4> QED BY <4>2, <4>3
    <3> QED BY <3>5, <3>6, <3>7
  <2>2. CASE ClientRelease(s)
    <3>1. UNCHANGED <<snaps, unacked, exposed>>
      BY <2>2 DEF ClientRelease
    <3>2. latest[s] \in srcHold'[RemoteOf[s]]
      BY <2>2 DEF ClientRelease, HoldBeforeRelease
    <3>3. \A r \in Remotes : r # RemoteOf[s] => srcHold'[r] = srcHold[r]
      BY <2>2 DEF ClientRelease
    <3>4. ASSUME s \notin unacked, NEW h, IsNewest(h, snaps[RemoteOf[s]])
          PROVE  h = latest[s]
      BY <2>2, <3>4, NewestUnique DEF ClientRelease, HoldFollowsReceipt
    <3> QED BY <3>1, <3>2, <3>3, <3>4 DEF BaseProtected, HoldsExist
  <2>3. CASE ~(ClientPlaceHold(s) \/ ClientHoldFails(s) \/ ClientRelease(s))
    BY <1>1, <2>3 DEF BaseProtected, ClientStep, ClientDecide,
       ClientReadStatus, AfterStatus, ClientListHeld, ClientFindHeld, ClientFinish,
       ClientLosesLink
  <2> QED BY <2>1, <2>2, <2>3
<1>2. ASSUME NEW s \in Sessions, ServerStep(s) PROVE BaseProtected'
  <2>1. CASE RecvFinish(s)
    BY <2>1, CompleteFacts DEF BaseProtected, RecvFinish, Complete
  <2>2. CASE ~RecvFinish(s)
    BY <1>2, <2>2 DEF BaseProtected, ServerStep, ServerReadToken,
       ServerSendHello, ServerReady, ServerDeclined, RecvBegin, RecvReject,
       RecvInterrupted, ServerAnnotate, ServerReadSince, ServerMark,
       Report, ServerHoldList, ServerFindHeld,
       ServerPlaceHold, ServerHoldFails, ServerRelease, ServerSendStatus,
       ServerLosesLink
  <2> QED BY <2>1, <2>2
<1>3. ASSUME NEW s \in Sessions,
             \/ StartSend(s) \/ EndSession(s) \/ Disconnect(s)
             \/ ClientStops(s) \/ ServerStops(s)
      PROVE  BaseProtected'
  <2>1. CASE ServerStops(s) /\ spc[s] = "receiving" /\ Complete(s)
    BY <2>1, CompleteFacts DEF BaseProtected, UnackedIsNewest, ServerStops,
       Complete
  <2>2. CASE ServerStops(s) /\ UNCHANGED <<snaps, token, unacked>>
    BY <2>2 DEF BaseProtected, UnackedIsNewest, ServerStops
  <2>3. CASE StartSend(s)
    BY <2>3 DEF BaseProtected, UnackedIsNewest, StartSend
  <2>4. CASE EndSession(s) \/ Disconnect(s) \/ ClientStops(s)
    BY <2>4 DEF BaseProtected, UnackedIsNewest, EndSession, Disconnect,
       ClientStops
  <2> QED BY <1>3, <2>1, <2>2, <2>3, <2>4 DEF ServerStops
<1>4. ASSUME NEW d \in Pruned, PruneStep(d) PROVE BaseProtected'
  <2>1. CASE PruneDestroy(d)
    <3>1. UNCHANGED <<srcHold, unacked, exposed>>
      BY <2>1 DEF PruneDestroy
    <3>2. \A x \in snaps[Source] : x \in Held(Source) => x \in snaps'[Source]
      BY <2>1, DestroyFrame
    <3>3. \A r \in Remotes : snaps'[r] \subseteq snaps[r]
      BY <2>1, DestroyFrame
    <3>4. \A r \in Remotes : \A h : IsNewest(h, snaps'[r]) <=> IsNewest(h, snaps[r])
      BY <2>1, DestroyKeepsNewest
    <3>5. \A r \in Remotes : srcHold[r] \subseteq Held(Source)
      BY DEF Held
    <3> HIDE DEF ProtectionInv, TransferInv, TypeInv, TypeOK
    <3>6. BaseProtected
      BY DEF ProtectionInv
    <3> QED BY <3>1, <3>2, <3>3, <3>4, <3>5, <3>6 DEF BaseProtected
  <2>2. CASE ~PruneDestroy(d)
    BY <1>4, <2>2 DEF BaseProtected, PruneStep, PruneReadToken,
       PruneReadSince, PruneAbort, PruneClear, PruneList, PruneClassify,
       PruneEnd
  <2> QED BY <2>1, <2>2
<1>5. CASE Tick \/ CreateSnapshot \/ UNCHANGED vars
  BY <1>5 DEF BaseProtected, Tick, CreateSnapshot, vars
<1> QED
  BY <1>1, <1>2, <1>3, <1>4, <1>5 DEF Next

-----------------------------------------------------------------------------
(* The theorems.                                                           *)

LEMMA InitProtection == Init => ProtectionInv
<1> SUFFICES ASSUME Init PROVE ProtectionInv
  OBVIOUS
<1>1. TransferInv
  BY InitTransfer
<1>2. ProtectionParts
  BY DEF Init, ProtectionParts, HoldBeforeRelease, PhasesAgree,
         UnackedIsNewest, HoldFollowsReceipt, ListCoversHead, HoldsExist,
         BaseProtected, DivergedOnlyIfExposed
<1> QED BY <1>1, <1>2 DEF ProtectionInv

LEMMA NextProtection ==
  ASSUME OneSender, Recent >= 1
  PROVE  ProtectionInv /\ [Next]_vars => ProtectionInv'
<1> SUFFICES ASSUME ProtectionInv, [Next]_vars PROVE ProtectionInv'
  OBVIOUS
<1>1. TransferInv'
  BY NextTransfer DEF ProtectionInv
<1>2. PhasesAgree'
  BY NextPhases DEF ProtectionInv, ProtectionParts, TransferInv
<1>3. /\ HoldBeforeRelease' /\ UnackedIsNewest'
      /\ HoldFollowsReceipt' /\ ListCoversHead' /\ HoldsExist'
      /\ BaseProtected' /\ DivergedOnlyIfExposed'
  BY NextHoldBefore, NextUnacked, NextFollows, NextCovers,
     NextHoldsExist, NextProtected, NextDiverged
<1> QED BY <1>1, <1>2, <1>3 DEF ProtectionInv, ProtectionParts

\* With one session per Remote at a time, the source keeps a hold on the newest
\* Snapshot of every Remote until some session ends between the receipt and the
\* hold, whatever prune deletes meanwhile on either side.
THEOREM BaseStaysProtected ==
  ASSUME OneSender, Recent >= 1
  PROVE  Spec => []BaseProtected
<1>1. ProtectionInv => BaseProtected
  BY DEF ProtectionInv, ProtectionParts
<1> QED
  BY <1>1, InitProtection, NextProtection, PTL DEF Spec

\* With one session per Remote at a time, decide_transfer reports divergence
\* only for a Remote that a session left without the hold on what it received.
THEOREM DivergenceIsExplained ==
  ASSUME OneSender, Recent >= 1
  PROVE  Spec => []DivergedOnlyIfExposed
<1>1. ProtectionInv => DivergedOnlyIfExposed
  BY DEF ProtectionInv, ProtectionParts
<1> QED
  BY <1>1, InitProtection, NextProtection, PTL DEF Spec

\* Both sides put the new hold in place before they release the old ones, so a
\* Remote that has a hold is never without.
LEMMA StepKeepsHold ==
  ASSUME OneSender, ProtectionInv, [Next]_vars,
         NEW r \in Remotes
  PROVE  /\ srcHold[r] # {} => srcHold'[r] # {}
         /\ recvHold[r] # {} => recvHold'[r] # {}
<1> USE SessionsAssumption, RemotesAssumption, PrunedAssumption
    DEF zfsVars, clientVars, serverVars, pruneVars, ackVars, ProtectionInv,
        ProtectionParts, TransferInv, TypeInv, TypeOK
<1> DEFINE Kept == /\ srcHold[r] # {} => srcHold'[r] # {}
                   /\ recvHold[r] # {} => recvHold'[r] # {}
<1>1. ASSUME NEW s \in Sessions, ClientStep(s) PROVE Kept
  <2>1. CASE ClientRelease(s)
    <3>1. latest[s] \in srcHold'[RemoteOf[s]] /\ recvHold' = recvHold
      BY <2>1 DEF ClientRelease, HoldBeforeRelease
    <3>2. r # RemoteOf[s] => srcHold'[r] = srcHold[r]
      BY <2>1 DEF ClientRelease
    <3> QED BY <3>1, <3>2
  <2>2. CASE ClientPlaceHold(s)
    <3>1. srcHold[r] \subseteq srcHold'[r] /\ recvHold' = recvHold
      BY <2>2 DEF ClientPlaceHold
    <3> QED BY <3>1
  <2>3. CASE ~ClientRelease(s) /\ ~ClientPlaceHold(s)
    BY <1>1, <2>3 DEF ClientStep, ClientDecide, ClientReadStatus,
       AfterStatus, ClientListHeld, ClientFindHeld, ClientHoldFails, ClientFinish,
       ClientLosesLink
  <2> QED BY <2>1, <2>2, <2>3
<1>2. ASSUME NEW s \in Sessions, ServerStep(s) PROVE Kept
  <2>1. CASE ServerRelease(s)
    <3>1. sNew[s] \in recvHold'[RemoteOf[s]] /\ srcHold' = srcHold
      BY <2>1 DEF ServerRelease, HoldBeforeRelease
    <3>2. r # RemoteOf[s] => recvHold'[r] = recvHold[r]
      BY <2>1 DEF ServerRelease
    <3> QED BY <3>1, <3>2
  <2>2. CASE ServerPlaceHold(s)
    <3>1. recvHold[r] \subseteq recvHold'[r] /\ srcHold' = srcHold
      BY <2>2 DEF ServerPlaceHold
    <3> QED BY <3>1
  <2>3. CASE ~ServerRelease(s) /\ ~ServerPlaceHold(s)
    BY <1>2, <2>3 DEF ServerStep, ServerReadToken, ServerSendHello,
       ServerReady, ServerDeclined, RecvBegin, RecvReject, RecvFinish,
       RecvInterrupted, ServerAnnotate, ServerReadSince, ServerMark,
       Report, ServerHoldList, ServerFindHeld,
       ServerHoldFails, ServerSendStatus, ServerLosesLink
  <2> QED BY <2>1, <2>2, <2>3
<1>3. ASSUME NEW s \in Sessions,
             \/ StartSend(s) \/ EndSession(s) \/ Disconnect(s)
             \/ ClientStops(s) \/ ServerStops(s)
      PROVE  Kept
  BY <1>3 DEF StartSend, EndSession, Disconnect, ClientStops, ServerStops
<1>4. ASSUME NEW d \in Pruned, PruneStep(d) PROVE Kept
  BY <1>4 DEF PruneStep, PruneReadToken, PruneReadSince, PruneAbort,
     PruneClear, PruneList, PruneClassify, PruneDestroy, PruneEnd
<1>5. CASE Tick \/ CreateSnapshot \/ UNCHANGED vars
  BY <1>5 DEF Tick, CreateSnapshot, vars
<1> QED
  BY <1>1, <1>2, <1>3, <1>4, <1>5 DEF Next

\* With one session per Remote at a time, place_transfer_hold and
\* place_server_transfer_hold leave no moment without a Transfer Hold.
THEOREM NoWindow ==
  ASSUME OneSender, Recent >= 1
  PROVE  Spec => NoHoldWindow
<1>1. ProtectionInv /\ [Next]_vars => [HoldsKept]_vars
  BY StepKeepsHold DEF HoldsKept
<1> QED
  BY <1>1, InitProtection, NextProtection, PTL DEF Spec, NoHoldWindow

-----------------------------------------------------------------------------
(* What the hold of a fresh send is on, for any number of sessions.        *)

\* A full or incremental stream carries ctx.latest, which exists from the
\* start of the session on, and what a Remote received is a stream.
FreshCarriesLatest ==
  \A s \in Sessions :
     /\ cpc[s] # "idle" => latest[s] # NoSnap
     /\ kind[s] \in {"full", "incremental"} /\ stream[s] # NoStream
           => stream[s].to = latest[s]
     /\ s \in unacked => kind[s] \in Sending /\ stream[s] # NoStream

LEMMA NextFresh ==
  ASSUME TypeInv, PhasesAgree, FreshCarriesLatest, [Next]_vars
  PROVE  FreshCarriesLatest'
<1> USE SessionsAssumption, RemotesAssumption, PrunedAssumption
    DEF zfsVars, clientVars, serverVars, pruneVars, ackVars, TypeInv, TypeOK
<1>1. ASSUME NEW s \in Sessions, ClientStep(s) PROVE FreshCarriesLatest'
  <2>1. CASE ClientDecide(s)
    <3>1. UNCHANGED <<latest, unacked>> /\ \A t \in Sessions : cpc'[t] # "idle" => cpc[t] # "idle"
      BY <2>1 DEF ClientDecide
    <3>2. \A t \in Sessions : t # s => kind'[t] = kind[t] /\ stream'[t] = stream[t]
      BY <2>1 DEF ClientDecide
    <3>3. s \notin unacked
      BY <2>1 DEF ClientDecide, PhasesAgree, FreshCarriesLatest, Sending
    <3>4. ASSUME kind'[s] \in {"full", "incremental"}, stream'[s] # NoStream
          PROVE  stream'[s].to = latest[s]
      BY <2>1, <3>4 DEF ClientDecide, Requested, Emitted, Sending
    <3> QED BY <3>1, <3>2, <3>3, <3>4 DEF FreshCarriesLatest
  <2>2. CASE ~ClientDecide(s)
    <3>1. UNCHANGED <<latest, kind, stream>> /\ unacked' \subseteq unacked
      BY <1>1, <2>2 DEF ClientStep, ClientReadStatus, ClientListHeld, ClientFindHeld,
         ClientPlaceHold, ClientHoldFails, ClientRelease, ClientFinish,
         ClientLosesLink, Acknowledge
    <3>2. \A t \in Sessions : cpc'[t] # "idle" => cpc[t] # "idle"
      BY <1>1, <2>2 DEF ClientStep, ClientReadStatus, ClientListHeld, ClientFindHeld,
         ClientPlaceHold, ClientHoldFails, ClientRelease, ClientFinish,
         ClientLosesLink
    <3> QED BY <3>1, <3>2 DEF FreshCarriesLatest
  <2> QED BY <2>1, <2>2
<1>2. ASSUME NEW s \in Sessions, ServerStep(s) \/ ServerStops(s)
      PROVE  FreshCarriesLatest'
  <2>1. UNCHANGED <<cpc, latest, kind, stream>>
    BY <1>2 DEF ServerStep, ServerReadToken, ServerSendHello, ServerReady,
       ServerDeclined, RecvBegin, RecvReject, RecvFinish, RecvInterrupted,
       ServerAnnotate, ServerReadSince, ServerMark, ServerHoldList, ServerFindHeld, ServerPlaceHold,
       ServerHoldFails, ServerRelease, ServerSendStatus, ServerLosesLink,
       ServerStops
  <2>2. unacked' = unacked \/ (spc[s] = "receiving" /\ unacked' = unacked \cup {s})
    BY <1>2 DEF ServerStep, ServerReadToken, ServerSendHello, ServerReady,
       ServerDeclined, RecvBegin, RecvReject, RecvFinish, RecvInterrupted,
       ServerAnnotate, ServerReadSince, ServerMark, ServerHoldList, ServerFindHeld, ServerPlaceHold,
       ServerHoldFails, ServerRelease, ServerSendStatus, ServerLosesLink,
       ServerStops, Complete
  <2>3. spc[s] = "receiving" => kind[s] \in Sending /\ stream[s] # NoStream
    BY DEF PhasesAgree, ReceivesAStream
  <2> QED BY <2>1, <2>2, <2>3 DEF FreshCarriesLatest
<1>3. ASSUME NEW s \in Sessions, StartSend(s) PROVE FreshCarriesLatest'
  BY <1>3 DEF FreshCarriesLatest, PhasesAgree, StartSend, Time, NoSnap
<1>4. ASSUME NEW s \in Sessions, EndSession(s) PROVE FreshCarriesLatest'
  BY <1>4 DEF FreshCarriesLatest, EndSession
<1>5. ASSUME NEW s \in Sessions, Disconnect(s) \/ ClientStops(s)
      PROVE  FreshCarriesLatest'
  BY <1>5 DEF FreshCarriesLatest, Disconnect, ClientStops, ClientPC
<1>6. ASSUME NEW d \in Pruned, PruneStep(d) PROVE FreshCarriesLatest'
  BY <1>6 DEF FreshCarriesLatest, PruneStep, PruneReadToken, PruneReadSince,
     PruneAbort, PruneClear, PruneList, PruneClassify, PruneDestroy, PruneEnd
<1>7. CASE Tick \/ CreateSnapshot \/ UNCHANGED vars
  BY <1>7 DEF FreshCarriesLatest, Tick, CreateSnapshot, vars
<1> QED
  BY <1>1, <1>2, <1>3, <1>4, <1>5, <1>6, <1>7 DEF Next

LEMMA InitFresh == Init => FreshCarriesLatest
  BY DEF Init, FreshCarriesLatest

\* With one session per Remote at a time, the hold that a full or incremental
\* send has placed on ctx.latest is on a Snapshot the Remote has, even while
\* prune works on the target.
THEOREM FreshHoldIsReceived ==
  ASSUME OneSender, Recent >= 1
  PROVE  Spec => []FreshSendHoldsReceived
<1> DEFINE Inv == ProtectionInv /\ FreshCarriesLatest
<1>1. Inv => FreshSendHoldsReceived
  <2> SUFFICES ASSUME Inv, NEW s \in Sessions, cpc[s] = "release",
                      kind[s] # "resume"
               PROVE  latest[s] \in snaps[RemoteOf[s]]
    BY DEF FreshSendHoldsReceived
  <2>1. IsNewest(latest[s], snaps[RemoteOf[s]])
    <3>1. CASE s \in unacked
      BY <3>1 DEF ProtectionInv, ProtectionParts, UnackedIsNewest,
         FreshCarriesLatest, Sending
    <3>2. CASE s \notin unacked
      BY <3>2 DEF ProtectionInv, ProtectionParts, HoldFollowsReceipt
    <3> QED BY <3>1, <3>2
  <2> QED BY <2>1 DEF FreshCarriesLatest, IsNewest
<1>2. Init => Inv
  BY InitProtection, InitFresh
<1>3. Inv /\ [Next]_vars => Inv'
  <2> SUFFICES ASSUME Inv, [Next]_vars PROVE Inv'
    OBVIOUS
  <2>1. ProtectionInv'
    BY NextProtection
  <2>2. FreshCarriesLatest'
    BY NextFresh DEF ProtectionInv, ProtectionParts, TransferInv
  <2> QED BY <2>1, <2>2
<1> QED
  BY <1>1, <1>2, <1>3, PTL DEF Spec

\* The client gets to place_transfer_hold only after the stream arrived, and
\* what arrived stays on a target that is not pruned.
ArrivedStays ==
  \A s \in Sessions :
     /\ cpc[s] \in {"find", "held", "place"} => s \in unacked
     /\ cpc[s] = "stream" /\ status[s] = "ok" => s \in unacked
     /\ cpc[s] = "stream" /\ spc[s] \in {"holdlist", "held", "place", "release", "status"}
           => s \in unacked
     /\ s \in unacked => stream[s].to \in snaps[RemoteOf[s]]

UnprunedInv ==
  /\ TypeInv /\ PhasesAgree /\ FreshCarriesLatest /\ ArrivedStays
  /\ FreshSendHoldsReceived

\* Nothing but prune takes a Snapshot from a target.
LEMMA TargetsGrow ==
  ASSUME TypeInv, Pruned \cap Remotes = {}, [Next]_vars, NEW r \in Remotes
  PROVE  snaps[r] \subseteq snaps'[r]
<1> USE SessionsAssumption, RemotesAssumption, PrunedAssumption
    DEF zfsVars, clientVars, serverVars, pruneVars, ackVars, TypeInv, TypeOK
<1>1. ASSUME NEW s \in Sessions, ClientStep(s) PROVE snaps' = snaps
  BY <1>1 DEF ClientStep, ClientDecide, ClientReadStatus, ClientListHeld, ClientFindHeld,
     ClientPlaceHold, ClientHoldFails, ClientRelease, ClientFinish,
     ClientLosesLink
<1>2. ASSUME NEW s \in Sessions, ServerStep(s) \/ ServerStops(s)
      PROVE  snaps' = snaps \/ Complete(s)
  BY <1>2 DEF ServerStep, ServerReadToken, ServerSendHello, ServerReady,
     ServerDeclined, RecvBegin, RecvReject, RecvFinish, RecvInterrupted,
     ServerAnnotate, ServerReadSince, ServerMark, ServerHoldList, ServerFindHeld, ServerPlaceHold,
     ServerHoldFails, ServerRelease, ServerSendStatus, ServerLosesLink,
     ServerStops
<1>3. ASSUME NEW s \in Sessions, Complete(s) PROVE snaps[r] \subseteq snaps'[r]
  BY <1>3 DEF Complete
<1>4. ASSUME NEW s \in Sessions,
             StartSend(s) \/ EndSession(s) \/ Disconnect(s) \/ ClientStops(s)
      PROVE  snaps' = snaps
  BY <1>4 DEF StartSend, EndSession, Disconnect, ClientStops
<1>5. ASSUME NEW d \in Pruned, PruneStep(d) PROVE snaps'[r] = snaps[r]
  <2>1. d # r
    OBVIOUS
  <2> QED BY <1>5, <2>1 DEF PruneStep, PruneReadToken, PruneReadSince,
             PruneAbort, PruneClear, PruneList, PruneClassify, PruneDestroy,
             PruneEnd
<1>6. CASE Tick \/ CreateSnapshot \/ UNCHANGED vars
  BY <1>6 DEF Tick, CreateSnapshot, vars
<1> QED
  BY <1>1, <1>2, <1>3, <1>4, <1>5, <1>6 DEF Next

LEMMA NextArrived ==
  ASSUME UnprunedInv, Pruned \cap Remotes = {}, [Next]_vars
  PROVE  ArrivedStays'
<1> USE SessionsAssumption, RemotesAssumption, PrunedAssumption
    DEF zfsVars, clientVars, serverVars, pruneVars, ackVars, UnprunedInv,
        TypeInv, TypeOK
<1>0. \A r \in Remotes : snaps[r] \subseteq snaps'[r]
  BY TargetsGrow
<1>1. ASSUME NEW s \in Sessions, ClientStep(s) PROVE ArrivedStays'
  <2>1. CASE ClientDecide(s)
    <3>1. s \notin unacked /\ status[s] # "ok"
      BY <2>1 DEF ClientDecide, FreshCarriesLatest, PhasesAgree, Sending
    <3>2. /\ cpc'[s] \in {"stream", "done"} /\ spc[s] = "ready"
          /\ UNCHANGED <<spc, status, unacked>>
          /\ \A t \in Sessions : t # s => cpc'[t] = cpc[t] /\ stream'[t] = stream[t]
      BY <2>1 DEF ClientDecide
    <3> HIDE DEF TypeOK
    <3> QED BY <1>0, <3>1, <3>2 DEF ArrivedStays
  <2>2. CASE ~ClientDecide(s)
    <3>1. UNCHANGED stream
      BY <1>1, <2>2 DEF ClientStep, ClientReadStatus, ClientListHeld, ClientFindHeld,
         ClientPlaceHold, ClientHoldFails, ClientRelease, ClientFinish,
         ClientLosesLink
    <3> QED BY <1>0, <1>1, <2>2, <3>1 DEF ArrivedStays, ClientStep,
               ClientReadStatus, AfterStatus, ClientListHeld, ClientFindHeld,
               ClientPlaceHold, ClientHoldFails, ClientRelease,
               ClientFinish, ClientLosesLink, Acknowledge
  <2> QED BY <2>1, <2>2
<1>2. ASSUME NEW s \in Sessions, Complete(s), UNCHANGED <<cpc, stream, status>>,
             NEW p \in {"holdlist", "done"}, spc' = [spc EXCEPT ![s] = p]
      PROVE  ArrivedStays'
  <2>1. unacked' = unacked \cup {s} /\ stream[s].to \in snaps'[RemoteOf[s]]
    BY <1>2 DEF Complete
  <2> QED BY <1>0, <1>2, <2>1 DEF ArrivedStays
<1>3. ASSUME NEW s \in Sessions, ServerStep(s) PROVE ArrivedStays'
  <2>1. CASE RecvFinish(s)
    BY <1>2, <2>1 DEF RecvFinish
  <2>2. CASE ~RecvFinish(s)
    <3>1. UNCHANGED <<cpc, stream, unacked>>
      BY <1>3, <2>2 DEF ServerStep, ServerReadToken, ServerSendHello,
         ServerReady, ServerDeclined, RecvBegin, RecvReject,
         RecvInterrupted, ServerAnnotate, ServerReadSince, ServerMark,
         ServerHoldList, ServerFindHeld,
         ServerPlaceHold, ServerHoldFails, ServerRelease, ServerSendStatus,
         ServerLosesLink
    <3>2. ASSUME NEW t \in Sessions,
                 \/ status'[t] = "ok"
                 \/ spc'[t] \in {"holdlist", "held", "place", "release", "status"}
          PROVE  \/ status[t] = "ok"
                 \/ spc[t] \in {"holdlist", "held", "place", "release", "status"}
      BY <1>3, <2>2, <3>2 DEF ServerStep, ServerReadToken, ServerSendHello,
         ServerReady, ServerDeclined, RecvBegin, RecvReject,
         RecvInterrupted, ServerAnnotate, ServerReadSince, ServerMark, Report,
         ServerHoldList, ServerFindHeld, ServerPlaceHold, ServerHoldFails, ServerRelease,
         ServerSendStatus, ServerLosesLink
    <3> QED BY <1>0, <3>1, <3>2 DEF ArrivedStays
  <2> QED BY <2>1, <2>2
<1>4. ASSUME NEW s \in Sessions, ServerStops(s) PROVE ArrivedStays'
  <2>1. CASE Complete(s)
    BY <1>2, <1>4, <2>1 DEF ServerStops
  <2>2. CASE UNCHANGED <<snaps, token, unacked>>
    BY <1>4, <2>2 DEF ServerStops, ArrivedStays
  <2> QED BY <1>4, <2>1, <2>2 DEF ServerStops
<1>5. ASSUME NEW s \in Sessions,
             StartSend(s) \/ EndSession(s) \/ Disconnect(s) \/ ClientStops(s)
      PROVE  ArrivedStays'
  BY <1>0, <1>5 DEF ArrivedStays, StartSend, EndSession, Disconnect,
     ClientStops
<1>6. ASSUME NEW d \in Pruned, PruneStep(d) PROVE ArrivedStays'
  <2>1. UNCHANGED <<cpc, spc, stream, status, unacked>>
    BY <1>6 DEF PruneStep, PruneReadToken, PruneReadSince, PruneAbort,
       PruneClear, PruneList, PruneClassify, PruneDestroy, PruneEnd
  <2> QED BY <1>0, <2>1 DEF ArrivedStays
<1>7. CASE Tick \/ CreateSnapshot \/ UNCHANGED vars
  <2>1. UNCHANGED <<cpc, spc, stream, status, unacked>>
    BY <1>7 DEF Tick, CreateSnapshot, vars
  <2> QED BY <1>0, <2>1 DEF ArrivedStays
<1> QED
  BY <1>1, <1>3, <1>4, <1>5, <1>6, <1>7 DEF Next

LEMMA NextFreshHolds ==
  ASSUME UnprunedInv, Pruned \cap Remotes = {}, [Next]_vars
  PROVE  FreshSendHoldsReceived'
<1> USE SessionsAssumption, RemotesAssumption, PrunedAssumption
    DEF zfsVars, clientVars, serverVars, pruneVars, ackVars, UnprunedInv,
        TypeInv, TypeOK
<1>0. \A r \in Remotes : snaps[r] \subseteq snaps'[r]
  BY TargetsGrow
<1>1. ASSUME NEW s \in Sessions, ClientPlaceHold(s)
      PROVE  FreshSendHoldsReceived'
  <2>1. kind[s] # "resume" => latest[s] \in snaps[RemoteOf[s]]
    BY <1>1 DEF ClientPlaceHold, ArrivedStays, FreshCarriesLatest, Sending
  <2> QED BY <1>1, <2>1 DEF FreshSendHoldsReceived, ClientPlaceHold
<1>2. CASE \A t \in Sessions : cpc'[t] = "release" =>
              cpc[t] = "release" /\ kind'[t] = kind[t] /\ latest'[t] = latest[t]
  BY <1>0, <1>2 DEF FreshSendHoldsReceived
<1>3. ASSUME NEW s \in Sessions, ClientStep(s)
      PROVE  FreshSendHoldsReceived'
  <2>1. CASE ~ClientPlaceHold(s)
    BY <1>2, <1>3, <2>1 DEF ClientStep, ClientDecide, ClientReadStatus,
       AfterStatus, ClientListHeld, ClientFindHeld, ClientHoldFails, ClientRelease,
       ClientFinish, ClientLosesLink
  <2> QED BY <1>1, <2>1
<1>4. ASSUME NEW s \in Sessions, ServerStep(s)
      PROVE  FreshSendHoldsReceived'
  BY <1>2, <1>4 DEF ServerStep, ServerReadToken, ServerSendHello,
     ServerReady, ServerDeclined, RecvBegin, RecvReject, RecvFinish,
     RecvInterrupted, ServerAnnotate, ServerReadSince, ServerMark, ServerHoldList, ServerFindHeld,
     ServerPlaceHold, ServerHoldFails, ServerRelease, ServerSendStatus,
     ServerLosesLink
<1>5. ASSUME NEW s \in Sessions,
             \/ StartSend(s) \/ EndSession(s) \/ Disconnect(s)
             \/ ClientStops(s) \/ ServerStops(s)
      PROVE  FreshSendHoldsReceived'
  BY <1>2, <1>5 DEF StartSend, EndSession, Disconnect, ClientStops,
     ServerStops
<1>6. ASSUME NEW d \in Pruned, PruneStep(d) PROVE FreshSendHoldsReceived'
  BY <1>2, <1>6 DEF PruneStep, PruneReadToken, PruneReadSince, PruneAbort,
     PruneClear, PruneList, PruneClassify, PruneDestroy, PruneEnd
<1>7. CASE Tick \/ CreateSnapshot \/ UNCHANGED vars
  BY <1>2, <1>7 DEF Tick, CreateSnapshot, vars
<1> QED
  BY <1>3, <1>4, <1>5, <1>6, <1>7 DEF Next

\* With any number of sessions to a Remote at a time, and no prune on the
\* targets, the hold that a full or incremental send has placed on ctx.latest
\* is on a Snapshot the Remote has.
THEOREM FreshHoldIsReceivedByAll ==
  ASSUME Pruned \cap Remotes = {}
  PROVE  Spec => []FreshSendHoldsReceived
<1>1. Init => UnprunedInv
  <2> SUFFICES ASSUME Init PROVE UnprunedInv
    OBVIOUS
  <2>1. PhasesAgree /\ ArrivedStays /\ FreshSendHoldsReceived
    BY DEF Init, PhasesAgree, ArrivedStays, FreshSendHoldsReceived
  <2> QED BY <2>1, InitType, InitFresh DEF UnprunedInv
<1>2. UnprunedInv /\ [Next]_vars => UnprunedInv'
  <2> SUFFICES ASSUME UnprunedInv, [Next]_vars PROVE UnprunedInv'
    OBVIOUS
  <2>1. TypeInv' /\ PhasesAgree' /\ FreshCarriesLatest'
    BY NextType, NextPhases, NextFresh DEF UnprunedInv
  <2>2. ArrivedStays' /\ FreshSendHoldsReceived'
    BY NextArrived, NextFreshHolds
  <2> QED BY <2>1, <2>2 DEF UnprunedInv
<1>3. UnprunedInv => FreshSendHoldsReceived
  BY DEF UnprunedInv
<1> QED
  BY <1>1, <1>2, <1>3, PTL DEF Spec

-----------------------------------------------------------------------------
(* The target's own hold, for any number of sessions.                      *)

\* A server releases only what is older than the Snapshot it lists as newest,
\* and while it does, that one or a newer one is held.
TargetInv ==
  /\ \A r \in Remotes : recvHold[r] \subseteq snaps[r]
  /\ \A s \in Sessions :
        /\ spc[s] = "held" => \A x \in sOld[s] : x <= sNew[s]
        /\ spc[s] \in {"place", "release"} => \A x \in sOld[s] : x < sNew[s]
        /\ spc[s] = "release" => \E h \in recvHold[RemoteOf[s]] : sNew[s] <= h

\* A release takes the older of two holds.
LEMMA ReleaseTakesOlder ==
  ASSUME TypeInv, TargetInv, NEW s \in Sessions, ServerRelease(s),
         NEW r \in Remotes, NEW h \in recvHold[r]
  PROVE  \E k \in recvHold'[r] : h <= k
<1> USE SessionsAssumption, BoundsAssumption DEF TypeInv, TypeOK, Time
<1>1. PICK x \in sOld[s] : \E gone \in {{x}, {}} :
         recvHold' = [recvHold EXCEPT ![RemoteOf[s]] = @ \ gone]
  BY DEF ServerRelease
<1>2. x < sNew[s]
  BY DEF ServerRelease, TargetInv
<1>3. PICK k \in recvHold[RemoteOf[s]] : sNew[s] <= k
  BY DEF ServerRelease, TargetInv
<1>4. k \in Int /\ x \in Int /\ sNew[s] \in Int /\ h \in Int
  OBVIOUS
<1>5. x < k /\ k # x
  BY <1>2, <1>3, <1>4
<1>6. CASE r = RemoteOf[s] /\ h = x
  <2>1. k \in recvHold'[r]
    BY <1>1, <1>3, <1>5, <1>6
  <2> QED BY <1>4, <1>5, <1>6, <2>1
<1>7. CASE ~(r = RemoteOf[s] /\ h = x)
  <2>1. h \in recvHold'[r]
    BY <1>1, <1>7
  <2> QED BY <1>4, <2>1
<1> QED BY <1>6, <1>7

LEMMA NextTarget ==
  ASSUME TypeInv, TargetInv, [Next]_vars
  PROVE  TargetInv'
<1> USE SessionsAssumption, RemotesAssumption, PrunedAssumption, BoundsAssumption
    DEF zfsVars, clientVars, serverVars, pruneVars, ackVars, TypeInv, TypeOK, Time
<1>0. CASE UNCHANGED <<spc, recvHold, snaps, sOld, sNew>>
  BY <1>0 DEF TargetInv
<1>1. ASSUME NEW s \in Sessions, ClientStep(s) PROVE TargetInv'
  BY <1>0, <1>1 DEF ClientStep, ClientDecide, ClientReadStatus,
     ClientListHeld, ClientFindHeld, ClientPlaceHold, ClientHoldFails, ClientRelease,
     ClientFinish, ClientLosesLink
<1>2. ASSUME NEW s \in Sessions, UNCHANGED <<recvHold, sOld, sNew>>,
             snaps' = snaps \/ Complete(s),
             NEW p \in ServerPC \ {"held", "place", "release"},
             spc' = [spc EXCEPT ![s] = p]
      PROVE  TargetInv'
  <2>1. \A r \in Remotes : snaps[r] \subseteq snaps'[r]
    <3>1. CASE snaps' = snaps
      BY <3>1
    <3>2. CASE Complete(s)
      <4>1. snaps' = [snaps EXCEPT ![RemoteOf[s]] = @ \cup {stream[s].to}]
        BY <3>2 DEF Complete
      <4> QED BY <4>1
    <3> QED BY <1>2, <3>1, <3>2
  <2>2. ASSUME NEW t \in Sessions, spc'[t] \in {"held", "place", "release"}
        PROVE  spc'[t] = spc[t]
    BY <1>2, <2>2
  <2>3. /\ \A r \in Remotes : recvHold[r] \subseteq snaps'[r]
        /\ \A t \in Sessions :
              /\ spc'[t] = "held" => \A x \in sOld[t] : x <= sNew[t]
              /\ spc'[t] \in {"place", "release"} => \A x \in sOld[t] : x < sNew[t]
              /\ spc'[t] = "release" => \E h \in recvHold[RemoteOf[t]] : sNew[t] <= h
    BY <2>1, <2>2 DEF TargetInv
  <2>4. recvHold' = recvHold /\ sOld' = sOld /\ sNew' = sNew
    BY <1>2
  <2> HIDE DEF TypeInv, TypeOK, Time
  <2> QED BY <2>3, <2>4 DEF TargetInv
<1>3. ASSUME NEW s \in Sessions, ServerStep(s) PROVE TargetInv'
  <2>1. CASE ServerHoldList(s)
    <3> DEFINE r == RemoteOf[s]
    <3>1. PICK n \in snaps[r] : IsNewest(n, snaps[r]) /\ sNew' = [sNew EXCEPT ![s] = n]
      BY <2>1 DEF ServerHoldList
    <3>2. /\ UNCHANGED <<snaps, recvHold>> /\ spc' = [spc EXCEPT ![s] = "held"]
          /\ sOld' = [sOld EXCEPT ![s] = snaps[r]]
      BY <2>1 DEF ServerHoldList
    <3>3. \A x \in sOld'[s] : x <= sNew'[s]
      BY <3>1, <3>2 DEF IsNewest
    <3>4. \A t \in Sessions : t # s => sOld'[t] = sOld[t] /\ sNew'[t] = sNew[t]
      BY <3>1, <3>2
    <3> QED BY <3>2, <3>3, <3>4 DEF TargetInv
  <2>5. CASE ServerFindHeld(s)
    <3>1. /\ UNCHANGED <<snaps, recvHold, sNew>> /\ spc' = [spc EXCEPT ![s] = "place"]
          /\ sOld'[s] \subseteq sOld[s] \ {sNew[s]} /\ spc[s] = "held"
          /\ \A t \in Sessions : t # s => sOld'[t] = sOld[t]
      BY <2>5 DEF ServerFindHeld
    <3>2. \A x \in sOld[s] : x \in Int /\ x <= sNew[s]
      BY <3>1 DEF TargetInv
    <3>3. sNew[s] \in Int
      OBVIOUS
    <3>4. ASSUME NEW x \in sOld'[s] PROVE x < sNew'[s]
      <4>1. x \in Int /\ x <= sNew[s] /\ x # sNew[s] /\ sNew'[s] = sNew[s]
        BY <3>1, <3>2
      <4>2. \A a, b \in Int : a <= b /\ a # b => a < b
        OBVIOUS
      <4> HIDE DEF TypeInv, TypeOK, Time
      <4> QED BY <3>3, <4>1, <4>2
    <3>5. \A t \in Sessions : spc'[t] = IF t = s THEN "place" ELSE spc[t]
      BY <3>1
    <3> HIDE DEF TypeInv, TypeOK, Time
    <3> QED BY <3>1, <3>4, <3>5 DEF TargetInv
  <2>2. CASE ServerPlaceHold(s)
    <3>1. /\ UNCHANGED <<snaps, sOld, sNew>> /\ spc' = [spc EXCEPT ![s] = "release"]
          /\ recvHold' = [recvHold EXCEPT ![RemoteOf[s]] = @ \cup {sNew[s]}]
          /\ spc[s] = "place" /\ sNew[s] \in snaps[RemoteOf[s]]
      BY <2>2 DEF ServerPlaceHold
    <3>2. \A r \in Remotes : recvHold[r] \subseteq recvHold'[r]
      BY <3>1
    <3>3. sNew[s] \in recvHold'[RemoteOf[s]] /\ sNew[s] <= sNew[s]
      BY <3>1
    <3>4. \A r \in Remotes : recvHold'[r] \subseteq snaps'[r]
      BY <3>1 DEF TargetInv
    <3>5. ASSUME NEW t \in Sessions
          PROVE  /\ spc'[t] = "held" => \A x \in sOld'[t] : x <= sNew'[t]
                 /\ spc'[t] \in {"place", "release"} => \A x \in sOld'[t] : x < sNew'[t]
                 /\ spc'[t] = "release" => \E h \in recvHold'[RemoteOf[t]] : sNew'[t] <= h
      BY <3>1, <3>2, <3>3 DEF TargetInv
    <3> QED BY <3>4, <3>5 DEF TargetInv
  <2>3. CASE ServerRelease(s)
    <3>1. /\ UNCHANGED <<snaps, spc, sNew>>
          /\ \A t \in Sessions : sOld'[t] \subseteq sOld[t]
          /\ \A r \in Remotes : recvHold'[r] \subseteq recvHold[r]
      BY <2>3 DEF ServerRelease
    <3>2. ASSUME NEW t \in Sessions, spc[t] = "release"
          PROVE  \E h \in recvHold'[RemoteOf[t]] : sNew[t] <= h
      <4>1. PICK h \in recvHold[RemoteOf[t]] : sNew[t] <= h
        BY <3>2 DEF TargetInv
      <4>2. PICK k \in recvHold'[RemoteOf[t]] : h <= k
        BY <2>3, ReleaseTakesOlder
      <4>3. h \in Int /\ k \in Int /\ sNew[t] \in Int
        BY <3>1
      <4> QED BY <4>1, <4>2, <4>3
    <3> QED BY <3>1, <3>2 DEF TargetInv
  <2>4. CASE /\ ~ServerHoldList(s) /\ ~ServerFindHeld(s)
             /\ ~ServerPlaceHold(s) /\ ~ServerRelease(s)
    BY <1>2, <1>3, <2>4 DEF ServerStep, ServerReadToken, ServerSendHello,
       ServerReady, ServerDeclined, RecvBegin, RecvReject, RecvFinish,
       RecvInterrupted, ServerAnnotate, ServerReadSince, ServerMark, Report, ServerHoldFails,
       ServerSendStatus, ServerLosesLink, ServerPC
  <2> QED BY <2>1, <2>2, <2>3, <2>4, <2>5
<1>4. ASSUME NEW s \in Sessions,
             \/ StartSend(s) \/ EndSession(s) \/ Disconnect(s)
             \/ ClientStops(s) \/ ServerStops(s)
      PROVE  TargetInv'
  <2>1. CASE ServerStops(s)
    BY <1>2, <2>1 DEF ServerStops, ServerPC
  <2>2. CASE StartSend(s)
    BY <1>2, <2>2 DEF StartSend, ServerPC
  <2>3. CASE EndSession(s)
    BY <2>3 DEF EndSession, TargetInv
  <2>4. CASE Disconnect(s) \/ ClientStops(s)
    BY <1>0, <2>4 DEF Disconnect, ClientStops
  <2> QED BY <1>4, <2>1, <2>2, <2>3, <2>4
<1>5. ASSUME NEW d \in Pruned, PruneStep(d) PROVE TargetInv'
  <2>1. CASE PruneDestroy(d)
    <3>1. PICK x \in cand[d] \ Held(d) : snaps' = [snaps EXCEPT ![d] = @ \ {x}]
      BY <2>1 DEF PruneDestroy
    <3>2. UNCHANGED <<spc, recvHold, sOld, sNew>>
      BY <2>1 DEF PruneDestroy
    <3>3. \A r \in Remotes : recvHold[r] \subseteq snaps'[r]
      BY <3>1 DEF TargetInv, Held
    <3> QED BY <3>2, <3>3 DEF TargetInv
  <2>2. CASE ~PruneDestroy(d)
    BY <1>0, <1>5, <2>2 DEF PruneStep, PruneReadToken, PruneReadSince,
       PruneAbort, PruneClear, PruneList, PruneClassify, PruneEnd
  <2> QED BY <2>1, <2>2
<1>6. CASE Tick \/ UNCHANGED vars
  BY <1>0, <1>6 DEF Tick, vars
<1>7. CASE CreateSnapshot
  <2>1. \A r \in Remotes : snaps'[r] = snaps[r]
    BY <1>7 DEF CreateSnapshot
  <2> QED BY <1>7, <2>1 DEF CreateSnapshot, TargetInv
<1> QED
  BY <1>1, <1>3, <1>4, <1>5, <1>6, <1>7 DEF Next

\* The half of NoHoldWindow that is about the targets.
TargetHoldKept ==
  [][\A r \in Remotes : recvHold[r] # {} => recvHold'[r] # {}]_vars

\* However many server sessions run place_server_transfer_hold on a dataset at
\* once, and whatever prune does meanwhile, no step takes the last
\* zrb:received hold of a Remote.
THEOREM TargetStaysHeld == Spec => TargetHoldKept
<1> DEFINE Inv == TypeInv /\ TargetInv
           Kept == \A r \in Remotes : recvHold[r] # {} => recvHold'[r] # {}
<1>1. Init => Inv
  <2> SUFFICES ASSUME Init PROVE Inv
    OBVIOUS
  <2>1. TargetInv
    BY DEF Init, TargetInv
  <2> QED BY <2>1, InitType
<1>2. Inv /\ [Next]_vars => Inv'
  BY NextType, NextTarget
<1>3. Inv /\ [Next]_vars => [Kept]_vars
  <2> SUFFICES ASSUME Inv, Next PROVE Kept
    OBVIOUS
  <2> USE SessionsAssumption
      DEF zfsVars, clientVars, serverVars, pruneVars, ackVars, TypeInv, TypeOK
  <2>1. ASSUME NEW s \in Sessions, ServerRelease(s) PROVE Kept
    BY <2>1, ReleaseTakesOlder
  <2>2. ASSUME NEW s \in Sessions, ServerPlaceHold(s) PROVE Kept
    <3>1. \A r \in Remotes : recvHold[r] \subseteq recvHold'[r]
      BY <2>2 DEF ServerPlaceHold
    <3> QED BY <3>1
  <2>3. CASE recvHold' = recvHold
    BY <2>3
  <2>4. ASSUME NEW s \in Sessions, ServerStep(s) PROVE Kept
    BY <2>1, <2>2, <2>3, <2>4 DEF ServerStep, ServerReadToken,
       ServerSendHello, ServerReady, ServerDeclined, RecvBegin, RecvReject,
       RecvFinish, RecvInterrupted, ServerAnnotate, ServerReadSince, ServerMark,
       ServerHoldList, ServerFindHeld, ServerHoldFails, ServerSendStatus, ServerLosesLink
  <2>5. ASSUME NEW s \in Sessions,
               \/ StartSend(s) \/ ClientStep(s) \/ EndSession(s)
               \/ Disconnect(s) \/ ClientStops(s) \/ ServerStops(s)
        PROVE  Kept
    BY <2>3, <2>5 DEF StartSend, ClientStep, ClientDecide, ClientReadStatus,
       ClientListHeld, ClientFindHeld, ClientPlaceHold, ClientHoldFails, ClientRelease,
       ClientFinish, ClientLosesLink, EndSession, Disconnect, ClientStops,
       ServerStops
  <2>6. ASSUME NEW d \in Pruned, PruneStep(d) PROVE Kept
    BY <2>3, <2>6 DEF PruneStep, PruneReadToken, PruneReadSince, PruneAbort,
       PruneClear, PruneList, PruneClassify, PruneDestroy, PruneEnd
  <2>7. CASE Tick \/ CreateSnapshot
    BY <2>3, <2>7 DEF Tick, CreateSnapshot
  <2> QED BY <2>4, <2>5, <2>6, <2>7 DEF Next
<1> QED
  BY <1>1, <1>2, <1>3, PTL DEF Spec, TargetHoldKept
=============================================================================
