------------------------------- MODULE Backup -------------------------------
(***************************************************************************)
(* One source dataset replicated by `zrb send` to a set of Remotes while   *)
(* `zrb snapshot` and `zrb prune` run beside it on every host.             *)
(*                                                                         *)
(* A Snapshot is its timestamp: naming::new_name embeds the creation       *)
(* second, names are compared by it, and 0 stands for "no snapshot".       *)
(* Source and target Snapshots of one name are copies of one another.      *)
(*                                                                         *)
(* A session is one run of send_to_remote on the client with the           *)
(* `zrb server` it talks to over SSH.  The byte stream between them is     *)
(* abstracted to its outcome (see RecvFinish, RecvInterrupted); every      *)
(* zfs(8) command that reads or changes state is a step of its own, so     *)
(* sessions and prunes interleave between any two commands.                *)
(***************************************************************************)
EXTENDS Integers, FiniteSets

CONSTANTS Source,     \* the source dataset
          Remotes,    \* the target datasets, one per configured Remote
          Sessions,   \* the client/server pairs that may run at a time
          RemoteOf,   \* the Remote each session sends to
          Pruned,     \* the datasets `zrb prune` is run on
          MaxTime,    \* bound on the clock
          Recent,     \* retention.recent, of both hosts
          HoldDays    \* server.resume_hold_days

ASSUME RemotesAssumption == Source \notin Remotes
ASSUME SessionsAssumption == RemoteOf \in [Sessions -> Remotes]
ASSUME PrunedAssumption == Pruned \subseteq Remotes \cup {Source}
ASSUME BoundsAssumption == /\ MaxTime \in Nat \ {0}
                           /\ Recent \in Nat
                           /\ HoldDays \in Nat

Datasets == Remotes \cup {Source}
Time     == 1..MaxTime
NoSnap   == 0
NoStream == [base |-> 0, to |-> 0]
Stream   == [base : 0..MaxTime, to : Time] \cup {NoStream}

VARIABLES
  now,       \* the clock, in the unit of resume_hold_days
  snaps,     \* dataset -> its zrb Snapshots
  srcHold,   \* Remote -> source Snapshots tagged zrb:<remote>
  recvHold,  \* Remote -> target Snapshots tagged zrb:received
  token,     \* Remote -> the stream its receive_resume_token continues
  since,     \* Remote -> zrb:resume-since, 0 when unset
  cpc, spc,  \* session -> control state of client and server
  linked,    \* the sessions whose SSH connection is up
  latest,    \* session -> the Snapshot being sent (ctx.latest)
  local,     \* session -> the source Snapshots listed at the start
  hello,     \* session -> ServerHello: head and resume token
  kind,      \* session -> the TransferDecision
  stream,    \* session -> what the spawned `zfs send` emits
  status,    \* session -> the final ServerStatus on the wire
  cOld, sOld,\* session -> holds still to release, client and server side
  sNew,      \* session -> the Snapshot the server is about to hold
  ppc,       \* dataset -> control state of `zrb prune`
  cand,      \* dataset -> Snapshots prune has still to classify or destroy
  (* history variables: no action reads them *)
  unacked,   \* sessions whose stream the Remote received, no hold yet
  exposed    \* Remotes whose newest Snapshot a session left without a hold

clientVars == <<cpc, latest, local, kind, stream, cOld>>
serverVars == <<spc, hello, status, sOld, sNew>>
zfsVars    == <<snaps, srcHold, recvHold, token, since>>
pruneVars  == <<ppc, cand>>
ackVars    == <<unacked, exposed>>
vars == <<now, zfsVars, clientVars, serverVars, linked, pruneVars, ackVars>>

ClientPC == {"idle", "hello", "stream", "find", "held", "place", "release",
             "done"}
ServerPC == {"idle", "token", "list", "ready", "recv", "receiving",
             "annotate", "since", "mark", "holdlist", "held", "place", "release",
             "status", "done"}
PrunePC  == {"idle", "absent", "present", "abort", "clear", "list", "holds",
             "destroy"}
Sending  == {"full", "incremental", "resume"}

TypeOK ==
  /\ now \in Time
  /\ snaps \in [Datasets -> SUBSET Time]
  /\ srcHold \in [Remotes -> SUBSET Time]
  /\ recvHold \in [Remotes -> SUBSET Time]
  /\ token \in [Remotes -> Stream]
  /\ since \in [Remotes -> 0..MaxTime]
  /\ cpc \in [Sessions -> ClientPC]
  /\ spc \in [Sessions -> ServerPC]
  /\ linked \in SUBSET Sessions
  /\ latest \in [Sessions -> 0..MaxTime]
  /\ local \in [Sessions -> SUBSET Time]
  /\ hello \in [Sessions -> [head : 0..MaxTime, token : Stream]]
  /\ kind \in [Sessions -> Sending \cup {"none", "uptodate", "diverged"}]
  /\ stream \in [Sessions -> Stream]
  /\ status \in [Sessions -> {"none", "ok", "fail"}]
  /\ cOld \in [Sessions -> SUBSET Time]
  /\ sOld \in [Sessions -> SUBSET Time]
  /\ sNew \in [Sessions -> 0..MaxTime]
  /\ ppc \in [Datasets -> PrunePC]
  /\ cand \in [Datasets -> SUBSET Time]
  /\ unacked \in SUBSET Sessions
  /\ exposed \in SUBSET Remotes

Init ==
  /\ now = 1
  /\ snaps = [d \in Datasets |-> {}]
  /\ srcHold = [r \in Remotes |-> {}]
  /\ recvHold = [r \in Remotes |-> {}]
  /\ token = [r \in Remotes |-> NoStream]
  /\ since = [r \in Remotes |-> 0]
  /\ cpc = [s \in Sessions |-> "idle"]
  /\ spc = [s \in Sessions |-> "idle"]
  /\ linked = {}
  /\ latest = [s \in Sessions |-> NoSnap]
  /\ local = [s \in Sessions |-> {}]
  /\ hello = [s \in Sessions |-> [head |-> NoSnap, token |-> NoStream]]
  /\ kind = [s \in Sessions |-> "none"]
  /\ stream = [s \in Sessions |-> NoStream]
  /\ status = [s \in Sessions |-> "none"]
  /\ cOld = [s \in Sessions |-> {}]
  /\ sOld = [s \in Sessions |-> {}]
  /\ sNew = [s \in Sessions |-> NoSnap]
  /\ ppc = [d \in Datasets |-> "idle"]
  /\ cand = [d \in Datasets |-> {}]
  /\ unacked = {}
  /\ exposed = {}

-----------------------------------------------------------------------------
(* Helpers.                                                                *)

\* h is the last of the chronologically sorted list S, or NoSnap when S is
\* empty.  Relational, so that no proof needs the existence of a maximum.
IsNewest(h, S) ==
  \/ S = {} /\ h = NoSnap
  \/ h \in S /\ \A x \in S : x <= h

\* The Snapshots the Retention Policy may delete: never the last Recent ones.
\* Which of the others it deletes depends on calendar buckets (module
\* Retention); here any subset of them may go.
DeletableAndOneMore(S) == \* mutant: keeps Recent - 1
  {x \in S : Cardinality({y \in S : y > x}) + 1 >= Recent}

Deletable(S) == {x \in S : Cardinality({y \in S : y > x}) >= Recent}

\* A `zfs receive` is running on r.
Busy(r) == \E s \in Sessions : RemoteOf[s] = r /\ spc[s] = "receiving"

\* The Snapshots of d that carry a zrb:* hold.
Held(d) == IF d = Source THEN UNION {srcHold[r] : r \in Remotes}
                         ELSE recvHold[d]

-----------------------------------------------------------------------------
(* Environment: the clock, and `zrb snapshot`.                             *)

Tick ==
  /\ now < MaxTime
  /\ now' = now + 1
  /\ UNCHANGED <<zfsVars, clientVars, serverVars, linked, pruneVars, ackVars>>

\* zfs snapshot fails on a name that exists, i.e. twice in one second.
CreateSnapshot ==
  /\ now \notin snaps[Source]
  /\ snaps' = [snaps EXCEPT ![Source] = @ \cup {now}]
  /\ UNCHANGED <<now, srcHold, recvHold, token, since,
                 clientVars, serverVars, linked, pruneVars, ackVars>>

-----------------------------------------------------------------------------
(* A session, from its start to ClientReady.                               *)

\* send_one_dataset lists the source once; send_to_remote connects with what
\* it saw then.
StartSend(s) ==
  /\ cpc[s] = "idle" /\ spc[s] = "idle"
  /\ \E l \in snaps[Source] :
        /\ IsNewest(l, snaps[Source])
        /\ latest' = [latest EXCEPT ![s] = l]
  /\ local' = [local EXCEPT ![s] = snaps[Source]]
  /\ cpc' = [cpc EXCEPT ![s] = "hello"]
  /\ spc' = [spc EXCEPT ![s] = "token"]
  /\ linked' = linked \cup {s}
  /\ UNCHANGED <<now, zfsVars, kind, stream, cOld, hello, status, sOld, sNew,
                 pruneVars, ackVars>>

\* server_handshake, accepted request: first the resume token is read ...
ServerReadToken(s) ==
  /\ spc[s] = "token"
  /\ hello' = [hello EXCEPT ![s].token = token[RemoteOf[s]]]
  /\ spc' = [spc EXCEPT ![s] = "list"]
  /\ UNCHANGED <<now, zfsVars, clientVars, status, sOld, sNew, linked,
                 pruneVars, ackVars>>

\* ... then the Snapshots are listed and ServerHello names the newest.
ServerSendHello(s) ==
  /\ spc[s] = "list"
  /\ \E h \in 0..MaxTime :
        /\ IsNewest(h, snaps[RemoteOf[s]])
        /\ hello' = [hello EXCEPT ![s].head = h]
  /\ spc' = [spc EXCEPT ![s] = "ready"]
  /\ UNCHANGED <<now, zfsVars, clientVars, status, sOld, sNew, linked,
                 pruneVars, ackVars>>

\* The order of the tests is the code's: equality with the head, then the
\* token whatever it is for, then the absence of a head, then the base.
decide_transfer(h, loc, lat) ==
  IF h.head = lat           THEN "uptodate"
  ELSE IF h.token # NoStream THEN "resume"
  ELSE IF h.head = NoSnap    THEN "full"
  ELSE IF h.head \in loc     THEN "incremental"
  ELSE                            "diverged"

\* The stream each decision asks of `zfs send`.
Requested(k, h, lat) ==
  IF k = "resume" THEN h.token
                  ELSE [base |-> h.head, to |-> lat]

\* zfs send emits nothing when a Snapshot it needs is gone; its exit status
\* is not looked at.
Emitted(want) ==
  IF want.to \in snaps[Source] /\ want.base \in snaps[Source] \cup {NoSnap}
  THEN want ELSE NoStream

\* The client reads ServerHello, decides, spawns zfs send and writes
\* ClientReady; up to date and diverged end the client.
ClientDecide(s) ==
  LET k == decide_transfer(hello[s], local[s], latest[s]) IN
  /\ cpc[s] = "hello" /\ spc[s] = "ready"
  /\ kind' = [kind EXCEPT ![s] = k]
  /\ IF k \in Sending
     THEN /\ stream' = [stream EXCEPT
                          ![s] = Emitted(Requested(k, hello[s], latest[s]))]
          /\ cpc' = [cpc EXCEPT ![s] = "stream"]
     ELSE /\ cpc' = [cpc EXCEPT ![s] = "done"]
          /\ UNCHANGED stream
  /\ UNCHANGED <<now, zfsVars, serverVars, linked, latest, local, cOld,
                 pruneVars, ackVars>>

-----------------------------------------------------------------------------
(* The transfer.                                                           *)

\* ClientReady{ok: true}: spawn zfs receive -s.
ServerReady(s) ==
  /\ spc[s] = "ready" /\ kind[s] \in Sending
  /\ spc' = [spc EXCEPT ![s] = "recv"]
  /\ UNCHANGED <<now, zfsVars, clientVars, hello, status, sOld, sNew, linked,
                 pruneVars, ackVars>>

\* ClientReady{ok: false}, or the connection closed before ClientReady.
ServerDeclinedInWords(s) == \* mutant: a lost connection is no refusal
  /\ spc[s] = "ready"
  /\ cpc[s] = "done" /\ kind[s] \in {"uptodate", "diverged"}
  /\ spc' = [spc EXCEPT ![s] = "done"]
  /\ UNCHANGED <<now, zfsVars, clientVars, hello, status, sOld, sNew, linked,
                 pruneVars, ackVars>>

ServerDeclined(s) ==
  /\ spc[s] = "ready"
  /\ \/ cpc[s] = "done" /\ kind[s] \in {"uptodate", "diverged"}
     \/ s \notin linked
  /\ spc' = [spc EXCEPT ![s] = "done"]
  /\ UNCHANGED <<now, zfsVars, clientVars, hello, status, sOld, sNew, linked,
                 pruneVars, ackVars>>

\* zfs receive accepts a stream: a fresh one extends the newest Snapshot and
\* finds no partial state, a resumed one continues exactly the partial state.
Acceptable(s) ==
  LET r == RemoteOf[s] IN
  /\ stream[s] # NoStream
  /\ ~Busy(r)
  /\ IF kind[s] = "resume"
     THEN token[r] = stream[s]
     ELSE token[r] = NoStream /\ IsNewest(stream[s].base, snaps[r])

\* From here on the partial state, and so the token, exists.
RecvBegin(s) ==
  LET r == RemoteOf[s] IN
  /\ spc[s] = "recv" /\ Acceptable(s)
  /\ spc' = [spc EXCEPT ![s] = "receiving"]
  /\ token' = [token EXCEPT ![r] = stream[s]]
  /\ UNCHANGED <<now, snaps, srcHold, recvHold, since, clientVars, hello,
                 status, sOld, sNew, linked, pruneVars, ackVars>>

\* zfs receive fails before it keeps anything: it gets nothing, or what it
\* cannot accept, or has no space.
RecvReject(s) ==
  /\ spc[s] = "recv"
  /\ spc' = [spc EXCEPT ![s] = "annotate"]
  /\ UNCHANGED <<now, zfsVars, clientVars, hello, status, sOld, sNew, linked,
                 pruneVars, ackVars>>

\* The whole stream arrived.  It may do so after the client is gone: a cancel
\* is only looked at after a chunk is written, the last one included.
Complete(s) ==
  LET r == RemoteOf[s] IN
  /\ snaps' = [snaps EXCEPT ![r] = @ \cup {stream[s].to}]
  /\ token' = [token EXCEPT ![r] = NoStream]
  /\ unacked' = unacked \cup {s}

RecvFinish(s) ==
  /\ spc[s] = "receiving"
  /\ Complete(s)
  /\ spc' = [spc EXCEPT ![s] = "holdlist"]
  /\ UNCHANGED <<now, srcHold, recvHold, since, clientVars, hello,
                 status, sOld, sNew, linked, pruneVars, exposed>>

\* The stream ends early (EOF, SIGHUP seen between chunks, a zfs send that
\* died: its exit status is not looked at) or cannot be stored any further:
\* the partial state stays.
RecvInterrupted(s) ==
  /\ spc[s] = "receiving"
  /\ spc' = [spc EXCEPT ![s] = "annotate"]
  /\ UNCHANGED <<now, zfsVars, clientVars, hello, status, sOld, sNew, linked,
                 pruneVars, ackVars>>

\* A status written after the connection is gone is lost.
Report(s, st) ==
  /\ status' = [status EXCEPT ![s] = IF s \in linked THEN st ELSE "none"]
  /\ spc' = [spc EXCEPT ![s] = "done"]

\* The receive failed.  annotate_resume_if_needed: a token without a
\* zrb:resume-since gets one, then ServerStatus{ok: false} (none after SIGHUP).
ServerAnnotate(s) ==
  /\ spc[s] = "annotate"
  /\ IF token[RemoteOf[s]] # NoStream
     THEN spc' = [spc EXCEPT ![s] = "since"] /\ UNCHANGED status
     ELSE Report(s, "fail")
  /\ UNCHANGED <<now, zfsVars, clientVars, hello, sOld, sNew, linked, pruneVars,
                 ackVars>>

ServerReadSince(s) ==
  /\ spc[s] = "since"
  /\ IF since[RemoteOf[s]] = 0
     THEN spc' = [spc EXCEPT ![s] = "mark"] /\ UNCHANGED status
     ELSE Report(s, "fail")
  /\ UNCHANGED <<now, zfsVars, clientVars, hello, sOld, sNew, linked, pruneVars,
                 ackVars>>

\* set_resume_since, whatever became of token and time since they were read.
ServerMarkExpiry(s) == \* mutant: records the end of the wait, not its start
  /\ spc[s] = "mark"
  /\ since' = [since EXCEPT ![RemoteOf[s]] = now + HoldDays]
  /\ Report(s, "fail")
  /\ UNCHANGED <<now, snaps, srcHold, recvHold, token, clientVars,
                 hello, sOld, sNew, linked, pruneVars, ackVars>>

ServerMark(s) ==
  /\ spc[s] = "mark"
  /\ since' = [since EXCEPT ![RemoteOf[s]] = now]
  /\ Report(s, "fail")
  /\ UNCHANGED <<now, snaps, srcHold, recvHold, token, clientVars,
                 hello, sOld, sNew, linked, pruneVars, ackVars>>

-----------------------------------------------------------------------------
(* place_server_transfer_hold, then ServerStatus{ok: true}.                *)

\* List the target; sOld has the list until the holds are read.
ServerHoldList(s) ==
  LET r == RemoteOf[s] IN
  /\ spc[s] = "holdlist"
  /\ \E n \in snaps[r] :
        /\ IsNewest(n, snaps[r])
        /\ sNew' = [sNew EXCEPT ![s] = n]
  /\ sOld' = [sOld EXCEPT ![s] = snaps[r]]
  /\ spc' = [spc EXCEPT ![s] = "held"]
  /\ UNCHANGED <<now, zfsVars, clientVars, hello, status, linked, pruneVars,
                 ackVars>>

\* Find the zrb:received holds on the others of the list.  zfs holds fails when
\* one of them is gone, and a failed search counts as none.
ServerFindHeld(s) ==
  LET r == RemoteOf[s] IN
  /\ spc[s] = "held"
  /\ \/ /\ sOld[s] \subseteq snaps[r]
        /\ sOld' = [sOld EXCEPT ![s] = (@ \cap recvHold[r]) \ {sNew[s]}]
     \/ sOld' = [sOld EXCEPT ![s] = {}]
  /\ spc' = [spc EXCEPT ![s] = "place"]
  /\ UNCHANGED <<now, zfsVars, clientVars, hello, status, sNew, linked, pruneVars,
                 ackVars>>

\* zfs hold fails when the tag is there already.
ServerPlaceHold(s) ==
  LET r == RemoteOf[s] IN
  /\ spc[s] = "place"
  /\ sNew[s] \in snaps[r] \ recvHold[r]
  /\ recvHold' = [recvHold EXCEPT ![r] = @ \cup {sNew[s]}]
  /\ spc' = [spc EXCEPT ![s] = "release"]
  /\ UNCHANGED <<now, snaps, srcHold, token, since, clientVars, hello,
                 status, sOld, sNew, linked, pruneVars, ackVars>>

\* A failed list or hold is a warning: nothing is released.
ServerHoldFails(s) ==
  /\ spc[s] \in {"holdlist", "place"}
  /\ spc' = [spc EXCEPT ![s] = "status"]
  /\ UNCHANGED <<now, zfsVars, clientVars, hello, status, sOld, sNew, linked,
                 pruneVars, ackVars>>

\* Release one of the old holds; a failed release is a warning.
ServerRelease(s) ==
  LET r == RemoteOf[s] IN
  /\ spc[s] = "release"
  /\ \E x \in sOld[s] :
        /\ sOld' = [sOld EXCEPT ![s] = @ \ {x}]
        /\ \E keep \in {{x}, {}} :
              recvHold' = [recvHold EXCEPT ![r] = @ \ ({x} \ keep)]
  /\ UNCHANGED <<now, snaps, srcHold, token, since, clientVars, spc,
                 hello, status, sNew, linked, pruneVars, ackVars>>

ServerSendStatus(s) ==
  /\ \/ spc[s] = "status"
     \/ spc[s] = "release" /\ sOld[s] = {}
  /\ Report(s, "ok")
  /\ UNCHANGED <<now, zfsVars, clientVars, hello, sOld, sNew, linked,
                 pruneVars, ackVars>>

-----------------------------------------------------------------------------
(* The client after the stream: ServerStatus, place_transfer_hold.         *)

AfterAnyStatus(st) == "find" \* mutant: ServerStatus.ok is not looked at

\* Only ServerStatus{ok: true} leads to a hold.
AfterStatus(st) == IF st = "ok" THEN "find" ELSE "done"

ClientReadStatus(s) ==
  /\ cpc[s] = "stream" /\ status[s] # "none"
  /\ cpc' = [cpc EXCEPT ![s] = AfterStatus(status[s])]
  /\ UNCHANGED <<now, zfsVars, latest, local, kind, stream, cOld, serverVars,
                 linked, pruneVars, ackVars>>

\* find_held_snapshots: the list, which cOld has until the holds are read ...
ClientListHeld(s) ==
  /\ cpc[s] = "find"
  /\ cOld' = [cOld EXCEPT ![s] = snaps[Source]]
  /\ cpc' = [cpc EXCEPT ![s] = "held"]
  /\ UNCHANGED <<now, zfsVars, latest, local, kind, stream, serverVars,
                 linked, pruneVars, ackVars>>

\* ... and the holds, as on the server; a failed search counts as none.
ClientFindHeld(s) ==
  /\ cpc[s] = "held"
  /\ \/ /\ cOld[s] \subseteq snaps[Source]
        /\ cOld' = [cOld EXCEPT ![s] = (@ \cap srcHold[RemoteOf[s]]) \ {latest[s]}]
     \/ cOld' = [cOld EXCEPT ![s] = {}]
  /\ cpc' = [cpc EXCEPT ![s] = "place"]
  /\ UNCHANGED <<now, zfsVars, latest, local, kind, stream, serverVars,
                 linked, pruneVars, ackVars>>

\* History: the hold is on the Snapshot the Remote received.
Acknowledge(s, held) ==
  IF held /\ stream[s].to = latest[s]
  THEN /\ unacked' = unacked \ {s}
       /\ exposed' = exposed \ {RemoteOf[s]}
  ELSE UNCHANGED ackVars

\* The hold goes on ctx.latest, whichever Snapshot the stream carried.
ClientPlaceHold(s) ==
  LET r == RemoteOf[s] IN
  /\ cpc[s] = "place"
  /\ latest[s] \in snaps[Source] \ srcHold[r]
  /\ srcHold' = [srcHold EXCEPT ![r] = @ \cup {latest[s]}]
  /\ cpc' = [cpc EXCEPT ![s] = "release"]
  /\ Acknowledge(s, TRUE)
  /\ UNCHANGED <<now, snaps, recvHold, token, since, latest, local,
                 kind, stream, cOld, serverVars, linked, pruneVars>>

ClientHoldFailsOn(s) == \* mutant: releases the old holds all the same
  /\ cpc[s] = "place"
  /\ cpc' = [cpc EXCEPT ![s] = "release"]
  /\ Acknowledge(s, latest[s] \in srcHold[RemoteOf[s]])
  /\ UNCHANGED <<now, zfsVars, latest, local, kind, stream, cOld, serverVars,
                 linked, pruneVars>>

\* The Snapshot is gone, carries the tag already, or zfs hold failed.
ClientHoldFails(s) ==
  /\ cpc[s] = "place"
  /\ cpc' = [cpc EXCEPT ![s] = "done"]
  /\ Acknowledge(s, latest[s] \in srcHold[RemoteOf[s]])
  /\ UNCHANGED <<now, zfsVars, latest, local, kind, stream, cOld, serverVars,
                 linked, pruneVars>>

ClientRelease(s) ==
  LET r == RemoteOf[s] IN
  /\ cpc[s] = "release"
  /\ \E x \in cOld[s] :
        /\ cOld' = [cOld EXCEPT ![s] = @ \ {x}]
        /\ \E keep \in {{x}, {}} :
              srcHold' = [srcHold EXCEPT ![r] = @ \ ({x} \ keep)]
  /\ UNCHANGED <<now, snaps, recvHold, token, since, cpc, latest, local,
                 kind, stream, serverVars, linked, pruneVars, ackVars>>

ClientFinish(s) ==
  /\ cpc[s] = "release" /\ cOld[s] = {}
  /\ cpc' = [cpc EXCEPT ![s] = "done"]
  /\ UNCHANGED <<now, zfsVars, latest, local, kind, stream, cOld, serverVars,
                 linked, pruneVars, ackVars>>

-----------------------------------------------------------------------------
(* Failures and the end of a session.                                      *)

Disconnect(s) ==
  /\ s \in linked
  /\ linked' = linked \ {s}
  /\ UNCHANGED <<now, zfsVars, clientVars, serverVars, pruneVars, ackVars>>

\* The client's pending read or write fails.
ClientLosesLink(s) ==
  /\ s \notin linked /\ cpc[s] \in {"hello", "stream"}
  /\ cpc' = [cpc EXCEPT ![s] = "done"]
  /\ UNCHANGED <<now, zfsVars, latest, local, kind, stream, cOld, serverVars,
                 linked, pruneVars, ackVars>>

\* The user cancels the Remote, zfs send cannot be spawned, or the client
\* process is killed.
ClientStops(s) ==
  /\ cpc[s] \in ClientPC \ {"idle", "done"}
  /\ cpc' = [cpc EXCEPT ![s] = "done"]
  /\ linked' = linked \ {s}
  /\ UNCHANGED <<now, zfsVars, latest, local, kind, stream, cOld, serverVars,
                 pruneVars, ackVars>>

\* The handshake finds the connection closed.
ServerLosesLink(s) ==
  /\ s \notin linked /\ spc[s] \in {"token", "list"}
  /\ spc' = [spc EXCEPT ![s] = "done"]
  /\ UNCHANGED <<now, zfsVars, clientVars, hello, status, sOld, sNew, linked,
                 pruneVars, ackVars>>

\* The server exits on an error or is killed.  A zfs receive it leaves behind
\* ends with its input, complete or not.
ServerStops(s) ==
  /\ spc[s] \in ServerPC \ {"idle", "done"}
  /\ spc' = [spc EXCEPT ![s] = "done"]
  /\ linked' = linked \ {s}
  /\ \/ UNCHANGED <<snaps, token, unacked>>
     \/ spc[s] = "receiving" /\ Complete(s)
  /\ UNCHANGED <<now, srcHold, recvHold, since, clientVars, hello,
                 status, sOld, sNew, pruneVars, exposed>>

EndSession(s) ==
  /\ cpc[s] = "done" /\ spc[s] = "done"
  /\ cpc' = [cpc EXCEPT ![s] = "idle"]
  /\ spc' = [spc EXCEPT ![s] = "idle"]
  /\ linked' = linked \ {s}
  /\ latest' = [latest EXCEPT ![s] = NoSnap]
  /\ local' = [local EXCEPT ![s] = {}]
  /\ hello' = [hello EXCEPT ![s] = [head |-> NoSnap, token |-> NoStream]]
  /\ kind' = [kind EXCEPT ![s] = "none"]
  /\ stream' = [stream EXCEPT ![s] = NoStream]
  /\ status' = [status EXCEPT ![s] = "none"]
  /\ cOld' = [cOld EXCEPT ![s] = {}]
  /\ sOld' = [sOld EXCEPT ![s] = {}]
  /\ sNew' = [sNew EXCEPT ![s] = NoSnap]
  /\ unacked' = unacked \ {s}
  /\ exposed' = exposed \cup {r \in {RemoteOf[s]} : s \in unacked}
  /\ UNCHANGED <<now, zfsVars, pruneVars>>

-----------------------------------------------------------------------------
(* zrb prune on dataset d.  Source datasets have no token.                 *)

HasToken(d) == d \in Remotes /\ token[d] # NoStream
SinceOf(d)  == IF d \in Remotes THEN since[d] ELSE 0

\* What to do about a token: without resume_hold_days it counts as 0.
resume_decision(has_token, snc) ==
  IF ~has_token                                THEN "Idle"
  ELSE IF snc # 0 /\ now - snc >= HoldDays    THEN "Expire"
  ELSE                                              "Wait"

\* First the token is read ...
PruneReadToken(d) ==
  /\ ppc[d] = "idle"
  /\ ppc' = [ppc EXCEPT ![d] = IF HasToken(d) THEN "present" ELSE "absent"]
  /\ UNCHANGED <<now, zfsVars, clientVars, serverVars, linked, cand, ackVars>>

\* ... then zrb:resume-since and the clock; --abort-resume turns Wait into
\* Expire.
PruneReadSince(d) ==
  LET decision == resume_decision(ppc[d] = "present", SinceOf(d)) IN
  /\ ppc[d] \in {"present", "absent"}
  /\ \E abort_resume \in BOOLEAN :
        ppc' = [ppc EXCEPT ![d] =
          CASE decision = "Idle" -> IF SinceOf(d) # 0 THEN "clear" ELSE "list"
            [] decision = "Expire" -> "abort"
            [] decision = "Wait" -> IF abort_resume THEN "abort" ELSE "idle"]
  /\ UNCHANGED <<now, zfsVars, clientVars, serverVars, linked, cand, ackVars>>

\* zfs receive -A: fails, and prune with it, when the receive is running or
\* the partial state is gone.
PruneAbort(d) ==
  /\ ppc[d] = "abort"
  /\ IF HasToken(d) /\ ~Busy(d)
     THEN /\ token' = [token EXCEPT ![d] = NoStream]
          /\ ppc' = [ppc EXCEPT ![d] = "clear"]
     ELSE /\ ppc' = [ppc EXCEPT ![d] = "idle"]
          /\ UNCHANGED token
  /\ UNCHANGED <<now, snaps, srcHold, recvHold, since, clientVars,
                 serverVars, linked, cand, ackVars>>

\* clear_resume_since.
PruneClear(d) ==
  /\ ppc[d] = "clear"
  /\ since' = [since EXCEPT ![d] = 0]
  /\ ppc' = [ppc EXCEPT ![d] = "list"]
  /\ UNCHANGED <<now, snaps, srcHold, recvHold, token, clientVars,
                 serverVars, linked, cand, ackVars>>

\* List and apply the Retention Policy.
PruneList(d) ==
  /\ ppc[d] = "list"
  /\ \E C \in SUBSET Deletable(snaps[d]) : cand' = [cand EXCEPT ![d] = C]
  /\ ppc' = [ppc EXCEPT ![d] = "holds"]
  /\ UNCHANGED <<now, zfsVars, clientVars, serverVars, linked, ackVars>>

\* batch_snapshot_holds and classify_candidates: held candidates are skipped.
PruneClassify(d) ==
  /\ ppc[d] = "holds"
  /\ cand' = [cand EXCEPT ![d] = @ \ Held(d)]
  /\ ppc' = [ppc EXCEPT ![d] = "destroy"]
  /\ UNCHANGED <<now, zfsVars, clientVars, serverVars, linked, ackVars>>

\* One zfs destroy, oldest Snapshot first.  ZFS refuses a held Snapshot.
PruneDestroy(d) ==
  /\ ppc[d] = "destroy"
  /\ \E x \in cand[d] \ Held(d) :
        /\ \A y \in cand[d] : x <= y
        /\ snaps' = [snaps EXCEPT ![d] = @ \ {x}]
        /\ cand' = [cand EXCEPT ![d] = @ \ {x}]
  /\ UNCHANGED <<now, srcHold, recvHold, token, since, clientVars,
                 serverVars, linked, ppc, ackVars>>

\* Prune is through, fails on a zfs command (a destroy ZFS refuses, say), or
\* is killed.
PruneEnd(d) ==
  /\ ppc[d] # "idle"
  /\ ppc' = [ppc EXCEPT ![d] = "idle"]
  /\ cand' = [cand EXCEPT ![d] = {}]
  /\ UNCHANGED <<now, zfsVars, clientVars, serverVars, linked, ackVars>>

-----------------------------------------------------------------------------
ClientStep(s) ==
  \/ ClientDecide(s) \/ ClientReadStatus(s) \/ ClientListHeld(s)
  \/ ClientFindHeld(s) \/ ClientPlaceHold(s) \/ ClientHoldFails(s) \/ ClientRelease(s)
  \/ ClientFinish(s) \/ ClientLosesLink(s)

ServerStep(s) ==
  \/ ServerReadToken(s) \/ ServerSendHello(s) \/ ServerReady(s)
  \/ ServerDeclined(s) \/ RecvBegin(s) \/ RecvReject(s) \/ RecvFinish(s)
  \/ RecvInterrupted(s) \/ ServerAnnotate(s) \/ ServerReadSince(s)
  \/ ServerMark(s) \/ ServerHoldList(s) \/ ServerFindHeld(s)
  \/ ServerPlaceHold(s) \/ ServerHoldFails(s) \/ ServerRelease(s)
  \/ ServerSendStatus(s) \/ ServerLosesLink(s)

PruneStep(d) ==
  \/ PruneReadToken(d) \/ PruneReadSince(d) \/ PruneAbort(d) \/ PruneClear(d)
  \/ PruneList(d) \/ PruneClassify(d) \/ PruneDestroy(d) \/ PruneEnd(d)

Next ==
  \/ Tick
  \/ CreateSnapshot
  \/ \E s \in Sessions :
        \/ StartSend(s) \/ ClientStep(s) \/ ServerStep(s) \/ EndSession(s)
        \/ Disconnect(s) \/ ClientStops(s) \/ ServerStops(s)
  \/ \E d \in Pruned : PruneStep(d)

Spec == Init /\ [][Next]_vars

-----------------------------------------------------------------------------
(* Properties.                                                             *)

\* A partial receive always continues from the newest Snapshot of its target
\* to a newer one, whatever prune deleted and whichever session left it: the
\* base that `zfs send -t` needs is never pruned (ops/prune.rs skips a
\* dataset in transfer for that reason, but reads the token only once).
TokenExtendsHead ==
  \A r \in Remotes : token[r] # NoStream =>
     IsNewest(token[r].base, snaps[r]) /\ token[r].base < token[r].to

\* Prune never has the newest Snapshot of a dataset on its list, even when
\* the list was made before the Snapshot that is newest now arrived.
PruneSparesNewest ==
  \A d \in Datasets : \A x \in cand[d] : \E y \in snaps[d] : x < y

\* After a full or incremental send the hold place_transfer_hold has put on
\* ctx.latest is on a Snapshot the Remote has.
FreshSendHoldsReceived ==
  \A s \in Sessions :
     cpc[s] = "release" /\ kind[s] # "resume" => latest[s] \in snaps[RemoteOf[s]]

\* No step takes the last Transfer Hold of a Remote, on either side.
HoldsKept ==
  \A r \in Remotes : /\ srcHold[r] # {} => srcHold'[r] # {}
                     /\ recvHold[r] # {} => recvHold'[r] # {}

\* Once a Remote has a Transfer Hold, on either side, it is never without
\* one: the new hold is placed before the old ones are released.
NoHoldWindow == [][HoldsKept]_vars

\* The source keeps a hold on the newest Snapshot of every Remote, except
\* while a session is between receipt and hold, and after one that ended
\* without placing it (lost status, stale resume, failed hold).
BaseProtected ==
  \A r \in Remotes : \A h \in snaps[r] :
     (/\ IsNewest(h, snaps[r])
      /\ r \notin exposed
      /\ \A s \in unacked : RemoteOf[s] # r)
     => h \in srcHold[r] \cap snaps[Source]

\* decide_transfer reports divergence only after such a session.
DivergedOnlyIfExposed ==
  \A s \in Sessions : kind[s] = "diverged" => RemoteOf[s] \in exposed

\* Sessions are run by processes that keep going, one side or the other; the
\* network, the users and cron owe nothing.  A lost connection is noticed by
\* both ends.
SessionStep(s) == ClientStep(s) \/ ServerStep(s) \/ EndSession(s)

SessionFairness == \A s \in Sessions : WF_vars(SessionStep(s))

FairSpec == Spec /\ SessionFairness

\* Client and server never wait for one another forever: every session ends,
\* wherever either side declined, failed, was killed or was cut off.
SessionsEnd == \A s \in Sessions : cpc[s] # "idle" ~> cpc[s] = "idle"

-----------------------------------------------------------------------------
(* What the documentation says and the code does not do.                   *)

\* CONTEXT.md: the source-side hold is "placed on the source snapshot
\* immediately after it is confirmed received by the Remote".
HoldsOnlyReceived ==
  \A s \in Sessions : cpc[s] = "release" => latest[s] \in snaps[RemoteOf[s]]

\* CONTEXT.md: the Transfer Hold is there "to prevent Prune from deleting the
\* most recently transferred snapshot" on the source.  Asked only while no
\* session to that Remote is running.
PruneKeepsTransferred ==
  [][\A r \in Remotes : \A h \in snaps[r] \cap snaps[Source] :
        (/\ IsNewest(h, snaps[r])
         /\ \A s \in Sessions : RemoteOf[s] = r => cpc[s] = "idle")
        => h \in snaps'[Source]]_vars
=============================================================================
