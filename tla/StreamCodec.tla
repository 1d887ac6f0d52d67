----------------------------- MODULE StreamCodec -----------------------------
(***************************************************************************)
(* One transfer between a client in send_on and a server in run_server_on: *)
(* write_stream cuts what zfs send emits into chunks, each followed by a   *)
(* Control Frame; read_stream_with_cancel puts them together again for zfs *)
(* receive.  Between them is a pipe of bounded size that may break.        *)
(*                                                                         *)
(* A byte of the stream is its position in it; 0 is padding.  The five     *)
(* bytes of a Control Frame are one cell of the pipe.                      *)
(***************************************************************************)
EXTENDS Naturals, Sequences

CONSTANTS MaxBytes,   \* bound on the length of a stream
          ChunkSize,  \* CHUNK_SIZE
          PipeSize    \* cells the connection buffers

ASSUME SizesAssumption == MaxBytes \in Nat /\ ChunkSize \in Nat \ {0}
                          /\ PipeSize \in Nat \ {0}

VARIABLES
  emitted, whole,  \* what zfs send writes until it ends; a whole stream?
  rd,              \* how many bytes of it have been read
  cur, nxt,        \* the two chunk buffers of write_stream
  curActual, nxtActual,
  cpc, wpos,       \* control state of the client; cells of cur written
  bytesSent,
  cancel,          \* the user's CancellationToken
  wire,            \* cells on the way to the server
  up,              \* the SSH connection
  spc,             \* control state of the server
  chunk, frame,    \* its buffers
  hup,             \* SIGHUP was received
  alive,           \* zfs receive takes input
  received,        \* what it was given
  ended,           \* how read_stream_with_cancel returned
  reply,           \* the ServerStatus on its way to the client
  outcome, answer  \* of zfs receive, and of send_on

clientVars == <<rd, cur, nxt, curActual, nxtActual, cpc, wpos, bytesSent, answer>>
serverVars == <<spc, chunk, frame, received, ended, reply, outcome>>
vars == <<emitted, whole, clientVars, cancel, wire, up, serverVars, hup, alive>>

Zeros == [i \in 1..ChunkSize |-> 0]
NoFrame == [size |-> 0, more |-> FALSE]

Init ==
  /\ emitted \in {[i \in 1..n |-> i] : n \in 0..MaxBytes}
  /\ whole \in BOOLEAN
  /\ whole => emitted # <<>>
  /\ rd = 0
  /\ cur = Zeros /\ nxt = Zeros
  /\ curActual = 0 /\ nxtActual = 0
  /\ cpc = "fill" /\ wpos = 0
  /\ bytesSent = 0
  /\ cancel = FALSE
  /\ wire = <<>>
  /\ up = TRUE
  /\ spc = "chunk"
  /\ chunk = <<>> /\ frame = NoFrame
  /\ hup = FALSE
  /\ alive = TRUE
  /\ received = <<>>
  /\ ended = "no"
  /\ reply = "none"
  /\ outcome = "open" /\ answer = "none"

-----------------------------------------------------------------------------
(* The client: write_stream, then ServerStatus.                            *)

\* read_exact_or_eof: a full buffer, or what was left; the rest of the buffer
\* keeps what it had.
Available == IF Len(emitted) - rd < ChunkSize THEN Len(emitted) - rd ELSE ChunkSize
Load(buf) == [i \in 1..ChunkSize |->
                IF i <= Available THEN emitted[rd + i] ELSE buf[i]]
ZeroTail(buf, n) == [i \in 1..ChunkSize |-> IF i <= n THEN buf[i] ELSE 0]

ClientFill ==
  /\ cpc = "fill"
  /\ cur' = ZeroTail(Load(cur), Available)
  /\ curActual' = Available
  /\ rd' = rd + Available
  /\ cpc' = "peek"
  /\ UNCHANGED <<emitted, whole, nxt, nxtActual, wpos, bytesSent, answer, cancel,
                 wire, up, serverVars, hup, alive>>

\* The next chunk is read before this one is written, to know has_more.
ClientPeek ==
  /\ cpc = "peek"
  /\ nxt' = Load(nxt)
  /\ nxtActual' = Available
  /\ rd' = rd + Available
  /\ cpc' = "chunk" /\ wpos' = 0
  /\ UNCHANGED <<emitted, whole, cur, curActual, bytesSent, answer, cancel, wire,
                 up, serverVars, hup, alive>>

\* The far end of the pipe is gone.
Broken == ~up \/ spc = "ended"

ClientWriteChunk ==
  /\ cpc = "chunk" /\ ~Broken /\ Len(wire) < PipeSize
  /\ wire' = Append(wire, [byte |-> cur[wpos + 1]])
  /\ wpos' = wpos + 1
  /\ cpc' = IF wpos + 1 = ChunkSize THEN "frame" ELSE "chunk"
  /\ UNCHANGED <<emitted, whole, rd, cur, nxt, curActual, nxtActual, bytesSent,
                 answer, cancel, up, serverVars, hup, alive>>

make_frame_padded(n, more) == [size |-> ChunkSize, more |-> more] \* mutant: the padding counts

make_frame(n, more) == [size |-> n, more |-> more]

ClientWriteFrame ==
  /\ cpc = "frame" /\ ~Broken /\ Len(wire) < PipeSize
  /\ wire' = Append(wire, make_frame(curActual, nxtActual > 0))
  /\ bytesSent' = bytesSent + curActual
  /\ cpc' = "check"
  /\ UNCHANGED <<emitted, whole, rd, cur, nxt, curActual, nxtActual, wpos, answer,
                 cancel, up, serverVars, hup, alive>>

SwapUncleared(buf, n) == buf \* mutant: the buffer's old bytes stay

\* The tail of the buffer that comes next is cleared before it is used.
Cleared(buf, n) == ZeroTail(buf, n)

\* After every chunk, the last one included, the cancel is looked at first.
ClientCheck ==
  /\ cpc = "check"
  /\ \/ /\ cancel
        /\ cpc' = "ended" /\ answer' = "cancelled"
        /\ UNCHANGED <<cur, nxt, curActual>>
     \/ /\ ~cancel /\ nxtActual = 0
        /\ cpc' = "status"
        /\ UNCHANGED <<cur, nxt, curActual, answer>>
     \/ /\ ~cancel /\ nxtActual > 0
        /\ cur' = Cleared(nxt, nxtActual) /\ nxt' = cur
        /\ curActual' = nxtActual
        /\ cpc' = "peek"
        /\ UNCHANGED answer
  /\ UNCHANGED <<emitted, whole, rd, nxtActual, wpos, bytesSent, cancel, wire, up,
                 serverVars, hup, alive>>

\* A failed write: the pending ServerStatus, if any, only words the error.
ClientWriteFails ==
  /\ cpc \in {"chunk", "frame"} /\ Broken
  /\ cpc' = "ended" /\ answer' = "failed"
  /\ UNCHANGED <<emitted, whole, rd, cur, nxt, curActual, nxtActual, wpos,
                 bytesSent, cancel, wire, up, serverVars, hup, alive>>

AnyReplyIsOk(r) == "ok" \* mutant: ServerStatus.ok is not looked at
AnswerTo(r) == IF r = "ok" THEN "ok" ELSE "failed"

NoReply == ~up \/ (spc = "ended" /\ reply = "none")

\* ServerStatus arrives, or the connection ends without it.
ClientReadStatus ==
  /\ cpc = "status"
  /\ \/ reply # "none" /\ answer' = AnswerTo(reply)
     \/ NoReply /\ answer' = "failed"
  /\ cpc' = "ended"
  /\ UNCHANGED <<emitted, whole, rd, cur, nxt, curActual, nxtActual, wpos,
                 bytesSent, cancel, wire, up, serverVars, hup, alive>>

ClientStep == \/ ClientFill \/ ClientPeek \/ ClientWriteChunk \/ ClientWriteFrame
              \/ ClientCheck \/ ClientWriteFails \/ ClientReadStatus

-----------------------------------------------------------------------------
(* The server: read_stream_with_cancel, then finish and ServerStatus.      *)

ServerReadChunk ==
  /\ spc = "chunk" /\ wire # <<>>
  /\ chunk' = Append(chunk, Head(wire).byte)
  /\ wire' = Tail(wire)
  /\ spc' = IF Len(chunk') = ChunkSize THEN "frame" ELSE "chunk"
  /\ UNCHANGED <<emitted, whole, clientVars, cancel, up, frame, received, ended,
                 reply, outcome, hup, alive>>

ServerReadFrame ==
  /\ spc = "frame" /\ wire # <<>>
  /\ frame' = Head(wire)
  /\ wire' = Tail(wire)
  /\ spc' = "store"
  /\ UNCHANGED <<emitted, whole, clientVars, cancel, up, chunk, received, ended,
                 reply, outcome, hup, alive>>

ServerEofRetries == \* mutant: an empty read is tried again
  /\ spc \in {"chunk", "frame"} /\ wire = <<>> /\ (~up \/ cpc = "ended")
  /\ UNCHANGED vars

\* The client has gone and nothing is left to read.
ServerEof ==
  /\ spc \in {"chunk", "frame"} /\ wire = <<>> /\ (~up \/ cpc = "ended")
  /\ spc' = "finish" /\ ended' = "error"
  /\ UNCHANGED <<emitted, whole, clientVars, cancel, wire, up, chunk, frame,
                 received, reply, outcome, hup, alive>>

AfterHupFirst(more) == \* mutant: SIGHUP is looked at before has_more
  IF hup THEN "cancelled" ELSE IF ~more THEN "complete" ELSE "no"

\* A stream that is complete is complete, SIGHUP or not.
AfterChunk(more) ==
  IF ~more THEN "complete" ELSE IF hup THEN "cancelled" ELSE "no"

\* write_all to zfs receive, which fails when that has exited.
ServerStore ==
  /\ spc = "store"
  /\ IF alive
     THEN /\ received' = received \o SubSeq(chunk, 1, frame.size)
          /\ ended' = AfterChunk(frame.more)
     ELSE /\ ended' = "error"
          /\ UNCHANGED received
  /\ spc' = IF ended' = "no" THEN "chunk" ELSE "finish"
  /\ chunk' = <<>>
  /\ UNCHANGED <<emitted, whole, clientVars, cancel, wire, up, frame, reply,
                 outcome, hup, alive>>

\* zfs receive sees its end of file and exits.  Only a complete stream is
\* answered by its exit status; after SIGHUP nothing is answered.
ServerFinish ==
  LET ok == alive /\ whole /\ received = emitted IN
  /\ spc = "finish"
  /\ outcome' = IF ok THEN "applied" ELSE "failed"
  /\ reply' = IF ~up \/ ended = "cancelled" THEN "none"
              ELSE IF ended = "complete" /\ ok THEN "ok" ELSE "fail"
  /\ spc' = "ended"
  /\ UNCHANGED <<emitted, whole, clientVars, cancel, wire, up, chunk, frame,
                 received, ended, hup, alive>>

ServerStep == ServerReadChunk \/ ServerReadFrame \/ ServerEof \/ ServerStore
              \/ ServerFinish

-----------------------------------------------------------------------------
(* The environment.                                                        *)

Cancel ==
  /\ ~cancel /\ cpc # "ended"
  /\ cancel' = TRUE
  /\ UNCHANGED <<emitted, whole, clientVars, wire, up, serverVars, hup, alive>>

\* The connection breaks; some of what was on the way is lost.
Disconnect ==
  /\ up
  /\ up' = FALSE
  /\ \E n \in 0..Len(wire) : wire' = SubSeq(wire, 1, n)
  /\ UNCHANGED <<emitted, whole, clientVars, cancel, serverVars, hup, alive>>

\* sshd tells the server's session that the connection is gone.
Hangup ==
  /\ ~hup /\ (~up \/ cpc = "ended") /\ spc # "ended"
  /\ hup' = TRUE
  /\ UNCHANGED <<emitted, whole, clientVars, cancel, wire, up, serverVars, alive>>

\* zfs receive rejects the stream or runs out of space.
ReceiveDies ==
  /\ alive /\ spc # "ended"
  /\ alive' = FALSE
  /\ UNCHANGED <<emitted, whole, clientVars, cancel, wire, up, serverVars, hup>>

\* Both sides are through.
Terminated ==
  /\ cpc = "ended" /\ spc = "ended"
  /\ UNCHANGED vars

Next == ClientStep \/ ServerStep \/ Cancel \/ Disconnect \/ Hangup \/ ReceiveDies
        \/ Terminated

Spec == Init /\ [][Next]_vars

\* Both processes run; nobody has to cancel and nothing has to break.
FairSpec == Spec /\ WF_vars(ClientStep) /\ WF_vars(ServerStep)

-----------------------------------------------------------------------------
(* Properties.                                                             *)

\* The chunked stream implements the transfer Backup relies on.
Promise == INSTANCE Transfer WITH delivered <- received
ImplementsTransfer == Promise!TSpec

\* codec.rs: "Each chunk is zero-padded to exactly 4 MiB": no byte of an
\* earlier chunk is left behind the last byte of a buffer about to be written.
PaddingIsZero ==
  cpc \in {"chunk", "frame"} =>
     \A i \in 1..ChunkSize : IF i <= curActual THEN cur[i] = rd - nxtActual - curActual + i
                                               ELSE cur[i] = 0

\* The bytes a successful Send reports are the bytes of the Snapshot.
ReportsAllBytes ==
  answer = "ok" => bytesSent = Len(emitted) /\ received = emitted

\* A stream that zfs receive applied is one the server treats as complete, so
\* that it places its hold and annotates nothing, and the status it sends is
\* the truth: the client would place no hold, or one too many.
ServerTellsTruth ==
  spc = "ended" => /\ outcome = "applied" => ended = "complete"
                   /\ reply # "none" => (reply = "ok" <=> outcome = "applied")

\* Whatever is cancelled, lost or refused, and however small the pipe is, the
\* two sides never wait for one another forever.
TransferEnds == <>(cpc = "ended" /\ spc = "ended")
=============================================================================
