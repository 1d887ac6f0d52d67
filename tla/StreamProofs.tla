---------------------------- MODULE StreamProofs ----------------------------
(* What zfs receive is given is what zfs send wrote, for any stream, chunk   *)
(* and pipe size: the invariants of StreamCodec, and that it implements      *)
(* Transfer.                                                                 *)
EXTENDS StreamCodec, SequenceTheorems, TLAPS

-----------------------------------------------------------------------------
(* The cells of a stream of n bytes.  A cell's place is the offset of its    *)
(* chunk, and how many cells of the chunk come before it; the Control Frame  *)
(* comes after ChunkSize others.                                             *)

Size(n, b)    == IF n - b < ChunkSize THEN n - b ELSE ChunkSize
ByteAt(n, b, i) == IF b + i <= n THEN b + i ELSE 0
FrameAt(n, b) == [size |-> Size(n, b), more |-> b + Size(n, b) < n]

CellAt(n, b, p)   == IF p < ChunkSize THEN [byte |-> ByteAt(n, b, p + 1)] ELSE FrameAt(n, b)
NextBase(n, b, p) == IF p < ChunkSize THEN b ELSE b + Size(n, b)
NextPos(p)        == IF p < ChunkSize THEN p + 1 ELSE 0

Cells == [byte : Nat] \cup [size : Nat, more : BOOLEAN]

\* The cells of w come one after another from the place base[1], pos[1] on;
\* the place after the last of them is the last of base and pos.
Placed(n, w, base, pos) ==
  /\ base \in [1..(Len(w) + 1) -> 0..n]
  /\ pos \in [1..(Len(w) + 1) -> 0..ChunkSize]
  /\ \A i \in 1..Len(w) : /\ w[i] = CellAt(n, base[i], pos[i])
                          /\ base[i + 1] = NextBase(n, base[i], pos[i])
                          /\ pos[i + 1] = NextPos(pos[i])

\* A chunk has as many bytes as there are left, and one that is not full is the
\* last.
LEMMA SizeFacts ==
  ASSUME NEW n \in Nat, NEW b \in 0..n
  PROVE  /\ Size(n, b) \in 0..ChunkSize
         /\ b + Size(n, b) \in 0..n
         /\ Size(n, b) = 0 => b = n
         /\ \A i \in 1..ChunkSize : i <= Size(n, b) <=> b + i <= n
         /\ FrameAt(n, b) \in Cells
         /\ FrameAt(n, b).size = Size(n, b)
  BY SizesAssumption DEF Size, FrameAt, Cells

LEMMA MoreFacts ==
  ASSUME NEW n, NEW b, NEW f, f = FrameAt(n, b)
  PROVE  f.more <=> b + Size(n, b) < n
  BY Zenon DEF FrameAt

LEMMA PlaceFacts ==
  ASSUME NEW n \in Nat, NEW b \in 0..n, NEW p \in 0..ChunkSize
  PROVE  /\ CellAt(n, b, p) \in Cells
         /\ NextBase(n, b, p) \in 0..n
         /\ NextPos(p) \in 0..ChunkSize
<1>1. FrameAt(n, b) \in Cells /\ b + Size(n, b) \in 0..n
  BY SizeFacts
<1>2. [byte |-> ByteAt(n, b, p + 1)] \in Cells
  BY DEF ByteAt, Cells
<1>3. QED
  BY <1>1, <1>2, SizesAssumption DEF CellAt, NextBase, NextPos

\* A client that writes the cell of its place moves on to the next.
LEMMA PlacedAppend ==
  ASSUME NEW n \in Nat, NEW w \in Seq(Cells), NEW base, NEW pos,
         Placed(n, w, base, pos),
         NEW cell, cell = CellAt(n, base[Len(w) + 1], pos[Len(w) + 1])
  PROVE  \E b, p : /\ Placed(n, Append(w, cell), b, p)
                   /\ b[1] = base[1] /\ p[1] = pos[1]
                   /\ b[Len(w) + 2] = NextBase(n, base[Len(w) + 1], pos[Len(w) + 1])
                   /\ p[Len(w) + 2] = NextPos(pos[Len(w) + 1])
<1> DEFINE m == Len(w)
           w2 == Append(w, cell)
           b == [i \in 1..(m + 2) |-> IF i <= m + 1 THEN base[i]
                                      ELSE NextBase(n, base[m + 1], pos[m + 1])]
           p == [i \in 1..(m + 2) |-> IF i <= m + 1 THEN pos[i] ELSE NextPos(pos[m + 1])]
<1>1. m \in Nat /\ base[m + 1] \in 0..n /\ pos[m + 1] \in 0..ChunkSize
  BY LenProperties DEF Placed
<1>2. cell \in Cells
  BY <1>1, PlaceFacts
<1>3. /\ Len(w2) = m + 1
      /\ \A i \in 1..m : w2[i] = w[i]
      /\ w2[m + 1] = cell
  BY <1>2, AppendProperties
<1>4. b \in [1..(Len(w2) + 1) -> 0..n] /\ p \in [1..(Len(w2) + 1) -> 0..ChunkSize]
  <2>1. NextBase(n, base[m + 1], pos[m + 1]) \in 0..n /\ NextPos(pos[m + 1]) \in 0..ChunkSize
    BY <1>1, PlaceFacts
  <2>2. \A i \in 1..(m + 1) : base[i] \in 0..n /\ pos[i] \in 0..ChunkSize
    BY DEF Placed
  <2>3. \A i \in 1..(m + 2) : b[i] \in 0..n /\ p[i] \in 0..ChunkSize
    BY <2>1, <2>2, <1>1
  <2>4. QED
    BY <2>3, <1>1, <1>3
<1>5. \A i \in 1..Len(w2) : /\ w2[i] = CellAt(n, b[i], p[i])
                            /\ b[i + 1] = NextBase(n, b[i], p[i])
                            /\ p[i + 1] = NextPos(p[i])
  <2> SUFFICES ASSUME NEW i \in 1..Len(w2)
               PROVE  /\ w2[i] = CellAt(n, b[i], p[i])
                      /\ b[i + 1] = NextBase(n, b[i], p[i])
                      /\ p[i + 1] = NextPos(p[i])
    OBVIOUS
  <2>1. b[i] = base[i] /\ p[i] = pos[i]
    BY <1>1, <1>3
  <2>2. CASE i <= m
    <3>1. i \in 1..m /\ b[i + 1] = base[i + 1] /\ p[i + 1] = pos[i + 1] /\ w2[i] = w[i]
      BY <2>2, <1>1, <1>3
    <3>2. QED
      BY <2>1, <3>1 DEF Placed
  <2>3. CASE i = m + 1
    <3>1. b[i + 1] = NextBase(n, base[m + 1], pos[m + 1]) /\ p[i + 1] = NextPos(pos[m + 1])
      BY <2>3, <1>1
    <3>2. QED
      BY <2>1, <2>3, <3>1, <1>3
  <2>4. QED
    BY <2>2, <2>3, <1>1, <1>3
<1>6. Placed(n, w2, b, p)
  BY <1>4, <1>5 DEF Placed
<1>7. b[1] = base[1] /\ p[1] = pos[1]
  BY <1>1
<1>8. b[m + 2] = NextBase(n, base[m + 1], pos[m + 1]) /\ p[m + 2] = NextPos(pos[m + 1])
  BY <1>1
<1>9. QED
  BY <1>6, <1>7, <1>8

\* A server that reads a cell gets that of its place.
LEMMA PlacedTail ==
  ASSUME NEW n \in Nat, NEW w \in Seq(Cells), w # <<>>, NEW base, NEW pos,
         Placed(n, w, base, pos)
  PROVE  /\ Head(w) = CellAt(n, base[1], pos[1])
         /\ \E b, p : /\ Placed(n, Tail(w), b, p)
                      /\ b[1] = NextBase(n, base[1], pos[1]) /\ p[1] = NextPos(pos[1])
                      /\ b[Len(Tail(w)) + 1] = base[Len(w) + 1]
                      /\ p[Len(Tail(w)) + 1] = pos[Len(w) + 1]
<1> DEFINE m == Len(w)
           t == Tail(w)
           b == [i \in 1..m |-> base[i + 1]]
           p == [i \in 1..m |-> pos[i + 1]]
<1>1. m \in Nat \ {0} /\ Len(t) = m - 1 /\ \A i \in 1..(m - 1) : t[i] = w[i + 1]
  BY EmptySeq, HeadTailProperties
<1>2. Head(w) = w[1]
  BY <1>1
<1>3. b \in [1..(Len(t) + 1) -> 0..n] /\ p \in [1..(Len(t) + 1) -> 0..ChunkSize]
  <2>1. \A i \in 1..m : b[i] \in 0..n /\ p[i] \in 0..ChunkSize
    BY <1>1 DEF Placed
  <2>2. QED
    BY <2>1, <1>1
<1>4. \A i \in 1..Len(t) : /\ t[i] = CellAt(n, b[i], p[i])
                           /\ b[i + 1] = NextBase(n, b[i], p[i])
                           /\ p[i + 1] = NextPos(p[i])
  <2> SUFFICES ASSUME NEW i \in 1..Len(t)
               PROVE  /\ t[i] = CellAt(n, b[i], p[i])
                      /\ b[i + 1] = NextBase(n, b[i], p[i])
                      /\ p[i + 1] = NextPos(p[i])
    OBVIOUS
  <2>1. i + 1 \in 1..m /\ t[i] = w[i + 1]
    BY <1>1
  <2>2. b[i] = base[i + 1] /\ p[i] = pos[i + 1] /\ b[i + 1] = base[i + 1 + 1] /\ p[i + 1] = pos[i + 1 + 1]
    BY <1>1
  <2>3. QED
    BY <2>1, <2>2 DEF Placed
<1>5. Placed(n, t, b, p)
  BY <1>3, <1>4 DEF Placed
<1>6. 1 \in 1..m /\ w[1] = CellAt(n, base[1], pos[1]) /\ base[2] = NextBase(n, base[1], pos[1])
      /\ pos[2] = NextPos(pos[1])
  BY <1>1 DEF Placed
<1>7. b[1] = base[2] /\ p[1] = pos[2] /\ b[Len(t) + 1] = base[m + 1] /\ p[Len(t) + 1] = pos[m + 1]
  BY <1>1
<1>8. QED
  BY <1>2, <1>5, <1>6, <1>7

\* What is left on a broken connection still comes from the same place.
LEMMA PlacedPrefix ==
  ASSUME NEW n \in Nat, NEW w \in Seq(Cells), NEW base, NEW pos,
         Placed(n, w, base, pos), NEW k \in 0..Len(w)
  PROVE  /\ SubSeq(w, 1, k) \in Seq(Cells)
         /\ \E b, p : /\ Placed(n, SubSeq(w, 1, k), b, p)
                      /\ b[1] = base[1] /\ p[1] = pos[1]
<1> DEFINE t == SubSeq(w, 1, k)
           b == [i \in 1..(k + 1) |-> base[i]]
           p == [i \in 1..(k + 1) |-> pos[i]]
<1>1. Len(w) \in Nat /\ \A i \in 1..k : w[i] \in Cells
  BY LenProperties, ElementOfSeq
<1>2. t \in Seq(Cells) /\ Len(t) = k /\ \A i \in 1..k : t[i] = w[i]
  <2>1. 1 \in Int /\ k \in Int
    BY <1>1
  <2>2. t \in Seq(Cells) /\ Len(t) = (IF 1 <= k THEN k - 1 + 1 ELSE 0)
        /\ \A i \in 1..(k - 1 + 1) : t[i] = w[1 + i - 1]
    BY <2>1, <1>1, SubSeqProperties
  <2>3. QED
    BY <2>2, <1>1
<1>3. Placed(n, t, b, p)
  BY <1>1, <1>2 DEF Placed
<1>4. b[1] = base[1] /\ p[1] = pos[1]
  BY <1>1
<1>5. QED
  BY <1>2, <1>3, <1>4

-----------------------------------------------------------------------------
(* The inductive invariant.                                                 *)

N == Len(emitted)

StreamOK ==
  /\ emitted \in Seq(Nat) /\ \A i \in 1..N : emitted[i] = i
  /\ whole \in BOOLEAN /\ (whole => N # 0)

ClientOK ==
  /\ rd \in 0..N /\ bytesSent \in 0..N
  /\ cur \in [1..ChunkSize -> Nat] /\ nxt \in [1..ChunkSize -> Nat]
  /\ curActual \in 0..ChunkSize /\ nxtActual \in 0..ChunkSize
  /\ wpos \in 0..ChunkSize
  /\ cpc \in {"fill", "peek", "chunk", "frame", "check", "status", "ended"}
  /\ answer \in {"none", "ok", "cancelled", "failed"}

ServerOK ==
  /\ spc \in {"chunk", "frame", "store", "finish", "ended"}
  /\ chunk \in Seq(Nat) /\ received \in Seq(Nat)
  /\ ended \in {"no", "complete", "cancelled", "error"}
  /\ reply \in {"none", "ok", "fail"}
  /\ outcome \in {"open", "applied", "failed"}

LinkOK ==
  /\ wire \in Seq(Cells)
  /\ up \in BOOLEAN /\ hup \in BOOLEAN /\ alive \in BOOLEAN /\ cancel \in BOOLEAN

STypeOK == StreamOK /\ ClientOK /\ ServerOK /\ LinkOK

\* Both buffers hold the chunks they are about to be written for: cur the one
\* at bytesSent with its padding, nxt, whose tail may be old, the one after it.
Buffered(buf, b) == \A i \in 1..ChunkSize : buf[i] = ByteAt(N, b, i)
Loaded(buf, b)   == \A i \in 1..ChunkSize : b + i <= N => buf[i] = b + i

ClientInv ==
  /\ cpc = "fill" => rd = 0 /\ bytesSent = 0
  /\ cpc \in {"peek", "chunk", "frame"} =>
        curActual = Size(N, bytesSent) /\ Buffered(cur, bytesSent)
  /\ cpc = "peek" => rd = bytesSent + curActual
  /\ cpc \in {"chunk", "frame"} =>
        /\ nxtActual = Size(N, bytesSent + curActual)
        /\ rd = bytesSent + curActual + nxtActual
        /\ Loaded(nxt, bytesSent + curActual)
  /\ cpc = "chunk" => wpos < ChunkSize
  /\ cpc = "check" => /\ nxtActual = Size(N, bytesSent)
                      /\ rd = bytesSent + nxtActual
                      /\ Loaded(nxt, bytesSent)
  /\ cpc = "status" => bytesSent = N
  /\ answer = "none" <=> cpc # "ended"

\* The place of the cell the client writes next, and of the one the server
\* reads next.
ClientPos == IF cpc = "chunk" THEN wpos ELSE IF cpc = "frame" THEN ChunkSize ELSE 0

ServerBase == Len(received) + (IF spc = "store" THEN frame.size ELSE 0)
ServerPos  == IF spc = "chunk" THEN Len(chunk) ELSE IF spc = "frame" THEN ChunkSize ELSE 0

Reading == spc \in {"chunk", "frame", "store"}

\* Everything on the wire is the stream between the two.
WireInv ==
  \E base, pos :
     /\ Placed(N, wire, base, pos)
     /\ Reading => base[1] = ServerBase /\ pos[1] = ServerPos
     /\ up /\ cpc # "ended" => base[Len(wire) + 1] = bytesSent /\ pos[Len(wire) + 1] = ClientPos

\* The server has a prefix, and in its buffer the chunk after it.  It goes on
\* reading only while bytes are missing, or when there are none.
ServerInv ==
  /\ Len(received) <= N /\ \A i \in 1..Len(received) : received[i] = i
  /\ Reading =>
        /\ \A i \in 1..Len(chunk) : chunk[i] = ByteAt(N, Len(received), i)
        /\ Len(received) < N \/ N = 0
  /\ spc = "chunk" => Len(chunk) < ChunkSize
  /\ spc \in {"frame", "store"} => Len(chunk) = ChunkSize
  /\ spc = "store" => frame = FrameAt(N, Len(received))
  /\ Reading <=> ended = "no"

\* What the answers say is so.
AnswerInv ==
  /\ ended = "complete" => Len(received) = N
  /\ ended \in {"cancelled", "error"} => Len(received) < N \/ N = 0 \/ ~alive
  /\ spc # "ended" => outcome = "open" /\ reply = "none"
  /\ spc = "ended" => /\ outcome = "applied" => ended = "complete" /\ whole
                      /\ reply # "none" => (reply = "ok" <=> outcome = "applied")
  /\ answer = "ok" => bytesSent = N /\ outcome = "applied"

StreamInv == STypeOK /\ ClientInv /\ WireInv /\ ServerInv /\ AnswerInv

LEMMA InitStream == Init => StreamInv
<1> SUFFICES ASSUME Init PROVE StreamInv
  OBVIOUS
<1>1. PICK n \in 0..MaxBytes : emitted = [i \in 1..n |-> i]
  BY DEF Init
<1>2. n \in Nat
  BY SizesAssumption
<1>3. emitted \in Seq(Nat) /\ N = n /\ \A i \in 1..N : emitted[i] = i
  BY <1>1, <1>2 DEF N
<1>4. STypeOK
  <2>1. Zeros \in [1..ChunkSize -> Nat]
    BY DEF Zeros
  <2>2. whole => N # 0
    BY <1>2, <1>3, EmptySeq DEF Init, N
  <2>3. StreamOK
    BY <1>3, <2>2 DEF Init, StreamOK
  <2>4. 0 \in 0..N /\ 0 \in 0..ChunkSize
    BY <1>2, <1>3, SizesAssumption
  <2>5. ClientOK
    BY <2>1, <2>4 DEF Init, ClientOK
  <2>6. ServerOK /\ LinkOK
    <3>1. <<>> \in Seq(Nat) /\ <<>> \in Seq(Cells)
      BY EmptySeq
    <3>2. ServerOK
      BY <3>1 DEF Init, ServerOK
    <3>3. LinkOK
      BY <3>1 DEF Init, LinkOK
    <3>4. QED
      BY <3>2, <3>3
  <2>7. QED
    BY <2>3, <2>5, <2>6 DEF STypeOK
<1>5. ClientInv /\ AnswerInv
  BY DEF Init, ClientInv, AnswerInv
<1>6. ServerInv
  BY <1>2, <1>3, SizesAssumption DEF Init, ServerInv, Reading
<1>7. WireInv
  <2> DEFINE b == [i \in 1..1 |-> 0]
  <2>1. Len(wire) = 0 /\ ServerBase = 0 /\ ServerPos = 0 /\ bytesSent = 0 /\ ClientPos = 0
    BY DEF Init, ServerBase, ServerPos, ClientPos
  <2>2. Placed(N, wire, b, b)
    BY <2>1, <1>2, <1>3, SizesAssumption DEF Placed
  <2>3. b[1] = 0
    OBVIOUS
  <2>4. QED
    BY <2>1, <2>2, <2>3 DEF WireInv
<1>8. QED
  BY <1>4, <1>5, <1>6, <1>7 DEF StreamInv

-----------------------------------------------------------------------------
(* What a step does not touch stays true.                                  *)

LEMMA StreamSame ==
  ASSUME StreamOK, UNCHANGED <<emitted, whole>>
  PROVE  StreamOK' /\ N' = N
  BY DEF StreamOK, N

LEMMA ServerSame ==
  ASSUME ServerOK, ServerInv, UNCHANGED <<emitted, serverVars>>
  PROVE  ServerOK' /\ ServerInv'
  BY DEF ServerOK, ServerInv, Reading, N, ByteAt, FrameAt, Size, serverVars

LEMMA ClientSame ==
  ASSUME ClientOK, ClientInv, UNCHANGED <<emitted, clientVars>>
  PROVE  ClientOK' /\ ClientInv'
  BY DEF ClientOK, ClientInv, N, Buffered, Loaded, clientVars

\* The wire, and the places where both sides are.
LEMMA WireSame ==
  ASSUME WireInv, UNCHANGED <<emitted, wire, bytesSent>>,
         Reading' => Reading /\ UNCHANGED <<ServerBase, ServerPos>>,
         up' => up,
         cpc' # "ended" => cpc # "ended" /\ UNCHANGED ClientPos
  PROVE  WireInv'
<1>1. PICK base, pos :
         /\ Placed(N, wire, base, pos)
         /\ Reading => base[1] = ServerBase /\ pos[1] = ServerPos
         /\ up /\ cpc # "ended" => base[Len(wire) + 1] = bytesSent /\ pos[Len(wire) + 1] = ClientPos
  BY DEF WireInv
<1>2. Placed(N, wire, base, pos)'
  BY <1>1 DEF N
<1>3. /\ Reading' => base[1] = ServerBase' /\ pos[1] = ServerPos'
      /\ up' /\ cpc' # "ended" =>
            base[Len(wire') + 1] = bytesSent' /\ pos[Len(wire') + 1] = ClientPos'
  BY <1>1
<1>4. QED
  BY <1>2, <1>3 DEF WireInv

LEMMA AnswerSame ==
  ASSUME AnswerInv, UNCHANGED <<emitted, whole, received, ended, alive, spc, outcome, reply>>,
         answer' = "ok" => bytesSent' = N /\ outcome = "applied"
  PROVE  AnswerInv'
  BY DEF AnswerInv, N

-----------------------------------------------------------------------------
(* The steps of the client.                                                *)

\* read_exact_or_eof fills a buffer with the chunk at rd.
LEMMA LoadFacts ==
  ASSUME STypeOK, NEW buf \in [1..ChunkSize -> Nat]
  PROVE  /\ Available = Size(N, rd)
         /\ Load(buf) \in [1..ChunkSize -> Nat]
         /\ Loaded(Load(buf), rd)
<1>1. N \in Nat /\ rd \in 0..N
  BY LenProperties DEF STypeOK, StreamOK, ClientOK, N
<1>2. Available = Size(N, rd)
  BY DEF Available, Size, N
<1>3. \A i \in 1..ChunkSize : i <= Available <=> rd + i <= N
  BY <1>1, <1>2, SizeFacts
<1>4. \A i \in 1..ChunkSize : rd + i <= N => emitted[rd + i] = rd + i
  BY <1>1 DEF STypeOK, StreamOK
<1>5. \A i \in 1..ChunkSize : Load(buf)[i] = IF rd + i <= N THEN rd + i ELSE buf[i]
  BY <1>3, <1>4 DEF Load
<1>6. Load(buf) \in [1..ChunkSize -> Nat]
  <2>1. Load(buf) = [i \in 1..ChunkSize |-> Load(buf)[i]]
    BY DEF Load
  <2>2. \A i \in 1..ChunkSize : Load(buf)[i] \in Nat
    BY <1>1, <1>5
  <2>3. QED
    BY <2>1, <2>2
<1>7. QED
  BY <1>2, <1>5, <1>6 DEF Loaded

\* Clearing the tail of a loaded buffer pads it.
LEMMA PadFacts ==
  ASSUME N \in Nat, NEW b \in 0..N, NEW buf \in [1..ChunkSize -> Nat], Loaded(buf, b)
  PROVE  /\ ZeroTail(buf, Size(N, b)) \in [1..ChunkSize -> Nat]
         /\ Buffered(ZeroTail(buf, Size(N, b)), b)
<1>1. \A i \in 1..ChunkSize : i <= Size(N, b) <=> b + i <= N
  BY SizeFacts
<1>2. QED
  BY <1>1 DEF ZeroTail, Buffered, Loaded, ByteAt

LEMMA FillKeeps == StreamInv /\ ClientFill => StreamInv'
<1> SUFFICES ASSUME StreamInv, ClientFill PROVE StreamInv'
  OBVIOUS
<1> USE DEF StreamInv
<1>1. N \in Nat /\ N' = N /\ rd = 0 /\ bytesSent = 0
  BY LenProperties DEF ClientFill, ClientInv, STypeOK, StreamOK, N
<1>2. Available = Size(N, 0) /\ Load(cur) \in [1..ChunkSize -> Nat] /\ Loaded(Load(cur), 0)
  BY <1>1, LoadFacts DEF STypeOK, ClientOK
<1>3. cur' \in [1..ChunkSize -> Nat] /\ Buffered(cur', 0)
  BY <1>1, <1>2, PadFacts DEF ClientFill
<1>4. Size(N, 0) \in 0..ChunkSize /\ 0 + Size(N, 0) \in 0..N
  BY <1>1, SizeFacts
<1>5. STypeOK'
  <2>1. StreamOK' /\ ServerOK' /\ LinkOK'
    BY StreamSame, ServerSame DEF ClientFill, STypeOK, LinkOK
  <2>2. ClientOK'
    BY <1>1, <1>2, <1>3, <1>4 DEF ClientFill, STypeOK, ClientOK
  <2>3. QED
    BY <2>1, <2>2 DEF STypeOK
<1>6. ClientInv'
  BY <1>1, <1>2, <1>3, <1>4 DEF ClientFill, ClientInv, Buffered, Size, ByteAt
<1>7. ServerInv'
  BY ServerSame DEF ClientFill, STypeOK
<1>8. AnswerInv'
  BY AnswerSame DEF ClientFill, serverVars, AnswerInv, ClientInv
<1>9. WireInv'
  BY WireSame DEF ClientFill, serverVars, Reading, ServerBase, ServerPos, ClientPos
<1>10. QED
  BY <1>5, <1>6, <1>7, <1>8, <1>9

LEMMA PeekKeeps == StreamInv /\ ClientPeek => StreamInv'
<1> SUFFICES ASSUME StreamInv, ClientPeek PROVE StreamInv'
  OBVIOUS
<1> USE DEF StreamInv
<1>1. N \in Nat /\ N' = N /\ bytesSent \in 0..N /\ rd = bytesSent + curActual /\ rd \in 0..N
  BY LenProperties DEF ClientPeek, ClientInv, STypeOK, StreamOK, ClientOK, N
<1>2. Available = Size(N, rd) /\ Load(nxt) \in [1..ChunkSize -> Nat] /\ Loaded(Load(nxt), rd)
  BY LoadFacts DEF STypeOK, ClientOK
<1>3. Size(N, rd) \in 0..ChunkSize /\ rd + Size(N, rd) \in 0..N
  BY <1>1, SizeFacts
<1>4. STypeOK'
  <2>1. StreamOK' /\ ServerOK' /\ LinkOK'
    BY StreamSame, ServerSame DEF ClientPeek, STypeOK, LinkOK
  <2>2. ClientOK'
    BY <1>1, <1>2, <1>3, SizesAssumption DEF ClientPeek, STypeOK, ClientOK
  <2>3. QED
    BY <2>1, <2>2 DEF STypeOK
<1>5. ClientInv'
  <2>1. curActual' = Size(N', bytesSent') /\ Buffered(cur, bytesSent)'
    BY <1>1 DEF ClientPeek, ClientInv, Buffered, Size, ByteAt
  <2>2. Loaded(nxt, bytesSent + curActual)'
    BY <1>1, <1>2 DEF ClientPeek, Loaded
  <2>3. QED
    BY <1>1, <1>2, <2>1, <2>2, SizesAssumption DEF ClientPeek, ClientInv
<1>6. ServerInv'
  BY ServerSame DEF ClientPeek, STypeOK
<1>7. AnswerInv'
  BY AnswerSame DEF ClientPeek, serverVars, AnswerInv, ClientInv
<1>8. WireInv'
  BY WireSame DEF ClientPeek, serverVars, Reading, ServerBase, ServerPos, ClientPos
<1>9. QED
  BY <1>4, <1>5, <1>6, <1>7, <1>8

\* A byte of cur is the byte of the client's place.
LEMMA WriteChunkKeeps == StreamInv /\ ClientWriteChunk => StreamInv'
<1> SUFFICES ASSUME StreamInv, ClientWriteChunk PROVE StreamInv'
  OBVIOUS
<1> USE DEF StreamInv
<1> DEFINE cell == [byte |-> cur[wpos + 1]]
<1>1. N \in Nat /\ N' = N /\ bytesSent \in 0..N /\ wpos \in 0..ChunkSize /\ wpos < ChunkSize
  BY LenProperties DEF ClientWriteChunk, ClientInv, STypeOK, StreamOK, ClientOK, N
<1>2. cell = CellAt(N, bytesSent, wpos) /\ cell \in Cells
  <2>1. Buffered(cur, bytesSent)
    BY DEF ClientWriteChunk, ClientInv
  <2>2. wpos + 1 \in 1..ChunkSize
    BY <1>1, SizesAssumption
  <2>3. cur[wpos + 1] = ByteAt(N, bytesSent, wpos + 1)
    BY <2>1, <2>2 DEF Buffered
  <2>4. cell = CellAt(N, bytesSent, wpos)
    BY <1>1, <2>3 DEF CellAt
  <2>5. QED
    BY <1>1, <2>4, PlaceFacts
<1>3. STypeOK'
  <2>1. StreamOK' /\ ServerOK'
    BY StreamSame, ServerSame DEF ClientWriteChunk, STypeOK
  <2>2. ClientOK'
    BY <1>1, SizesAssumption DEF ClientWriteChunk, STypeOK, ClientOK
  <2>3. LinkOK'
    BY <1>2, AppendProperties DEF ClientWriteChunk, STypeOK, LinkOK
  <2>4. QED
    BY <2>1, <2>2, <2>3 DEF STypeOK
<1>4. ClientInv'
  <2>1. wpos' = wpos + 1 /\ cpc \in {"chunk", "frame"} /\ cpc' \in {"chunk", "frame"}
        /\ (cpc' = "chunk" => wpos' < ChunkSize)
    BY <1>1, SizesAssumption DEF ClientWriteChunk
  <2>2. Buffered(cur, bytesSent)' /\ Loaded(nxt, bytesSent + curActual)'
    BY <1>1, <2>1 DEF ClientWriteChunk, ClientInv, Buffered, Loaded
  <2>3. curActual' = Size(N', bytesSent') /\ nxtActual' = Size(N', bytesSent' + curActual')
        /\ rd' = bytesSent' + curActual' + nxtActual'
    BY <1>1, <2>1 DEF ClientWriteChunk, ClientInv
  <2>4. answer' = "none"
    BY <2>1 DEF ClientWriteChunk, ClientInv
  <2>5. QED
    BY <2>1, <2>2, <2>3, <2>4 DEF ClientInv
<1>5. ServerInv'
  BY ServerSame DEF ClientWriteChunk, STypeOK
<1>6. AnswerInv'
  BY AnswerSame DEF ClientWriteChunk, serverVars, AnswerInv, ClientInv
<1>7. WireInv'
  <2>1. PICK base, pos :
           /\ Placed(N, wire, base, pos)
           /\ Reading => base[1] = ServerBase /\ pos[1] = ServerPos
           /\ base[Len(wire) + 1] = bytesSent /\ pos[Len(wire) + 1] = wpos
    BY DEF WireInv, ClientWriteChunk, Broken, ClientPos
  <2>2. PICK b, p :
           /\ Placed(N, Append(wire, cell), b, p)
           /\ b[1] = base[1] /\ p[1] = pos[1]
           /\ b[Len(wire) + 2] = NextBase(N, bytesSent, wpos)
           /\ p[Len(wire) + 2] = NextPos(wpos)
    BY <1>1, <1>2, <2>1, PlacedAppend DEF STypeOK, LinkOK
  <2>3. wire' = Append(wire, cell) /\ Len(wire') + 1 = Len(wire) + 2
    BY <1>2, AppendProperties, LenProperties DEF ClientWriteChunk, STypeOK, LinkOK
  <2>4. NextBase(N, bytesSent, wpos) = bytesSent' /\ NextPos(wpos) = ClientPos'
    BY <1>1, SizesAssumption DEF NextBase, NextPos, ClientPos, ClientWriteChunk
  <2>5. Reading' = Reading /\ ServerBase' = ServerBase /\ ServerPos' = ServerPos
    BY DEF ClientWriteChunk, serverVars, Reading, ServerBase, ServerPos
  <2>6. QED
    BY <1>1, <2>1, <2>2, <2>3, <2>4, <2>5 DEF WireInv
<1>8. QED
  BY <1>3, <1>4, <1>5, <1>6, <1>7

\* The Control Frame says how much of the chunk counts, and whether another
\* one comes: bytesSent moves on to that.
LEMMA WriteFrameKeeps == StreamInv /\ ClientWriteFrame => StreamInv'
<1> SUFFICES ASSUME StreamInv, ClientWriteFrame PROVE StreamInv'
  OBVIOUS
<1> USE DEF StreamInv
<1> DEFINE cell == make_frame(curActual, nxtActual > 0)
<1>1. N \in Nat /\ N' = N /\ bytesSent \in 0..N
  BY LenProperties DEF ClientWriteFrame, ClientInv, STypeOK, StreamOK, ClientOK, N
<1>2. /\ curActual = Size(N, bytesSent) /\ nxtActual = Size(N, bytesSent + curActual)
      /\ rd = bytesSent + curActual + nxtActual /\ Loaded(nxt, bytesSent + curActual)
      /\ answer = "none"
  BY DEF ClientInv, ClientWriteFrame
<1>3. /\ curActual \in 0..ChunkSize /\ bytesSent + curActual \in 0..N
      /\ nxtActual \in 0..ChunkSize
      /\ nxtActual > 0 <=> bytesSent + curActual < N
  <2>1. curActual \in 0..ChunkSize /\ bytesSent + curActual \in 0..N
    BY <1>1, <1>2, SizeFacts
  <2>2. nxtActual \in 0..ChunkSize
    BY <1>1, <1>2, <2>1, SizeFacts
  <2>3. nxtActual > 0 <=> bytesSent + curActual < N
    BY <1>1, <1>2, <2>1, SizesAssumption DEF Size
  <2>4. QED
    BY <2>1, <2>2, <2>3
<1>4. cell = CellAt(N, bytesSent, ChunkSize) /\ cell \in Cells
  <2>1. cell = FrameAt(N, bytesSent)
    BY <1>2, <1>3 DEF make_frame, FrameAt
  <2>2. CellAt(N, bytesSent, ChunkSize) = FrameAt(N, bytesSent)
    BY SizesAssumption DEF CellAt
  <2>3. QED
    BY <1>1, <2>1, <2>2, SizeFacts
<1>5. STypeOK'
  <2>1. StreamOK' /\ ServerOK'
    BY StreamSame, ServerSame DEF ClientWriteFrame, STypeOK
  <2>2. ClientOK'
    BY <1>1, <1>3 DEF ClientWriteFrame, STypeOK, ClientOK
  <2>3. LinkOK'
    BY <1>4, AppendProperties DEF ClientWriteFrame, STypeOK, LinkOK
  <2>4. QED
    BY <2>1, <2>2, <2>3 DEF STypeOK
<1>6. ClientInv'
  <2>1. Loaded(nxt, bytesSent)'
    BY <1>1, <1>2 DEF ClientWriteFrame, Loaded
  <2>2. QED
    BY <1>1, <1>2, <2>1 DEF ClientWriteFrame, ClientInv
<1>7. ServerInv'
  BY ServerSame DEF ClientWriteFrame, STypeOK
<1>8. AnswerInv'
  BY <1>2, AnswerSame DEF ClientWriteFrame, serverVars
<1>9. WireInv'
  <2>1. PICK base, pos :
           /\ Placed(N, wire, base, pos)
           /\ Reading => base[1] = ServerBase /\ pos[1] = ServerPos
           /\ base[Len(wire) + 1] = bytesSent /\ pos[Len(wire) + 1] = ChunkSize
    BY DEF WireInv, ClientWriteFrame, Broken, ClientPos
  <2>2. PICK b, p :
           /\ Placed(N, Append(wire, cell), b, p)
           /\ b[1] = base[1] /\ p[1] = pos[1]
           /\ b[Len(wire) + 2] = NextBase(N, bytesSent, ChunkSize)
           /\ p[Len(wire) + 2] = NextPos(ChunkSize)
    BY <1>1, <1>4, <2>1, PlacedAppend DEF STypeOK, LinkOK
  <2>3. wire' = Append(wire, cell) /\ Len(wire') + 1 = Len(wire) + 2
    BY <1>4, AppendProperties, LenProperties DEF ClientWriteFrame, STypeOK, LinkOK
  <2>4. NextBase(N, bytesSent, ChunkSize) = bytesSent' /\ NextPos(ChunkSize) = ClientPos'
    BY <1>1, <1>2, SizesAssumption DEF NextBase, NextPos, ClientPos, ClientWriteFrame
  <2>5. Reading' = Reading /\ ServerBase' = ServerBase /\ ServerPos' = ServerPos
    BY DEF ClientWriteFrame, serverVars, Reading, ServerBase, ServerPos
  <2>6. QED
    BY <1>1, <2>1, <2>2, <2>3, <2>4, <2>5 DEF WireInv
<1>10. QED
  BY <1>5, <1>6, <1>7, <1>8, <1>9

\* The buffers are swapped and the new one's tail is cleared, or the client is
\* through with the stream.
LEMMA CheckKeeps == StreamInv /\ ClientCheck => StreamInv'
<1> SUFFICES ASSUME StreamInv, ClientCheck PROVE StreamInv'
  OBVIOUS
<1> USE DEF StreamInv
<1>1. N \in Nat /\ N' = N /\ bytesSent \in 0..N
  BY LenProperties DEF ClientCheck, ClientInv, STypeOK, StreamOK, ClientOK, N
<1>2. /\ nxtActual = Size(N, bytesSent) /\ rd = bytesSent + nxtActual
      /\ Loaded(nxt, bytesSent) /\ answer = "none"
  BY DEF ClientInv, ClientCheck
<1>3. /\ ZeroTail(nxt, nxtActual) \in [1..ChunkSize -> Nat]
      /\ Buffered(ZeroTail(nxt, nxtActual), bytesSent)
      /\ nxtActual = 0 => bytesSent = N
  BY <1>1, <1>2, PadFacts, SizeFacts DEF STypeOK, ClientOK
<1>4. STypeOK'
  <2>1. StreamOK' /\ ServerOK' /\ LinkOK'
    BY StreamSame, ServerSame DEF ClientCheck, STypeOK, LinkOK
  <2>2. ClientOK'
    BY <1>1, <1>3 DEF ClientCheck, STypeOK, ClientOK, Cleared
  <2>3. QED
    BY <2>1, <2>2 DEF STypeOK
<1>5. ClientInv'
  <2>1. CASE cpc' = "peek"
    <3>1. /\ cur' = ZeroTail(nxt, nxtActual) /\ curActual' = nxtActual
          /\ rd' = rd /\ bytesSent' = bytesSent /\ answer' = answer
      BY <2>1 DEF ClientCheck, Cleared
    <3>2. Buffered(cur, bytesSent)'
      BY <1>1, <1>3, <3>1 DEF Buffered
    <3>3. QED
      BY <1>1, <1>2, <2>1, <3>1, <3>2 DEF ClientInv
  <2>2. CASE cpc' \in {"status", "ended"}
    BY <1>1, <1>2, <1>3, <2>2 DEF ClientCheck, ClientInv
  <2>3. QED
    BY <2>1, <2>2 DEF ClientCheck
<1>6. ServerInv'
  BY ServerSame DEF ClientCheck, STypeOK
<1>7. AnswerInv'
  BY <1>2, AnswerSame DEF ClientCheck, serverVars
<1>8. WireInv'
  BY WireSame DEF ClientCheck, serverVars, Reading, ServerBase, ServerPos, ClientPos
<1>9. QED
  BY <1>4, <1>5, <1>6, <1>7, <1>8

\* The client ends: with the server's status, or without it.
LEMMA ClientEndKeeps == StreamInv /\ (ClientWriteFails \/ ClientReadStatus) => StreamInv'
<1> SUFFICES ASSUME StreamInv, ClientWriteFails \/ ClientReadStatus PROVE StreamInv'
  OBVIOUS
<1> USE DEF StreamInv
<1>1. /\ UNCHANGED <<emitted, whole, rd, cur, nxt, curActual, nxtActual, wpos, bytesSent,
                     cancel, wire, up, serverVars, hup, alive>>
      /\ cpc' = "ended" /\ cpc # "ended"
      /\ answer' \in {"ok", "failed"}
      /\ answer' = "ok" => cpc = "status" /\ reply = "ok"
  BY DEF ClientWriteFails, ClientReadStatus, AnswerTo
<1>2. N' = N /\ StreamOK' /\ ServerOK' /\ ServerInv'
  BY <1>1, StreamSame, ServerSame DEF STypeOK
<1>3. LinkOK' /\ ClientOK'
  BY <1>1, <1>2 DEF STypeOK, LinkOK, ClientOK
<1>4. ClientInv'
  BY <1>1 DEF ClientInv
<1>5. AnswerInv'
  <2>1. answer' = "ok" => bytesSent = N /\ outcome = "applied"
    <3>1. answer' = "ok" => bytesSent = N /\ reply = "ok"
      BY <1>1 DEF ClientInv
    <3>2. reply = "ok" => outcome = "applied"
      BY DEF AnswerInv
    <3>3. QED
      BY <3>1, <3>2
  <2>2. QED
    BY <1>1, <2>1, AnswerSame DEF serverVars
<1>6. WireInv'
  BY <1>1, WireSame DEF serverVars, Reading, ServerBase, ServerPos
<1>7. QED
  BY <1>2, <1>3, <1>4, <1>5, <1>6 DEF STypeOK

-----------------------------------------------------------------------------
(* The steps of the server.                                                *)

\* Nothing of the client or of the stream is touched.
LEMMA ClientApart ==
  ASSUME StreamInv, UNCHANGED <<emitted, whole, clientVars>>
  PROVE  /\ N \in Nat /\ N' = N
         /\ StreamOK' /\ ClientOK' /\ ClientInv'
         /\ Len(received) \in Nat /\ Len(chunk) \in Nat
         /\ UNCHANGED ClientPos
<1>1. N \in Nat /\ Len(received) \in Nat /\ Len(chunk) \in Nat
  BY LenProperties DEF StreamInv, STypeOK, StreamOK, ServerOK, N
<1>2. QED
  BY <1>1, StreamSame, ClientSame DEF StreamInv, STypeOK, clientVars, ClientPos

LEMMA ReadChunkKeeps == StreamInv /\ ServerReadChunk => StreamInv'
<1> SUFFICES ASSUME StreamInv, ServerReadChunk PROVE StreamInv'
  OBVIOUS
<1> USE DEF StreamInv
<1>1. /\ N \in Nat /\ N' = N
      /\ StreamOK' /\ ClientOK' /\ ClientInv'
      /\ Len(received) \in Nat /\ Len(chunk) \in Nat /\ UNCHANGED ClientPos
  BY ClientApart DEF ServerReadChunk
<1>2. Reading /\ Reading' /\ Len(chunk) < ChunkSize /\ Len(received) \in 0..N
  BY <1>1 DEF ServerReadChunk, ServerInv, Reading
<1> DEFINE byte == ByteAt(N, Len(received), Len(chunk) + 1)
<1>3. PICK base, pos :
         /\ Placed(N, wire, base, pos)
         /\ base[1] = Len(received) /\ pos[1] = Len(chunk)
         /\ up /\ cpc # "ended" => base[Len(wire) + 1] = bytesSent /\ pos[Len(wire) + 1] = ClientPos
  BY <1>1, <1>2 DEF WireInv, ServerReadChunk, ServerBase, ServerPos
<1>4. PICK b, p :
         /\ Placed(N, Tail(wire), b, p)
         /\ b[1] = NextBase(N, Len(received), Len(chunk)) /\ p[1] = NextPos(Len(chunk))
         /\ b[Len(Tail(wire)) + 1] = base[Len(wire) + 1]
         /\ p[Len(Tail(wire)) + 1] = pos[Len(wire) + 1]
  BY <1>1, <1>3, PlacedTail DEF STypeOK, LinkOK, ServerReadChunk
<1>5. Head(wire).byte = byte /\ byte \in Nat
  <2>1. Head(wire) = CellAt(N, Len(received), Len(chunk))
    BY <1>1, <1>3, PlacedTail DEF STypeOK, LinkOK, ServerReadChunk
  <2>2. QED
    BY <1>1, <1>2, <2>1 DEF CellAt, ByteAt
<1>6. /\ chunk' = Append(chunk, byte) /\ chunk' \in Seq(Nat) /\ Len(chunk') = Len(chunk) + 1
      /\ \A i \in 1..Len(chunk) : chunk'[i] = chunk[i]
      /\ chunk'[Len(chunk) + 1] = byte
  BY <1>5, AppendProperties DEF ServerReadChunk, STypeOK, ServerOK
<1>7. STypeOK'
  <2>1. ServerOK'
    BY <1>6 DEF ServerReadChunk, STypeOK, ServerOK
  <2>2. LinkOK'
    BY HeadTailProperties DEF ServerReadChunk, STypeOK, LinkOK
  <2>3. QED
    BY <1>1, <2>1, <2>2 DEF STypeOK
<1>8. ServerInv'
  <2>1. \A i \in 1..Len(chunk') : chunk'[i] = ByteAt(N', Len(received'), i)
    <3> SUFFICES ASSUME NEW i \in 1..Len(chunk')
                 PROVE  chunk'[i] = ByteAt(N', Len(received'), i)
      OBVIOUS
    <3>1. CASE i \in 1..Len(chunk)
      BY <1>1, <1>2, <1>6, <3>1 DEF ServerInv, ServerReadChunk
    <3>2. CASE i = Len(chunk) + 1
      BY <1>1, <1>6, <3>2 DEF ServerReadChunk
    <3>3. QED
      BY <1>1, <1>6, <3>1, <3>2
  <2>2. /\ spc' = "chunk" => Len(chunk') < ChunkSize
        /\ spc' \in {"frame", "store"} => Len(chunk') = ChunkSize
        /\ spc' # "store"
    BY <1>1, <1>2, <1>6, SizesAssumption DEF ServerReadChunk
  <2>3. received' = received /\ ended' = ended
    BY DEF ServerReadChunk
  <2>4. QED
    BY <1>1, <1>2, <2>1, <2>2, <2>3 DEF ServerInv
<1>9. AnswerInv'
  BY <1>1 DEF ServerReadChunk, AnswerInv, clientVars
<1>10. WireInv'
  <2>1. NextBase(N, Len(received), Len(chunk)) = ServerBase'
    BY <1>1, <1>2 DEF NextBase, ServerBase, ServerReadChunk
  <2>2. NextPos(Len(chunk)) = ServerPos'
    BY <1>1, <1>2, <1>6 DEF NextPos, ServerPos, ServerReadChunk
  <2>3. wire' = Tail(wire) /\ UNCHANGED <<up, cpc, bytesSent>>
    BY DEF ServerReadChunk, clientVars
  <2>4. QED
    BY <1>1, <1>3, <1>4, <2>1, <2>2, <2>3 DEF WireInv
<1>11. QED
  BY <1>1, <1>7, <1>8, <1>9, <1>10

LEMMA ReadFrameKeeps == StreamInv /\ ServerReadFrame => StreamInv'
<1> SUFFICES ASSUME StreamInv, ServerReadFrame PROVE StreamInv'
  OBVIOUS
<1> USE DEF StreamInv
<1>1. /\ N \in Nat /\ N' = N
      /\ StreamOK' /\ ClientOK' /\ ClientInv'
      /\ Len(received) \in Nat /\ Len(chunk) \in Nat /\ UNCHANGED ClientPos
  BY ClientApart DEF ServerReadFrame
<1>2. Reading /\ Reading' /\ Len(chunk) = ChunkSize /\ Len(received) \in 0..N
  BY <1>1 DEF ServerReadFrame, ServerInv, Reading
<1>3. PICK base, pos :
         /\ Placed(N, wire, base, pos)
         /\ base[1] = Len(received) /\ pos[1] = ChunkSize
         /\ up /\ cpc # "ended" => base[Len(wire) + 1] = bytesSent /\ pos[Len(wire) + 1] = ClientPos
  BY <1>1, <1>2 DEF WireInv, ServerReadFrame, ServerBase, ServerPos
<1>4. PICK b, p :
         /\ Placed(N, Tail(wire), b, p)
         /\ b[1] = NextBase(N, Len(received), ChunkSize) /\ p[1] = NextPos(ChunkSize)
         /\ b[Len(Tail(wire)) + 1] = base[Len(wire) + 1]
         /\ p[Len(Tail(wire)) + 1] = pos[Len(wire) + 1]
  BY <1>1, <1>3, PlacedTail DEF STypeOK, LinkOK, ServerReadFrame
<1>5. frame' = FrameAt(N, Len(received)) /\ frame'.size = Size(N, Len(received))
  <2>1. Head(wire) = CellAt(N, Len(received), ChunkSize)
    BY <1>1, <1>3, PlacedTail DEF STypeOK, LinkOK, ServerReadFrame
  <2>2. frame' = FrameAt(N, Len(received))
    BY <2>1, SizesAssumption DEF CellAt, ServerReadFrame
  <2>3. QED
    BY <1>1, <1>2, <2>2, SizeFacts
<1>6. STypeOK'
  <2>1. ServerOK'
    BY DEF ServerReadFrame, STypeOK, ServerOK
  <2>2. LinkOK'
    BY HeadTailProperties DEF ServerReadFrame, STypeOK, LinkOK
  <2>3. QED
    BY <1>1, <2>1, <2>2 DEF STypeOK
<1>7. ServerInv'
  BY <1>1, <1>2, <1>5 DEF ServerInv, ServerReadFrame
<1>8. AnswerInv'
  BY <1>1 DEF ServerReadFrame, AnswerInv, clientVars
<1>9. WireInv'
  <2>1. NextBase(N, Len(received), ChunkSize) = ServerBase'
    BY <1>1, <1>2, <1>5, SizesAssumption DEF NextBase, ServerBase, ServerReadFrame
  <2>2. NextPos(ChunkSize) = ServerPos'
    BY SizesAssumption DEF NextPos, ServerPos, ServerReadFrame
  <2>3. wire' = Tail(wire) /\ UNCHANGED <<up, cpc, bytesSent>>
    BY DEF ServerReadFrame, clientVars
  <2>4. QED
    BY <1>1, <1>3, <1>4, <2>1, <2>2, <2>3 DEF WireInv
<1>10. QED
  BY <1>1, <1>6, <1>7, <1>8, <1>9

\* A chunk that is stored makes the prefix longer, by as much as its frame says.
Stored == received \o SubSeq(chunk, 1, frame.size)

LEMMA StoreFacts ==
  ASSUME StreamInv, spc = "store"
  PROVE  /\ Stored \in Seq(Nat)
         /\ Len(Stored) = Len(received) + frame.size
         /\ Len(Stored) \in Len(received)..N
         /\ \A i \in 1..Len(Stored) : Stored[i] = i
         /\ AfterChunk(frame.more) = "complete" => Len(Stored) = N
         /\ AfterChunk(frame.more) # "complete" => Len(Stored) < N
<1> USE DEF StreamInv
<1> DEFINE k == frame.size
           t == SubSeq(chunk, 1, k)
           r == Stored
<1>1. /\ N \in Nat /\ Len(received) \in 0..N /\ Len(chunk) = ChunkSize
      /\ received \in Seq(Nat) /\ chunk \in Seq(Nat)
      /\ frame = FrameAt(N, Len(received))
  BY LenProperties DEF STypeOK, StreamOK, ServerOK, ServerInv, N
<1>2. /\ k = Size(N, Len(received)) /\ k \in 0..ChunkSize
      /\ Len(received) + k \in 0..N
      /\ \A i \in 1..ChunkSize : i <= k <=> Len(received) + i <= N
  <2>1. k = FrameAt(N, Len(received)).size
    BY <1>1
  <2>2. k = Size(N, Len(received))
    BY <2>1 DEF FrameAt
  <2>3. QED
    BY <1>1, <2>2, SizeFacts
<1>3. t \in Seq(Nat) /\ Len(t) = k /\ \A i \in 1..k : t[i] = chunk[i]
  <2>1. \A i \in 1..k : chunk[i] \in Nat
    BY <1>1, <1>2, ElementOfSeq
  <2>2. t \in Seq(Nat) /\ Len(t) = (IF 1 <= k THEN k - 1 + 1 ELSE 0)
        /\ \A i \in 1..(k - 1 + 1) : t[i] = chunk[1 + i - 1]
    BY <2>1, <1>2, SubSeqProperties
  <2>3. QED
    BY <2>2, <1>2
<1>4. \A i \in 1..k : t[i] = Len(received) + i
  BY <1>1, <1>2, <1>3 DEF ServerInv, Reading, ByteAt
<1>5. r \in Seq(Nat) /\ Len(r) = Len(received) + k
      /\ \A i \in 1..(Len(received) + k) :
            r[i] = IF i <= Len(received) THEN received[i] ELSE t[i - Len(received)]
  BY <1>1, <1>3, ConcatProperties DEF Stored
<1>6. \A i \in 1..Len(r) : r[i] = i
  <2> SUFFICES ASSUME NEW i \in 1..Len(r) PROVE r[i] = i
    OBVIOUS
  <2>1. CASE i <= Len(received)
    <3>1. i \in 1..Len(received) /\ i \in 1..(Len(received) + k)
      BY <1>1, <1>2, <1>5, <2>1
    <3>2. received[i] = i
      BY <3>1 DEF ServerInv
    <3>3. QED
      BY <1>5, <2>1, <3>1, <3>2
  <2>2. CASE ~(i <= Len(received))
    <3>1. i - Len(received) \in 1..k
      BY <1>1, <1>2, <1>5, <2>2
    <3>2. QED
      BY <1>1, <1>2, <1>4, <1>5, <2>2, <3>1
  <2>3. QED
    BY <2>1, <2>2
<1>7. /\ AfterChunk(frame.more) = "complete" => ~(Len(received) + k < N)
      /\ AfterChunk(frame.more) # "complete" => Len(received) + k < N
  <2>1. frame.more <=> Len(received) + k < N
    BY <1>1, <1>2, MoreFacts, Zenon
  <2>2. QED
    BY <2>1 DEF AfterChunk
<1>8. QED
  BY <1>1, <1>2, <1>5, <1>6, <1>7

LEMMA StoreKeeps == StreamInv /\ ServerStore => StreamInv'
<1> SUFFICES ASSUME StreamInv, ServerStore PROVE StreamInv'
  OBVIOUS
<1> USE DEF StreamInv
<1>1. /\ N \in Nat /\ N' = N
      /\ StreamOK' /\ ClientOK' /\ ClientInv'
      /\ Len(received) \in Nat /\ Len(chunk) \in Nat /\ UNCHANGED ClientPos
  BY ClientApart DEF ServerStore
<1>2. /\ spc = "store" /\ Reading /\ Len(received) \in 0..N /\ (Len(received) < N \/ N = 0)
      /\ ended = "no"
  BY <1>1 DEF ServerStore, ServerInv, Reading
<1>3. /\ received' \in Seq(Nat)
      /\ Len(received') <= N /\ \A i \in 1..Len(received') : received'[i] = i
  <2>1. CASE alive
    <3>1. received' = Stored
      BY <2>1 DEF ServerStore, Stored
    <3>2. QED
      BY <1>1, <1>2, <3>1, StoreFacts
  <2>2. CASE ~alive
    BY <2>2 DEF ServerStore, STypeOK, ServerOK, ServerInv
  <2>3. QED
    BY <2>1, <2>2
<1>4. /\ alive => Len(received') = Len(received) + frame.size
      /\ ended' = "complete" => Len(received') = N
      /\ ended' = "no" => alive /\ Len(received') < N
      /\ ended' \in {"cancelled", "error"} => Len(received') < N \/ N = 0 \/ ~alive
      /\ ended' \in {"no", "complete", "cancelled", "error"}
  <2>1. CASE alive
    <3>1. received' = Stored
      BY <2>1 DEF ServerStore, Stored
    <3>2. ended' = AfterChunk(frame.more)
      BY <2>1 DEF ServerStore
    <3>3. QED
      <4>1. AfterChunk(frame.more) \in {"no", "complete", "cancelled"}
        BY DEF AfterChunk
      <4>2. QED
        BY <1>1, <1>2, <2>1, <3>1, <3>2, <4>1, StoreFacts
  <2>2. CASE ~alive
    BY <2>2 DEF ServerStore
  <2>3. QED
    BY <2>1, <2>2
<1>5. /\ spc' = IF ended' = "no" THEN "chunk" ELSE "finish"
      /\ chunk' = <<>> /\ Len(chunk') = 0
      /\ UNCHANGED <<wire, up, hup, alive, cancel, cpc, bytesSent, answer, whole, reply, outcome>>
  BY EmptySeq DEF ServerStore, clientVars
<1>6. STypeOK'
  <2>1. ServerOK'
    BY <1>3, <1>4, <1>5, EmptySeq DEF STypeOK, ServerOK
  <2>2. LinkOK'
    BY <1>5 DEF STypeOK, LinkOK
  <2>3. QED
    BY <1>1, <2>1, <2>2 DEF STypeOK
<1>7. ServerInv'
  BY <1>1, <1>3, <1>4, <1>5, SizesAssumption DEF ServerInv, Reading
<1>8. AnswerInv'
  BY <1>1, <1>2, <1>4, <1>5 DEF AnswerInv
<1>9. WireInv'
  <2>1. Reading' => Reading /\ UNCHANGED <<ServerBase, ServerPos>>
    <3> SUFFICES ASSUME Reading' PROVE Reading /\ UNCHANGED <<ServerBase, ServerPos>>
      OBVIOUS
    <3>1. spc' = "chunk" /\ alive
      BY <1>4, <1>5 DEF Reading
    <3>2. ServerBase' = ServerBase
      BY <1>2, <1>4, <1>5, <3>1, <1>3, LenProperties DEF ServerBase
    <3>3. ServerPos' = ServerPos
      BY <1>2, <1>5, <3>1 DEF ServerPos
    <3>4. QED
      BY <1>2, <3>2, <3>3
  <2>2. UNCHANGED emitted
    BY DEF ServerStore
  <2>3. QED
    BY <1>1, <1>5, <2>1, <2>2, WireSame
<1>10. QED
  BY <1>1, <1>6, <1>7, <1>8, <1>9

LEMMA EofKeeps == StreamInv /\ ServerEof => StreamInv'
<1> SUFFICES ASSUME StreamInv, ServerEof PROVE StreamInv'
  OBVIOUS
<1> USE DEF StreamInv
<1>1. /\ N \in Nat /\ N' = N
      /\ StreamOK' /\ ClientOK' /\ ClientInv'
      /\ Len(received) \in Nat /\ Len(chunk) \in Nat /\ UNCHANGED ClientPos
  BY ClientApart DEF ServerEof
<1>2. ServerOK' /\ LinkOK'
  BY DEF ServerEof, STypeOK, ServerOK, LinkOK
<1>3. ServerInv'
  BY <1>1 DEF ServerEof, ServerInv, Reading
<1>4. AnswerInv'
  BY <1>1 DEF ServerEof, ServerInv, AnswerInv, clientVars, Reading
<1>5. WireInv'
  BY <1>1, WireSame DEF ServerEof, Reading, clientVars
<1>6. QED
  BY <1>1, <1>2, <1>3, <1>4, <1>5 DEF STypeOK

\* zfs receive can apply only what is whole, so a stream that ended early is
\* not applied and no status says that it was.
LEMMA FinishKeeps == StreamInv /\ ServerFinish => StreamInv'
<1> SUFFICES ASSUME StreamInv, ServerFinish PROVE StreamInv'
  OBVIOUS
<1> USE DEF StreamInv
<1>1. /\ N \in Nat /\ N' = N
      /\ StreamOK' /\ ClientOK' /\ ClientInv'
      /\ Len(received) \in Nat /\ Len(chunk) \in Nat /\ UNCHANGED ClientPos
  BY ClientApart DEF ServerFinish
<1>2. ServerOK' /\ LinkOK'
  <2>1. outcome' \in {"applied", "failed"} /\ reply' \in {"none", "ok", "fail"} /\ spc' = "ended"
    BY DEF ServerFinish
  <2>2. QED
    BY <2>1 DEF ServerFinish, STypeOK, ServerOK, LinkOK
<1>3. ServerInv'
  BY <1>1 DEF ServerFinish, ServerInv, Reading
<1>4. alive /\ whole /\ received = emitted => ended = "complete"
  <2>1. received = emitted => Len(received) = N
    BY DEF N
  <2>2. whole => N # 0
    BY DEF STypeOK, StreamOK
  <2>3. ended \in {"complete", "cancelled", "error"}
    BY DEF STypeOK, ServerOK, ServerInv, ServerFinish, Reading
  <2>4. QED
    BY <1>1, <2>1, <2>2, <2>3 DEF AnswerInv
<1>5. AnswerInv'
  <2>1. UNCHANGED <<ended, received, emitted, alive, bytesSent, answer, whole>> /\ spc' = "ended"
    BY DEF ServerFinish, clientVars
  <2>2. /\ outcome' = "applied" => ended' = "complete" /\ whole'
        /\ reply' # "none" => (reply' = "ok" <=> outcome' = "applied")
    BY <1>4 DEF ServerFinish
  <2>3. answer # "ok"
    BY DEF AnswerInv, ServerFinish
  <2>4. QED
    BY <1>1, <2>1, <2>2, <2>3 DEF AnswerInv
<1>6. WireInv'
  BY <1>1, WireSame DEF ServerFinish, Reading, clientVars
<1>7. QED
  BY <1>1, <1>2, <1>3, <1>5, <1>6 DEF STypeOK

-----------------------------------------------------------------------------
(* The environment, and every step.                                        *)

LEMMA DisconnectKeeps == StreamInv /\ Disconnect => StreamInv'
<1> SUFFICES ASSUME StreamInv, Disconnect PROVE StreamInv'
  OBVIOUS
<1> USE DEF StreamInv
<1>1. /\ N \in Nat /\ N' = N
      /\ StreamOK' /\ ClientOK' /\ ClientInv'
      /\ UNCHANGED ClientPos
  BY ClientApart DEF Disconnect
<1>2. ServerOK' /\ ServerInv'
  BY ServerSame DEF Disconnect, STypeOK
<1>3. AnswerInv'
  BY AnswerSame DEF Disconnect, serverVars, clientVars, AnswerInv
<1>4. PICK k \in 0..Len(wire) : wire' = SubSeq(wire, 1, k)
  BY DEF Disconnect
<1>5. PICK base, pos :
         /\ Placed(N, wire, base, pos)
         /\ Reading => base[1] = ServerBase /\ pos[1] = ServerPos
  BY DEF WireInv
<1>6. /\ wire' \in Seq(Cells)
      /\ \E b, p : /\ Placed(N, wire', b, p)
                   /\ b[1] = base[1] /\ p[1] = pos[1]
  BY <1>1, <1>4, <1>5, PlacedPrefix DEF STypeOK, LinkOK
<1>7. LinkOK'
  BY <1>6 DEF Disconnect, STypeOK, LinkOK
<1>8. WireInv'
  <2>1. PICK b, p : Placed(N, wire', b, p) /\ b[1] = base[1] /\ p[1] = pos[1]
    BY <1>6
  <2>2. up' = FALSE
    BY DEF Disconnect
  <2>3. Reading' = Reading /\ ServerBase' = ServerBase /\ ServerPos' = ServerPos
    BY DEF Disconnect, serverVars, Reading, ServerBase, ServerPos
  <2>4. QED
    BY <1>1, <1>5, <2>1, <2>2, <2>3 DEF WireInv
<1>9. QED
  BY <1>1, <1>2, <1>3, <1>7, <1>8 DEF STypeOK

LEMMA SignalKeeps == StreamInv /\ (Cancel \/ Hangup \/ ReceiveDies) => StreamInv'
<1> SUFFICES ASSUME StreamInv, Cancel \/ Hangup \/ ReceiveDies PROVE StreamInv'
  OBVIOUS
<1> USE DEF StreamInv
<1>1. /\ UNCHANGED <<emitted, whole, clientVars, wire, up, serverVars>>
      /\ cancel' \in BOOLEAN /\ hup' \in BOOLEAN
      /\ alive' = alive \/ (alive' = FALSE /\ spc # "ended")
  BY DEF Cancel, Hangup, ReceiveDies, STypeOK, LinkOK
<1>2. /\ N' = N /\ StreamOK' /\ ClientOK' /\ ClientInv' /\ UNCHANGED ClientPos
      /\ ServerOK' /\ ServerInv'
  BY <1>1, ClientApart, ServerSame DEF STypeOK
<1>3. LinkOK'
  BY <1>1 DEF STypeOK, LinkOK
<1>4. AnswerInv'
  BY <1>1, <1>2 DEF AnswerInv, serverVars, clientVars
<1>5. WireInv'
  BY <1>1, <1>2, WireSame DEF serverVars, clientVars, Reading, ServerBase, ServerPos
<1>6. QED
  BY <1>2, <1>3, <1>4, <1>5 DEF STypeOK

LEMMA StutterKeeps == StreamInv /\ UNCHANGED vars => StreamInv'
<1> SUFFICES ASSUME StreamInv, UNCHANGED vars PROVE StreamInv'
  OBVIOUS
<1> USE DEF StreamInv
<1>1. /\ UNCHANGED <<emitted, whole, clientVars, serverVars, wire, up, cancel, hup, alive>>
  BY DEF vars
<1>2. /\ N' = N /\ StreamOK' /\ ClientOK' /\ ClientInv' /\ UNCHANGED ClientPos
      /\ ServerOK' /\ ServerInv'
  BY <1>1, ClientApart, ServerSame DEF STypeOK
<1>3. LinkOK'
  BY <1>1 DEF STypeOK, LinkOK
<1>4. AnswerInv'
  BY <1>1, <1>2 DEF AnswerInv, serverVars, clientVars
<1>5. WireInv'
  BY <1>1, <1>2, WireSame DEF serverVars, clientVars, Reading, ServerBase, ServerPos
<1>6. QED
  BY <1>2, <1>3, <1>4, <1>5 DEF STypeOK

LEMMA NextStream == StreamInv /\ [Next]_vars => StreamInv'
<1> SUFFICES ASSUME StreamInv, [Next]_vars PROVE StreamInv'
  OBVIOUS
<1>1. CASE ClientStep
  BY <1>1, FillKeeps, PeekKeeps, WriteChunkKeeps, WriteFrameKeeps, CheckKeeps, ClientEndKeeps
     DEF ClientStep
<1>2. CASE ServerStep
  BY <1>2, ReadChunkKeeps, ReadFrameKeeps, EofKeeps, StoreKeeps, FinishKeeps DEF ServerStep
<1>3. CASE Cancel \/ Disconnect \/ Hangup \/ ReceiveDies
  BY <1>3, DisconnectKeeps, SignalKeeps
<1>4. CASE Terminated \/ UNCHANGED vars
  BY <1>4, StutterKeeps DEF Terminated
<1>5. QED
  BY <1>1, <1>2, <1>3, <1>4 DEF Next

\* The invariant holds in every state of a transfer.
THEOREM StreamIsPlaced == Spec => []StreamInv
  BY InitStream, NextStream, PTL DEF Spec

-----------------------------------------------------------------------------
(* What it says.                                                            *)

\* zfs receive was given the whole stream when it has as many bytes.
LEMMA WholeStream == ASSUME StreamInv, Len(received) = N PROVE received = emitted
<1>1. received \in Seq(Nat) /\ emitted \in Seq(Nat) /\ Len(received) = Len(emitted)
  BY DEF StreamInv, STypeOK, StreamOK, ServerOK, N
<1>2. \A i \in 1..Len(received) : received[i] = emitted[i]
  BY DEF StreamInv, STypeOK, StreamOK, ServerInv
<1>3. QED
  BY <1>1, <1>2, SeqEqual

\* Each chunk that write_stream writes holds the next bytes of the stream and
\* zeroes behind them, whatever the buffers held before the swap.
THEOREM ChunksArePadded == Spec => []PaddingIsZero
<1>1. StreamInv => PaddingIsZero
  <2> SUFFICES ASSUME StreamInv, cpc \in {"chunk", "frame"}, NEW i \in 1..ChunkSize
               PROVE  IF i <= curActual THEN cur[i] = rd - nxtActual - curActual + i
                                        ELSE cur[i] = 0
    BY DEF PaddingIsZero
  <2>1. N \in Nat /\ bytesSent \in 0..N
    BY LenProperties DEF StreamInv, STypeOK, StreamOK, ClientOK, N
  <2>2. /\ curActual = Size(N, bytesSent) /\ cur[i] = ByteAt(N, bytesSent, i)
        /\ rd = bytesSent + curActual + nxtActual
    BY DEF StreamInv, ClientInv, Buffered
  <2>3. i <= curActual <=> bytesSent + i <= N
    BY <2>1, <2>2, SizeFacts
  <2>4. curActual \in Nat /\ nxtActual \in Nat
    BY SizesAssumption DEF StreamInv, STypeOK, ClientOK
  <2>5. rd - nxtActual - curActual + i = bytesSent + i
    BY <2>1, <2>2, <2>4
  <2>6. QED
    BY <2>1, <2>2, <2>3, <2>5 DEF ByteAt
<1>2. QED
  BY <1>1, StreamIsPlaced, PTL

\* When send_on returns Ok, bytes_sent is the length of the stream and zfs
\* receive was given all of it.
THEOREM SuccessReportsAllBytes == Spec => []ReportsAllBytes
<1>1. StreamInv => ReportsAllBytes
  <2> SUFFICES ASSUME StreamInv, answer = "ok"
               PROVE  bytesSent = Len(emitted) /\ received = emitted
    BY DEF ReportsAllBytes
  <2>1. bytesSent = N /\ outcome = "applied"
    BY DEF StreamInv, AnswerInv
  <2>2. Len(received) = N
    BY <2>1 DEF StreamInv, AnswerInv
  <2>3. QED
    BY <2>1, <2>2, WholeStream DEF N
<1>2. QED
  BY <1>1, StreamIsPlaced, PTL

\* run_server_on holds and stamps exactly what zfs receive applied, and the
\* ServerStatus it sends says so, SIGHUP and lost connection or not.
THEOREM StatusIsTrue == Spec => []ServerTellsTruth
<1>1. StreamInv => ServerTellsTruth
  BY DEF StreamInv, AnswerInv, ServerTellsTruth
<1>2. QED
  BY <1>1, StreamIsPlaced, PTL

-----------------------------------------------------------------------------
(* The refinement of Transfer.                                              *)

LEMMA TransferInit == Init => Promise!TInit
  BY DEF Init, Promise!TInit

\* A chunk that is stored is a delivery: the target holds a longer prefix.
LEMMA StoreDelivers ==
  StreamInv /\ ServerStore => Promise!Deliver \/ UNCHANGED Promise!tvars
<1> SUFFICES ASSUME StreamInv, ServerStore
             PROVE  Promise!Deliver \/ UNCHANGED Promise!tvars
  OBVIOUS
<1>1. UNCHANGED <<emitted, whole, outcome, answer>> /\ outcome = "open" /\ spc = "store"
  BY DEF ServerStore, clientVars, StreamInv, AnswerInv
<1>2. CASE alive
  <2>1. received' = Stored
    BY <1>2 DEF ServerStore, Stored
  <2>2. /\ Stored \in Seq(Nat) /\ Len(Stored) \in Len(received)..N
        /\ \A i \in 1..Len(Stored) : Stored[i] = i
    BY <1>1, StoreFacts
  <2>3. N \in Nat /\ Len(received) \in Nat /\ emitted \in Seq(Nat) /\ \A i \in 1..N : emitted[i] = i
    BY LenProperties DEF StreamInv, STypeOK, StreamOK, ServerOK, N
  <2> DEFINE m == Len(Stored)
             t == SubSeq(emitted, 1, m)
  <2>4. m \in Nat /\ m <= N
    BY <2>2, <2>3
  <2>5. t \in Seq(Nat) /\ Len(t) = m /\ \A i \in 1..m : t[i] = i
    <3>1. \A i \in 1..m : emitted[i] \in Nat /\ emitted[i] = i
      BY <2>3, <2>4
    <3>2. t \in Seq(Nat) /\ Len(t) = (IF 1 <= m THEN m - 1 + 1 ELSE 0)
          /\ \A i \in 1..(m - 1 + 1) : t[i] = emitted[1 + i - 1]
      BY <3>1, <2>4, SubSeqProperties
    <3>3. QED
      BY <3>1, <3>2, <2>4
  <2>6. Stored = t
    BY <2>2, <2>5, SeqEqual
  <2>7. m \in Len(received)..Len(emitted)
    BY <2>2 DEF N
  <2>8. QED
    BY <1>1, <2>1, <2>6, <2>7 DEF Promise!Deliver
<1>3. CASE ~alive
  BY <1>1, <1>3 DEF ServerStore, Promise!tvars
<1>4. QED
  BY <1>2, <1>3

LEMMA TransferStep == StreamInv /\ [Next]_vars => [Promise!TNext]_(Promise!tvars)
<1> SUFFICES ASSUME StreamInv, [Next]_vars
             PROVE  Promise!TNext \/ UNCHANGED Promise!tvars
  OBVIOUS
<1>1. CASE ServerStore
  BY <1>1, StoreDelivers DEF Promise!TNext
<1>2. CASE ServerFinish
  <2>1. outcome = "open" /\ UNCHANGED <<emitted, whole, received, answer>>
    BY <1>2 DEF ServerFinish, clientVars, StreamInv, AnswerInv
  <2>2. \/ outcome' = "applied" /\ whole /\ received = emitted
        \/ outcome' = "failed"
    BY <1>2 DEF ServerFinish
  <2>3. QED
    BY <2>1, <2>2 DEF Promise!TNext, Promise!Apply, Promise!Fail
<1>3. CASE ClientWriteFails \/ ClientReadStatus \/ ClientCheck
  <2>1. UNCHANGED <<emitted, whole, received, outcome>>
    BY <1>3 DEF ClientWriteFails, ClientReadStatus, ClientCheck, serverVars
  <2>2. /\ answer = "none"
        /\ answer' \in {"none", "cancelled", "failed"} \/ (answer' = "ok" /\ reply = "ok")
    BY <1>3 DEF ClientWriteFails, ClientReadStatus, ClientCheck, AnswerTo, StreamInv, ClientInv
  <2>3. reply = "ok" => outcome = "applied"
    BY DEF StreamInv, AnswerInv
  <2>4. QED
    BY <2>1, <2>2, <2>3 DEF Promise!TNext, Promise!Answer, Promise!tvars
<1>4. CASE ClientFill \/ ClientPeek \/ ClientWriteChunk \/ ClientWriteFrame
  BY <1>4 DEF ClientFill, ClientPeek, ClientWriteChunk, ClientWriteFrame, serverVars, Promise!tvars
<1>5. CASE ServerReadChunk \/ ServerReadFrame \/ ServerEof
  BY <1>5 DEF ServerReadChunk, ServerReadFrame, ServerEof, clientVars, Promise!tvars
<1>6. CASE Cancel \/ Disconnect \/ Hangup \/ ReceiveDies
  BY <1>6 DEF Cancel, Disconnect, Hangup, ReceiveDies, serverVars, clientVars, Promise!tvars
<1>7. CASE Terminated \/ UNCHANGED vars
  BY <1>7 DEF Terminated, vars, serverVars, clientVars, Promise!tvars
<1>8. QED
  BY <1>1, <1>2, <1>3, <1>4, <1>5, <1>6, <1>7 DEF Next, ClientStep, ServerStep

\* The chunked stream over a bounded pipe that may break keeps what Transfer
\* promises: the target gets a growing prefix of what zfs send wrote, applies
\* only the whole of it, and send_on returns Ok only after that.
THEOREM StreamImplements == Spec => ImplementsTransfer
<1>1. Init => Promise!TInit
  BY TransferInit
<1>2. StreamInv /\ [Next]_vars => [Promise!TNext]_(Promise!tvars)
  BY TransferStep
<1>3. QED
  BY <1>1, <1>2, StreamIsPlaced, PTL DEF Spec, ImplementsTransfer, Promise!TSpec
=============================================================================
