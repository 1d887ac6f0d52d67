---------------------------- MODULE SendRunProofs ----------------------------
(* A run of `zrb send`, for any number of datasets and Remotes and any        *)
(* channel: its exit status, what its display says of each row, and that a    *)
(* skipped row stops.                                                         *)
EXTENDS SendRun, SequenceTheorems, TLAPS

-----------------------------------------------------------------------------
(* The inductive invariant.                                                   *)

\* A row has an outcome as soon as its task has ended.  A dataset that is ok
\* has no failed row, and main is past send without an error only when all are.
OutcomeInv ==
  /\ \A r \in Rows : task[r] = "ended" <=> outcome[r] # "none"
  /\ \A d \in Datasets : ds[d] = "ok" =>
        \A r \in Rows : DatasetOf[r] = d => task[r] = "ended" /\ ~RowFailed(r)
  /\ main \in {"join", "exit0"} => \A d \in Datasets : ds[d] = "ok"
  /\ main = "countdown" => \A r \in Rows : outcome[r] = "none"
  /\ sequential => \A r \in Rows : outcome[r] = "panicked" => main = "exit1"

\* A cancelled row has written no chunk since, or one that it is about to look
\* up from.
SkipInv ==
  \A r \in cancelled :
     \/ chunks[r] = chunksAt[r]
     \/ chunks[r] = chunksAt[r] + 1 /\ task[r] \in {"check", "ended"}

\* The SendEvent of an outcome, and what the display makes of it.
Word(o) == CASE o = "sent"     -> "Completed"
             [] o = "uptodate" -> "UpToDate"
             [] o = "failed"   -> "Failed"
             [] OTHER          -> "Skipped"
Sign(o) == IF o = "sent" THEN "Done" ELSE Word(o)

Worded == {"sent", "uptodate", "failed", "cancelled"}

Silent(c, r) == \A j \in 1..Len(c) : c[j].row # r
LastOf(c, e) == \E i \in 1..Len(c) : /\ c[i] = e
                                     /\ \A j \in 1..Len(c) : j > i => c[j].row # e.row

\* The event of a row that ended is the last of the row's on the channel, or
\* it was read and the display shows it.
WordInv ==
  ~lost /\ display # "gone" =>
     \A r \in Rows : outcome[r] \in Worded =>
        \/ LastOf(chan, [row |-> r, what |-> Word(outcome[r])])
        \/ Silent(chan, r) /\ shown[r] = Sign(outcome[r])

\* Of a row that has yet to begin its stream, and of one that could not
\* connect, there is no event, and the display has not heard any.
Untold(r) == task[r] \in {"new", "running"} \/ outcome[r] = "unconnected"
UntoldInv ==
  display # "gone" =>
     \A r \in Rows : Untold(r) => Silent(chan, r) /\ shown[r] \in {"Waiting", "Skipped"}

\* The TUI is started after the countdown.
CountdownInv == main = "countdown" => display = "off"

LEMMA RowFacts ==
  /\ \A r \in Rows : r \in Nat \ {0} /\ DatasetOf[r] \in Datasets
  /\ 1 \in Rows
  /\ Finished \in Event
  /\ \A r \in Rows : Finished.row # r
  /\ \A r \in Rows, w \in {"Started", "Progress", "Completed", "Failed", "Skipped", "UpToDate"} :
        [row |-> r, what |-> w] \in Event /\ [row |-> r, what |-> w] # Finished
  BY RowsAssumption DEF Rows, Datasets, Finished, Event

-----------------------------------------------------------------------------
(* The channel.                                                               *)

LEMMA TrySendType ==
  ASSUME chan \in Seq(Event), Len(chan) <= ChanSize, NEW e \in Event
  PROVE  TrySend(e) \in Seq(Event) /\ Len(TrySend(e)) <= ChanSize
<1>1. Len(chan) \in Nat /\ ChanSize \in Nat
  BY LenProperties, RunAssumption
<1>2. QED
  BY <1>1, AppendProperties DEF TrySend

LEMMA NoteType ==
  ASSUME TypeOK, NEW r \in Rows,
         NEW w \in {"Started", "Progress", "Completed", "Failed", "Skipped", "UpToDate"},
         Note(r, w)
  PROVE  chan' \in Seq(Event) /\ Len(chan') <= ChanSize /\ lost' \in BOOLEAN
<1>1. [row |-> r, what |-> w] \in Event
  BY RowFacts
<1>2. chan' \in Seq(Event) /\ Len(chan') <= ChanSize
  BY <1>1, TrySendType DEF TypeOK, Note
<1>3. lost' \in BOOLEAN
  BY DEF Note
<1>4. QED
  BY <1>2, <1>3

\* An event that is sent is the last of its row, and those of other rows stay
\* where they are.
LEMMA AppendWords ==
  ASSUME NEW c \in Seq(Event), NEW e \in Event
  PROVE  /\ LastOf(Append(c, e), e)
         /\ \A f \in Event : f.row # e.row /\ LastOf(c, f) => LastOf(Append(c, e), f)
         /\ \A r \in Rows : r # e.row /\ Silent(c, r) => Silent(Append(c, e), r)
<1> DEFINE a == Append(c, e)
<1>1. Len(c) \in Nat /\ Len(a) = Len(c) + 1 /\ a[Len(c) + 1] = e
      /\ \A i \in 1..Len(c) : a[i] = c[i]
  BY LenProperties, AppendProperties
<1>2. LastOf(a, e)
  <2>1. Len(c) + 1 \in 1..Len(a) /\ \A j \in 1..Len(a) : ~(j > Len(c) + 1)
    BY <1>1
  <2>2. QED
    BY <1>1, <2>1 DEF LastOf
<1>3. ASSUME NEW f \in Event, f.row # e.row, LastOf(c, f) PROVE LastOf(a, f)
  <2>1. PICK i \in 1..Len(c) : c[i] = f /\ \A j \in 1..Len(c) : j > i => c[j].row # f.row
    BY <1>3 DEF LastOf
  <2>2. i \in 1..Len(a) /\ a[i] = f
    BY <1>1, <2>1
  <2>3. \A j \in 1..Len(a) : j > i => a[j].row # f.row
    <3> SUFFICES ASSUME NEW j \in 1..Len(a), j > i PROVE a[j].row # f.row
      OBVIOUS
    <3>1. CASE j \in 1..Len(c)
      BY <1>1, <2>1, <3>1
    <3>2. CASE j = Len(c) + 1
      BY <1>1, <1>3, <3>2
    <3>3. QED
      BY <1>1, <3>1, <3>2
  <2>4. QED
    BY <2>2, <2>3 DEF LastOf
<1>4. ASSUME NEW r \in Rows, r # e.row, Silent(c, r) PROVE Silent(a, r)
  BY <1>1, <1>4 DEF Silent
<1>5. QED
  BY <1>2, <1>3, <1>4

\* What is left after a read.
LEMMA TailWords ==
  ASSUME NEW c \in Seq(Event), c # <<>>
  PROVE  /\ Tail(c) \in Seq(Event) /\ Head(c) \in Event /\ Len(Tail(c)) = Len(c) - 1
         /\ Len(c) \in Nat \ {0}
         /\ \A f \in Event : LastOf(c, f) =>
               LastOf(Tail(c), f) \/ (Head(c) = f /\ Silent(Tail(c), f.row))
         /\ \A r \in Rows : Silent(c, r) => Head(c).row # r /\ Silent(Tail(c), r)
<1> DEFINE t == Tail(c)
<1>1. /\ Len(c) \in Nat \ {0} /\ Head(c) = c[1] /\ Head(c) \in Event
      /\ t \in Seq(Event) /\ Len(t) = Len(c) - 1
      /\ \A i \in 1..Len(t) : t[i] = c[i + 1]
  BY EmptySeq, HeadTailProperties, ElementOfSeq
<1>2. ASSUME NEW f \in Event, LastOf(c, f)
      PROVE  LastOf(t, f) \/ (Head(c) = f /\ Silent(t, f.row))
  <2>1. PICK i \in 1..Len(c) : c[i] = f /\ \A j \in 1..Len(c) : j > i => c[j].row # f.row
    BY <1>2 DEF LastOf
  <2>2. \A j \in 1..Len(t) : j + 1 \in 1..Len(c) /\ (j + 1 > i => t[j].row # f.row)
    BY <1>1, <2>1
  <2>3. CASE i = 1
    <3>1. \A j \in 1..Len(t) : t[j].row # f.row
      BY <2>2, <2>3
    <3>2. QED
      BY <1>1, <2>1, <2>3, <3>1 DEF Silent
  <2>4. CASE i # 1
    <3>1. i - 1 \in 1..Len(t) /\ t[i - 1] = c[i]
      BY <1>1, <2>4
    <3>2. \A j \in 1..Len(t) : j > i - 1 => t[j].row # f.row
      BY <2>2
    <3>3. QED
      BY <2>1, <3>1, <3>2 DEF LastOf
  <2>5. QED
    BY <2>3, <2>4
<1>3. ASSUME NEW r \in Rows, Silent(c, r) PROVE Head(c).row # r /\ Silent(t, r)
  <2>1. 1 \in 1..Len(c) /\ \A j \in 1..Len(t) : j + 1 \in 1..Len(c)
    BY <1>1
  <2>2. QED
    BY <1>1, <1>3, <2>1 DEF Silent
<1>4. QED
  BY <1>1, <1>2, <1>3

-----------------------------------------------------------------------------
(* Type correctness.                                                          *)

LEMMA InitType == Init => TypeOK
<1> SUFFICES ASSUME Init PROVE TypeOK
  OBVIOUS
<1>1. chan \in Seq(Event) /\ Len(chan) <= ChanSize
  BY EmptySeq, RunAssumption DEF Init
<1>2. 0 \in 0..MaxChunks
  BY RunAssumption
<1>3. QED
  BY <1>1, <1>2, RowFacts DEF Init, TypeOK, Shown

LEMMA RowType == ASSUME TypeOK, NEW r \in Rows, RowStep(r) PROVE TypeOK'
<1>1. CASE StartRow(r)
  BY <1>1 DEF StartRow, TypeOK, runVars, chanVars, tuiVars
<1>2. ASSUME NEW how \in {"sent", "uptodate", "failed", "cancelled"},
             NEW what \in {"Completed", "Failed", "Skipped", "UpToDate"},
             RowEnds(r, how, what)
      PROVE  TypeOK'
  <2>1. chan' \in Seq(Event) /\ Len(chan') <= ChanSize /\ lost' \in BOOLEAN /\ closed' = closed
    BY <1>2, NoteType DEF RowEnds, Note
  <2>2. QED
    BY <1>2, <2>1 DEF RowEnds, TypeOK, runVars, tuiVars
<1>3. CASE RowUpToDate(r) \/ RowFails(r) \/ RowCompletes(r)
  BY <1>2, <1>3 DEF RowUpToDate, RowFails, RowCompletes
<1>4. CASE RowBeginsStream(r)
  <2>1. chan' \in Seq(Event) /\ Len(chan') <= ChanSize /\ lost' \in BOOLEAN /\ closed' = closed
    BY <1>4, NoteType DEF RowBeginsStream, Note
  <2>2. QED
    BY <1>4, <2>1 DEF RowBeginsStream, TypeOK, runVars, tuiVars
<1>5. CASE RowWritesChunk(r)
  <2>1. chan' \in Seq(Event) /\ Len(chan') <= ChanSize /\ lost' \in BOOLEAN /\ closed' = closed
    BY <1>5, NoteType DEF RowWritesChunk, Note
  <2>2. chunks[r] + 1 \in 0..MaxChunks
    BY <1>5, RunAssumption DEF RowWritesChunk, TypeOK
  <2>3. QED
    BY <1>5, <2>1, <2>2 DEF RowWritesChunk, TypeOK, runVars, tuiVars
<1>6. CASE RowPanics(r)
  <2>1. chunks[r] + 1 \in 0..MaxChunks
    BY <1>6, RunAssumption DEF RowPanics, TypeOK
  <2>2. QED
    BY <1>6, <2>1 DEF RowPanics, TypeOK, runVars, chanVars, tuiVars
<1>7. CASE RowChecks(r)
  <2>1. CASE RowEnds(r, "cancelled", "Skipped")
    BY <1>2, <2>1
  <2>2. CASE /\ \E last \in BOOLEAN : task' = [task EXCEPT ![r] = IF last THEN "status" ELSE "stream"]
             /\ UNCHANGED <<runVars, main, ds, outcome, chunks, chunksAt,
                            cancelled, chanVars, tuiVars>>
    BY <2>2 DEF TypeOK, runVars, chanVars, tuiVars
  <2>3. QED
    BY <1>7, <2>1, <2>2 DEF RowChecks
<1>8. CASE RowCannotConnect(r)
  BY <1>8 DEF RowCannotConnect, TypeOK, runVars, chanVars, tuiVars
<1>9. QED
  BY <1>1, <1>3, <1>4, <1>5, <1>6, <1>7, <1>8 DEF RowStep

LEMMA DisplayType == TypeOK /\ (DisplayStep \/ KeyStep) => TypeOK'
<1> SUFFICES ASSUME TypeOK, DisplayStep \/ KeyStep PROVE TypeOK'
  OBVIOUS
<1>1. ASSUME AllDone PROVE display' \in {"summary", "gone"} /\ shown' \in [Rows -> Shown]
  BY <1>1 DEF AllDone, TypeOK, Shown
<1>2. CASE Receive
  <2>1. chan' \in Seq(Event) /\ Len(chan') <= ChanSize /\ Head(chan) \in Event
    <3>1. chan \in Seq(Event) /\ chan # <<>> /\ chan' = Tail(chan) /\ Len(chan) <= ChanSize
      BY <1>2 DEF Receive, TypeOK
    <3>2. QED
      BY <3>1, TailWords, RunAssumption
  <2>2. shown' \in [Rows -> Shown] /\ display' \in {"off", "transferring", "summary", "gone"}
    <3>1. CASE Head(chan) = Finished
      BY <1>1, <1>2, <3>1 DEF Receive
    <3>2. CASE Head(chan) # Finished
      <4> DEFINE e == Head(chan)
      <4>1. e.row \in Rows /\ Shows(e.what, shown[e.row]) \in Shown
        <5>1. e.row \in Rows /\ e.what \in {"Started", "Progress", "Completed", "Failed",
                                            "Skipped", "UpToDate"}
          BY <2>1, <3>2 DEF Event
        <5>2. shown[e.row] \in Shown
          BY <5>1 DEF TypeOK
        <5>3. QED
          BY <5>1, <5>2 DEF Shows, Shown
      <4>2. shown' = [shown EXCEPT ![e.row] = Shows(e.what, shown[e.row])] /\ display' = display
        BY <1>2, <3>2 DEF Receive
      <4>3. QED
        BY <4>1, <4>2 DEF TypeOK
    <3>3. QED
      BY <3>1, <3>2
  <2>3. QED
    BY <1>2, <2>1, <2>2 DEF Receive, TypeOK, runVars, sendVars
<1>3. CASE ReceiveClosed
  BY <1>1, <1>3 DEF ReceiveClosed, TypeOK, runVars, sendVars, chanVars
<1>4. CASE SummaryEnds
  BY <1>4 DEF SummaryEnds, TypeOK, runVars, sendVars, chanVars
<1>5. ASSUME NEW S \in SUBSET Rows, CancelTokens(S), SkipActive(S)
      PROVE  /\ cancelled' \subseteq Rows /\ chunksAt' \in [Rows -> 0..MaxChunks]
             /\ shown' \in [Rows -> Shown]
  BY <1>5 DEF CancelTokens, SkipActive, TypeOK, Shown
<1>6. CASE KeySkip
  <2>1. {focused} \in SUBSET Rows
    BY DEF TypeOK
  <2>2. QED
    BY <1>5, <1>6, <2>1 DEF KeySkip, TypeOK, runVars, chanVars
<1>7. CASE KeyQuit
  BY <1>5, <1>7 DEF KeyQuit, TypeOK, runVars, chanVars
<1>8. CASE KeyUpDown
  BY <1>8 DEF KeyUpDown, TypeOK, runVars, sendVars, chanVars
<1>9. CASE CountdownKey
  BY <1>9 DEF CountdownKey, TypeOK, runVars, sendVars, chanVars, tuiVars
<1>10. QED
  BY <1>2, <1>3, <1>4, <1>6, <1>7, <1>8, <1>9 DEF DisplayStep, KeyStep

LEMMA MainType == TypeOK /\ MainStep => TypeOK'
<1> SUFFICES ASSUME TypeOK, MainStep PROVE TypeOK'
  OBVIOUS
<1>1. CASE CountdownEnds \/ MainFails \/ MainJoins
  BY <1>1 DEF CountdownEnds, MainFails, MainJoins, TypeOK, runVars, sendVars, chanVars, tuiVars
<1>2. ASSUME NEW d \in Datasets, StartDataset(d) \/ EndDataset(d) PROVE TypeOK'
  BY <1>2 DEF StartDataset, EndDataset, TypeOK, runVars, chanVars, tuiVars
<1>3. ASSUME NEW r \in Rows, RowStep(r) PROVE TypeOK'
  BY <1>3, RowType
<1>4. CASE SendReturns
  <2>1. chan' \in Seq(Event) /\ Len(chan') <= ChanSize
    BY <1>4, TrySendType, RowFacts DEF SendReturns, TypeOK
  <2>2. QED
    BY <1>4, <2>1 DEF SendReturns, TypeOK, runVars, sendVars, tuiVars
<1>5. QED
  BY <1>1, <1>2, <1>3, <1>4 DEF MainStep, SendStep

LEMMA TypeStep == TypeOK /\ [Next]_vars => TypeOK'
<1> SUFFICES ASSUME TypeOK, [Next]_vars PROVE TypeOK'
  OBVIOUS
<1>1. CASE Ended \/ UNCHANGED vars
  BY <1>1 DEF Ended, vars, TypeOK, runVars, sendVars, chanVars, tuiVars
<1>2. QED
  BY <1>1, MainType, DisplayType DEF Next

\* The control states, the counters and the channel stay in their bounds: no
\* SendEvent makes the channel longer than its capacity, and no key moves the
\* focus off the rows.
THEOREM SendRunTyped == Spec => []TypeOK
  BY InitType, TypeStep, PTL DEF Spec

-----------------------------------------------------------------------------
(* Outcomes and the exit status.                                              *)

\* How a row's task and outcome change together.
LEMMA RowOutcome ==
  ASSUME TypeOK, NEW r \in Rows, RowStep(r)
  PROVE  /\ main = "send" /\ ds' = ds /\ sequential' = sequential
         /\ task[r] # "ended"
         /\ \A q \in Rows : q # r => task'[q] = task[q] /\ outcome'[q] = outcome[q]
         /\ \/ task'[r] # "ended" /\ outcome'[r] = outcome[r] /\ main' = main
            \/ /\ task'[r] = "ended" /\ outcome'[r] \in Worded \cup {"unconnected"} /\ main' = main
            \/ /\ task'[r] = "ended" /\ outcome'[r] = "panicked"
               /\ main' = IF sequential THEN "exit1" ELSE main
<1> USE DEF TypeOK, Worded, runVars
<1>1. CASE StartRow(r)
  BY <1>1 DEF StartRow
<1>2. CASE RowUpToDate(r) \/ RowFails(r) \/ RowCompletes(r)
  BY <1>2 DEF RowUpToDate, RowFails, RowCompletes, RowEnds
<1>3. CASE RowBeginsStream(r) \/ RowWritesChunk(r)
  BY <1>3 DEF RowBeginsStream, RowWritesChunk
<1>4. CASE RowPanics(r)
  BY <1>4 DEF RowPanics
<1>5. CASE RowChecks(r)
  BY <1>5 DEF RowChecks, RowEnds
<1>6. CASE RowCannotConnect(r)
  BY <1>6 DEF RowCannotConnect
<1>7. QED
  BY <1>1, <1>2, <1>3, <1>4, <1>5, <1>6 DEF RowStep

LEMMA OutcomeSame ==
  ASSUME OutcomeInv, UNCHANGED <<task, outcome, ds, sequential>>,
         main' \in {"join", "exit0"} => main \in {"join", "exit0"},
         main = "exit1" => main' = "exit1", main' = "countdown" => main = "countdown"
  PROVE  OutcomeInv'
  BY DEF OutcomeInv, RowFailed

LEMMA OutcomeStep == TypeOK /\ OutcomeInv /\ [Next]_vars => OutcomeInv'
<1> SUFFICES ASSUME TypeOK, OutcomeInv, [Next]_vars PROVE OutcomeInv'
  OBVIOUS
<1>1. ASSUME NEW r \in Rows, RowStep(r) PROVE OutcomeInv'
  <2>1. /\ main = "send" /\ ds' = ds /\ sequential' = sequential
        /\ task[r] # "ended"
        /\ \A q \in Rows : q # r => task'[q] = task[q] /\ outcome'[q] = outcome[q]
        /\ \/ task'[r] # "ended" /\ outcome'[r] = outcome[r] /\ main' = main
           \/ /\ task'[r] = "ended" /\ outcome'[r] \in Worded \cup {"unconnected"} /\ main' = main
           \/ /\ task'[r] = "ended" /\ outcome'[r] = "panicked"
              /\ main' = IF sequential THEN "exit1" ELSE main
    BY <1>1, RowOutcome
  <2>2. \A q \in Rows : task'[q] = "ended" <=> outcome'[q] # "none"
    BY <2>1 DEF OutcomeInv, Worded
  <2>3. \A d \in Datasets : ds'[d] = "ok" =>
           \A q \in Rows : DatasetOf[q] = d => task'[q] = "ended" /\ ~RowFailed(q)'
    BY <2>1 DEF OutcomeInv, RowFailed
  <2>4. main' \notin {"join", "exit0", "countdown"}
    BY <2>1
  <2>5. sequential' => \A q \in Rows : outcome'[q] = "panicked" => main' = "exit1"
    BY <2>1 DEF OutcomeInv, Worded
  <2>6. QED
    BY <2>2, <2>3, <2>4, <2>5 DEF OutcomeInv
<1>2. ASSUME NEW d \in Datasets, StartDataset(d) \/ EndDataset(d) PROVE OutcomeInv'
  <2>1. UNCHANGED <<main, task, outcome, sequential>> /\ main = "send"
    BY <1>2 DEF StartDataset, EndDataset, runVars
  <2>2. \A e \in Datasets : ds'[e] = "ok" =>
           \A q \in Rows : DatasetOf[q] = e => task[q] = "ended" /\ ~RowFailed(q)
    <3>1. \A e \in Datasets : e # d => ds'[e] = ds[e]
      BY <1>2 DEF StartDataset, EndDataset, TypeOK
    <3>2. ds'[d] = "ok" =>
             \A q \in Rows : DatasetOf[q] = d => task[q] = "ended" /\ ~RowFailed(q)
      BY <1>2 DEF StartDataset, EndDataset, TypeOK, RowFailed
    <3>3. QED
      BY <3>1, <3>2 DEF OutcomeInv
  <2>3. QED
    BY <2>1, <2>2 DEF OutcomeInv, RowFailed
<1>3. CASE SendReturns
  <2>1. UNCHANGED <<ds, task, outcome, sequential>> /\ main = "send"
    BY <1>3 DEF SendReturns, sendVars, runVars
  <2>2. main' = "failing" \/ (main' = "join" /\ \A d \in Datasets : ds[d] = "ok")
    BY <1>3 DEF SendReturns
  <2>3. QED
    BY <2>1, <2>2 DEF OutcomeInv, RowFailed
<1>4. CASE CountdownEnds \/ MainFails \/ MainJoins
  BY <1>4, OutcomeSame DEF CountdownEnds, MainFails, MainJoins, sendVars, runVars
<1>5. CASE DisplayStep \/ KeyStep
  <2>1. UNCHANGED <<task, outcome, ds, sequential>>
    BY <1>5 DEF DisplayStep, KeyStep, Receive, ReceiveClosed, SummaryEnds, CountdownKey, KeySkip,
                KeyQuit, KeyUpDown, sendVars, runVars
  <2>2. main' = main \/ (main = "countdown" /\ main' = "aborted")
    BY <1>5 DEF DisplayStep, KeyStep, Receive, ReceiveClosed, SummaryEnds, CountdownKey, KeySkip,
                KeyQuit, KeyUpDown
  <2>3. QED
    BY <2>1, <2>2, OutcomeSame
<1>6. CASE Ended \/ UNCHANGED vars
  BY <1>6, OutcomeSame DEF Ended, vars, sendVars, runVars
<1>7. QED
  BY <1>1, <1>2, <1>3, <1>4, <1>5, <1>6 DEF Next, MainStep, SendStep

\* Failures of send_to_remote reach the exit status through join_all and bail!,
\* for any number of rows and any interleaving: zrb send exits 0 only when
\* every row was sent, was up to date or was cancelled, or its task panicked
\* beside others.
THEOREM FailuresReachExit == Spec => []ErrorExitsNonZero
<1>1. Init => OutcomeInv
  BY DEF Init, OutcomeInv
<1>2. TypeOK /\ OutcomeInv => ErrorExitsNonZero
  <2> SUFFICES ASSUME TypeOK, OutcomeInv, main = "exit0", NEW r \in Rows
               PROVE  \/ outcome[r] \in {"sent", "uptodate", "cancelled"}
                      \/ outcome[r] = "panicked" /\ ~sequential
    BY DEF ErrorExitsNonZero
  <2>1. DatasetOf[r] \in Datasets
    BY DEF Datasets
  <2>2. task[r] = "ended" /\ outcome[r] \notin {"failed", "unconnected"}
    BY <2>1 DEF OutcomeInv, RowFailed
  <2>3. outcome[r] # "none" /\ (sequential => outcome[r] # "panicked")
    BY <2>2 DEF OutcomeInv
  <2>4. QED
    BY <2>2, <2>3 DEF TypeOK
<1>3. QED
  BY <1>1, <1>2, OutcomeStep, SendRunTyped, PTL DEF Spec

-----------------------------------------------------------------------------
(* Cancellation.                                                              *)

LEMMA SkipSame ==
  ASSUME SkipInv, UNCHANGED <<task, chunks, chunksAt, cancelled>>
  PROVE  SkipInv'
  BY DEF SkipInv

LEMMA SkipRow == ASSUME TypeOK, SkipInv, NEW r \in Rows, RowStep(r) PROVE SkipInv'
<1>1. chunksAt' = chunksAt /\ cancelled' = cancelled
  BY DEF RowStep, StartRow, RowUpToDate, RowFails, RowCompletes, RowEnds, RowBeginsStream,
         RowWritesChunk, RowPanics, RowChecks, RowCannotConnect
<1>2. \A q \in Rows : q # r => task'[q] = task[q] /\ chunks'[q] = chunks[q]
  BY DEF RowStep, StartRow, RowUpToDate, RowFails, RowCompletes, RowEnds, RowBeginsStream,
         RowWritesChunk, RowPanics, RowChecks, RowCannotConnect, TypeOK
<1>3. r \in cancelled =>
         \/ chunks'[r] = chunks[r] /\ (task'[r] = "ended" \/ task[r] \notin {"check", "ended"})
         \/ /\ chunks'[r] = chunks[r] + 1 /\ task[r] = "stream" /\ task'[r] \in {"check", "ended"}
  <2>1. CASE StartRow(r) \/ RowBeginsStream(r)
    BY <2>1 DEF StartRow, RowBeginsStream
  <2>2. CASE RowUpToDate(r) \/ RowFails(r) \/ RowCompletes(r) \/ RowCannotConnect(r)
    BY <2>2 DEF RowUpToDate, RowFails, RowCompletes, RowCannotConnect, RowEnds, TypeOK
  <2>3. CASE RowWritesChunk(r) \/ RowPanics(r)
    BY <2>3 DEF RowWritesChunk, RowPanics, TypeOK
  <2>4. CASE RowChecks(r)
    BY <2>4 DEF RowChecks, RowEnds, SeesCancel, TypeOK
  <2>5. QED
    BY <2>1, <2>2, <2>3, <2>4 DEF RowStep
<1>4. \A q \in cancelled : q \in Rows
  BY DEF TypeOK
<1>5. QED
  BY <1>1, <1>2, <1>3, <1>4 DEF SkipInv

LEMMA SkipTokens ==
  ASSUME TypeOK, SkipInv, NEW S \in SUBSET Rows, CancelTokens(S), UNCHANGED <<task, chunks>>
  PROVE  SkipInv'
<1> SUFFICES ASSUME NEW r \in cancelled'
             PROVE  \/ chunks[r] = chunksAt'[r]
                    \/ chunks[r] = chunksAt'[r] + 1 /\ task[r] \in {"check", "ended"}
  BY DEF SkipInv
<1>1. r \in Rows /\ (r \in cancelled \/ r \in S)
  BY DEF CancelTokens, TypeOK
<1>2. chunksAt'[r] = IF r \in S \ cancelled THEN chunks[r] ELSE chunksAt[r]
  BY <1>1 DEF CancelTokens
<1>3. QED
  BY <1>1, <1>2 DEF SkipInv

LEMMA SkipStep == TypeOK /\ SkipInv /\ [Next]_vars => SkipInv'
<1> SUFFICES ASSUME TypeOK, SkipInv, [Next]_vars PROVE SkipInv'
  OBVIOUS
<1>1. ASSUME NEW r \in Rows, RowStep(r) PROVE SkipInv'
  BY <1>1, SkipRow
<1>2. ASSUME NEW d \in Datasets, StartDataset(d) \/ EndDataset(d) PROVE SkipInv'
  BY <1>2, SkipSame DEF StartDataset, EndDataset
<1>3. CASE SendReturns \/ CountdownEnds \/ MainFails \/ MainJoins
  BY <1>3, SkipSame DEF SendReturns, CountdownEnds, MainFails, MainJoins, sendVars
<1>4. CASE DisplayStep \/ CountdownKey \/ KeyUpDown
  BY <1>4, SkipSame DEF DisplayStep, Receive, ReceiveClosed, SummaryEnds, CountdownKey, KeyUpDown,
                        sendVars
<1>5. CASE KeySkip
  <2>1. {focused} \in SUBSET Rows
    BY DEF TypeOK
  <2>2. QED
    BY <1>5, <2>1, SkipTokens DEF KeySkip
<1>6. CASE KeyQuit
  BY <1>6, SkipTokens DEF KeyQuit
<1>7. CASE Ended \/ UNCHANGED vars
  BY <1>7, SkipSame DEF Ended, vars, sendVars
<1>8. QED
  BY <1>1, <1>2, <1>3, <1>4, <1>5, <1>6, <1>7 DEF Next, MainStep, SendStep, KeyStep

\* write_stream looks at its CancellationToken after every chunk: a row whose
\* token was cancelled, at whatever moment, writes one more chunk at most.
THEOREM SkipStopsSoon == Spec => []SkipStopsTransfer
<1>1. Init => SkipInv
  BY DEF Init, SkipInv
<1>2. TypeOK /\ SkipInv => SkipStopsTransfer
  <2> SUFFICES ASSUME TypeOK, SkipInv, NEW r \in cancelled
               PROVE  chunks[r] <= chunksAt[r] + 1
    BY DEF SkipStopsTransfer
  <2>1. chunks[r] \in Nat /\ chunksAt[r] \in Nat
    BY RunAssumption DEF TypeOK
  <2>2. QED
    BY <2>1 DEF SkipInv
<1>3. QED
  BY <1>1, <1>2, SkipStep, SendRunTyped, PTL DEF Spec

-----------------------------------------------------------------------------
(* The last word.                                                             *)

LEMMA WordFacts ==
  \A o \in Worded :
     /\ Word(o) \in {"Completed", "Failed", "Skipped", "UpToDate"}
     /\ Sign(o) \in {"Done", "Failed", "Skipped", "UpToDate"}
     /\ \A now : Shows(Word(o), now) = Sign(o)
  BY DEF Worded, Word, Sign, Shows

\* An event that was neither lost nor ignored is on the channel.
LEMMA NoteWords ==
  ASSUME TypeOK, NEW r, NEW w, Note(r, w), ~lost', display # "gone"
  PROVE  ~lost /\ chan' = Append(chan, [row |-> r, what |-> w])
<1>1. Len(chan) \in Nat /\ ChanSize \in Nat
  BY LenProperties, RunAssumption DEF TypeOK
<1>2. ~(lost \/ Len(chan) >= ChanSize)
  BY Zenon DEF Note
<1>3. ~lost /\ Len(chan) < ChanSize
  BY <1>1, <1>2
<1>4. QED
  BY <1>3 DEF Note, TrySend

\* One row of WordInv.
Told(r) ==
  outcome[r] \in Worded =>
     \/ LastOf(chan, [row |-> r, what |-> Word(outcome[r])])
     \/ Silent(chan, r) /\ shown[r] = Sign(outcome[r])

\* The display stays, and so do the outcomes and what ended rows show.
LEMMA WordSame ==
  ASSUME WordInv, UNCHANGED <<outcome, chan, lost>>,
         display' # "gone" => display # "gone",
         \A r \in Rows : shown[r] \in {"Done", "Failed", "Skipped", "UpToDate"} => shown'[r] = shown[r]
  PROVE  WordInv'
<1> SUFFICES ASSUME ~lost', display' # "gone", NEW r \in Rows, outcome'[r] \in Worded
             PROVE  Told(r)'
  BY DEF WordInv, Told
<1>1. Told(r) /\ outcome[r] \in Worded
  BY DEF WordInv, Told
<1>2. Sign(outcome[r]) \in {"Done", "Failed", "Skipped", "UpToDate"}
  BY <1>1, WordFacts
<1>3. QED
  BY <1>1, <1>2 DEF Told

LEMMA WordRow ==
  ASSUME TypeOK, OutcomeInv, WordInv, NEW r \in Rows, RowStep(r)
  PROVE  WordInv'
<1> SUFFICES ASSUME ~lost', display' # "gone", NEW q \in Rows, outcome'[q] \in Worded
             PROVE  Told(q)'
  BY DEF WordInv, Told
<1>1. display' = display /\ shown' = shown
  BY DEF RowStep, StartRow, RowUpToDate, RowFails, RowCompletes, RowEnds, RowBeginsStream,
         RowWritesChunk, RowPanics, RowChecks, RowCannotConnect, tuiVars
<1>2. task[r] # "ended" /\ outcome[r] = "none"
      /\ (q # r => outcome'[q] = outcome[q])
  BY RowOutcome DEF OutcomeInv
<1>3. CASE chan' = chan /\ lost' = lost /\ q # r
  BY <1>1, <1>2, <1>3 DEF WordInv, Told
<1>4. ASSUME NEW w \in {"Started", "Progress", "Completed", "Failed", "Skipped", "UpToDate"},
             Note(r, w),
             q = r => w = Word(outcome'[r])
      PROVE  Told(q)'
  <2> DEFINE e == [row |-> r, what |-> w]
  <2>1. ~lost /\ chan' = Append(chan, e) /\ e \in Event /\ chan \in Seq(Event)
    BY <1>1, <1>4, NoteWords, RowFacts DEF TypeOK
  <2>2. CASE q = r
    BY <1>4, <2>1, <2>2, AppendWords DEF Told
  <2>3. CASE q # r
    <3> DEFINE f == [row |-> q, what |-> Word(outcome[q])]
    <3>1. Told(q) /\ outcome'[q] = outcome[q]
      BY <1>1, <1>2, <2>1, <2>3 DEF WordInv, Told
    <3>2. f \in Event /\ f.row # e.row /\ q # e.row
      BY <2>3, <3>1, WordFacts, RowFacts
    <3>3. LastOf(chan, f) => LastOf(chan', f)
      BY <2>1, <3>2, AppendWords
    <3>4. Silent(chan, q) => Silent(chan', q)
      BY <2>1, <3>2, AppendWords
    <3>5. QED
      BY <1>1, <3>1, <3>3, <3>4 DEF Told
  <2>4. QED
    BY <2>2, <2>3
<1>5. ASSUME NEW how \in Worded, RowEnds(r, how, Word(how)) PROVE Told(q)'
  <2>1. Note(r, Word(how)) /\ outcome'[r] = how
    BY <1>5 DEF RowEnds, TypeOK
  <2>2. Word(how) \in {"Completed", "Failed", "Skipped", "UpToDate"}
    BY WordFacts
  <2>3. QED
    BY <1>4, <2>1, <2>2
<1>6. /\ Word("uptodate") = "UpToDate" /\ Word("failed") = "Failed" /\ Word("sent") = "Completed"
      /\ Word("cancelled") = "Skipped"
      /\ {"uptodate", "failed", "sent", "cancelled"} \subseteq Worded
  BY DEF Word, Worded
<1>7. CASE RowUpToDate(r) \/ RowFails(r) \/ RowCompletes(r)
  BY <1>5, <1>6, <1>7 DEF RowUpToDate, RowFails, RowCompletes
<1>8. CASE RowBeginsStream(r) \/ RowWritesChunk(r)
  <2>1. outcome' = outcome /\ (Note(r, "Started") \/ Note(r, "Progress"))
    BY <1>8 DEF RowBeginsStream, RowWritesChunk
  <2>2. q # r
    BY <1>2, <2>1 DEF Worded
  <2>3. QED
    BY <1>4, <2>1, <2>2
<1>9. CASE StartRow(r) \/ RowPanics(r) \/ RowCannotConnect(r)
  <2>1. /\ chan' = chan /\ lost' = lost
        /\ outcome' = outcome \/ outcome'[r] \in {"panicked", "unconnected"}
    BY <1>9 DEF StartRow, RowPanics, RowCannotConnect, chanVars, TypeOK
  <2>2. QED
    BY <1>2, <1>3, <2>1 DEF Worded
<1>10. CASE RowChecks(r)
  <2>1. CASE RowEnds(r, "cancelled", "Skipped")
    BY <1>5, <1>6, <2>1
  <2>2. CASE chan' = chan /\ lost' = lost /\ outcome' = outcome
    BY <1>2, <1>3, <2>2 DEF Worded
  <2>3. QED
    BY <1>10, <2>1, <2>2 DEF RowChecks, chanVars
<1>11. QED
  BY <1>7, <1>8, <1>9, <1>10 DEF RowStep

\* Reading an event shows it; AllDone only touches rows that did not end.
LEMMA WordReceive == ASSUME TypeOK, WordInv, Receive PROVE WordInv'
<1> SUFFICES ASSUME ~lost', display' # "gone", NEW r \in Rows, outcome'[r] \in Worded
             PROVE  Told(r)'
  BY DEF WordInv, Told
<1> DEFINE o == outcome[r]
           f == [row |-> r, what |-> Word(o)]
           e == Head(chan)
<1>1. /\ outcome' = outcome /\ lost' = lost /\ chan' = Tail(chan) /\ chan # <<>>
      /\ display \in {"transferring", "summary"}
  BY DEF Receive, sendVars, Running
<1>2. Told(r) /\ o \in Worded
  BY <1>1 DEF WordInv, Told
<1>3. /\ Word(o) \in {"Completed", "Failed", "Skipped", "UpToDate"}
      /\ Sign(o) \in {"Done", "Failed", "Skipped", "UpToDate"}
      /\ \A now : Shows(Word(o), now) = Sign(o)
  BY <1>2, WordFacts
<1>4. f \in Event /\ f # Finished /\ f.row = r
  BY <1>3, RowFacts
<1>5. /\ e \in Event
      /\ LastOf(chan, f) => LastOf(chan', f) \/ (e = f /\ Silent(chan', r))
      /\ Silent(chan, r) => e.row # r /\ Silent(chan', r)
  BY <1>1, <1>4, TailWords DEF TypeOK
<1>6. CASE LastOf(chan', f)
  BY <1>1, <1>6 DEF Told
<1>7. CASE e = f /\ Silent(chan', r)
  <2>1. shown' = [shown EXCEPT ![r] = Shows(Word(o), shown[r])]
    BY <1>4, <1>7 DEF Receive
  <2>2. shown'[r] = Sign(o)
    BY <1>3, <2>1 DEF TypeOK
  <2>3. QED
    BY <1>1, <1>7, <2>2 DEF Told
<1>8. CASE e.row # r /\ Silent(chan', r) /\ shown[r] = Sign(o)
  <2>1. CASE e = Finished
    BY <1>1, <1>3, <1>8, <2>1 DEF Receive, AllDone, Told
  <2>2. CASE e # Finished
    <3>1. shown' = [shown EXCEPT ![e.row] = Shows(e.what, shown[e.row])]
      BY <2>2 DEF Receive
    <3>2. shown'[r] = shown[r]
      BY <1>8, <3>1 DEF TypeOK
    <3>3. QED
      BY <1>1, <1>8, <3>2 DEF Told
  <2>3. QED
    BY <2>1, <2>2
<1>9. QED
  BY <1>2, <1>5, <1>6, <1>7, <1>8 DEF Told

LEMMA WordStep == TypeOK /\ OutcomeInv /\ WordInv /\ [Next]_vars => WordInv'
<1> SUFFICES ASSUME TypeOK, OutcomeInv, WordInv, [Next]_vars PROVE WordInv'
  OBVIOUS
<1>1. ASSUME NEW r \in Rows, RowStep(r) PROVE WordInv'
  BY <1>1, WordRow
<1>2. ASSUME NEW d \in Datasets, StartDataset(d) \/ EndDataset(d) PROVE WordInv'
  BY <1>2, WordSame DEF StartDataset, EndDataset, chanVars, tuiVars
<1>3. CASE SendReturns
  <2> SUFFICES ASSUME ~lost', display' # "gone", NEW r \in Rows, outcome'[r] \in Worded
               PROVE  Told(r)'
    BY DEF WordInv, Told
  <2>1. UNCHANGED <<outcome, lost, display, shown>> /\ chan' \in {chan, Append(chan, Finished)}
    BY <1>3 DEF SendReturns, TrySend, sendVars, tuiVars
  <2>2. Told(r) /\ outcome[r] \in Worded
    BY <2>1 DEF WordInv, Told
  <2> DEFINE f == [row |-> r, what |-> Word(outcome[r])]
  <2>3. f \in Event /\ f.row = r /\ r # Finished.row /\ Finished \in Event /\ chan \in Seq(Event)
    BY <2>2, WordFacts, RowFacts DEF TypeOK
  <2>4. LastOf(chan, f) => LastOf(chan', f)
    BY <2>1, <2>3, AppendWords
  <2>5. Silent(chan, r) => Silent(chan', r)
    BY <2>1, <2>3, AppendWords
  <2>6. QED
    BY <2>1, <2>2, <2>4, <2>5 DEF Told
<1>4. CASE CountdownEnds
  BY <1>4 DEF CountdownEnds, OutcomeInv, WordInv, Worded, sendVars
<1>5. CASE MainFails \/ MainJoins \/ CountdownKey \/ KeyUpDown
  BY <1>5, WordSame DEF MainFails, MainJoins, CountdownKey, KeyUpDown, sendVars, chanVars, tuiVars
<1>6. CASE Receive
  BY <1>6, WordReceive
<1>7. CASE ReceiveClosed
  BY <1>7, WordSame DEF ReceiveClosed, Running, AllDone, sendVars, chanVars
<1>8. CASE SummaryEnds
  BY <1>8, WordSame DEF SummaryEnds, Running, sendVars, chanVars
<1>9. CASE KeySkip \/ KeyQuit
  BY <1>9, WordSame DEF KeySkip, KeyQuit, SkipActive, Running, chanVars
<1>10. CASE Ended \/ UNCHANGED vars
  BY <1>10, WordSame DEF Ended, vars, sendVars, chanVars, tuiVars
<1>11. QED
  BY <1>1, <1>2, <1>3, <1>4, <1>5, <1>6, <1>7, <1>8, <1>9, <1>10
     DEF Next, MainStep, SendStep, DisplayStep, KeyStep

\* Before its stream a row sends no event, and the one that ends it is its first
\* or comes after Started.
LEMMA UntoldRow ==
  ASSUME TypeOK, OutcomeInv, UntoldInv, NEW r \in Rows, RowStep(r)
  PROVE  UntoldInv'
<1> SUFFICES ASSUME display' # "gone", NEW q \in Rows, Untold(q)'
             PROVE  (Silent(chan, q) /\ shown[q] \in {"Waiting", "Skipped"})'
  BY DEF UntoldInv
<1>1. display' = display /\ shown' = shown
  BY DEF RowStep, StartRow, RowUpToDate, RowFails, RowCompletes, RowEnds, RowBeginsStream,
         RowWritesChunk, RowPanics, RowChecks, RowCannotConnect, tuiVars
<1>2. CASE StartRow(r) \/ RowCannotConnect(r)
  <2>1. chan' = chan /\ Untold(q)
    BY <1>2 DEF StartRow, RowCannotConnect, Untold, TypeOK, chanVars
  <2>2. QED
    BY <1>1, <2>1 DEF UntoldInv, Silent
<1>3. CASE ~StartRow(r) /\ ~RowCannotConnect(r)
  <2>1. q # r /\ task'[q] = task[q] /\ outcome'[q] = outcome[q]
    <3>1. outcome[r] = "none" /\ (q # r => task'[q] = task[q] /\ outcome'[q] = outcome[q])
      BY RowOutcome DEF OutcomeInv
    <3>2. task'[r] \notin {"new", "running"} /\ outcome'[r] # "unconnected"
      <4>1. CASE RowUpToDate(r) \/ RowFails(r) \/ RowCompletes(r)
        BY <4>1 DEF RowUpToDate, RowFails, RowCompletes, RowEnds, TypeOK
      <4>2. CASE RowBeginsStream(r) \/ RowWritesChunk(r) \/ RowPanics(r)
        BY <3>1, <4>2 DEF RowBeginsStream, RowWritesChunk, RowPanics, TypeOK
      <4>3. CASE RowChecks(r)
        BY <3>1, <4>3 DEF RowChecks, RowEnds, TypeOK
      <4>4. QED
        BY <1>3, <4>1, <4>2, <4>3 DEF RowStep
    <3>3. QED
      BY <3>1, <3>2 DEF Untold
  <2>2. Silent(chan, q) /\ shown[q] \in {"Waiting", "Skipped"}
    BY <1>1, <2>1 DEF UntoldInv, Untold
  <2>3. chan' = chan \/ \E w \in {"Started", "Progress", "Completed", "Failed", "Skipped", "UpToDate"} :
                            chan' = TrySend([row |-> r, what |-> w])
    <3>1. CASE RowUpToDate(r) \/ RowFails(r) \/ RowCompletes(r)
      BY <3>1 DEF RowUpToDate, RowFails, RowCompletes, RowEnds, Note
    <3>2. CASE RowBeginsStream(r) \/ RowWritesChunk(r) \/ RowPanics(r)
      BY <3>2 DEF RowBeginsStream, RowWritesChunk, RowPanics, Note, chanVars
    <3>3. CASE RowChecks(r)
      BY <3>3 DEF RowChecks, RowEnds, Note, chanVars
    <3>4. QED
      BY <1>3, <3>1, <3>2, <3>3 DEF RowStep
  <2>4. ASSUME NEW w \in {"Started", "Progress", "Completed", "Failed", "Skipped", "UpToDate"},
               chan' = TrySend([row |-> r, what |-> w])
        PROVE  Silent(chan', q)
    <3> DEFINE e == [row |-> r, what |-> w]
    <3>1. e \in Event /\ e.row # q /\ chan \in Seq(Event)
      BY <2>1, RowFacts DEF TypeOK
    <3>2. Silent(Append(chan, e), q)
      BY <2>2, <3>1, AppendWords
    <3>3. QED
      BY <2>2, <2>4, <3>2 DEF TrySend
  <2>5. QED
    BY <1>1, <2>2, <2>3, <2>4
<1>4. QED
  BY <1>2, <1>3

LEMMA CountdownStep == CountdownInv /\ [Next]_vars => CountdownInv'
<1> SUFFICES ASSUME CountdownInv, [Next]_vars, main' = "countdown" PROVE display' = "off"
  BY DEF CountdownInv
<1>1. CASE MainStep
  BY <1>1 DEF MainStep, SendStep, CountdownEnds, MainFails, MainJoins, SendReturns, StartDataset,
              EndDataset, RowStep, StartRow, RowUpToDate, RowFails, RowCompletes, RowEnds,
              RowBeginsStream, RowWritesChunk, RowPanics, RowChecks, RowCannotConnect
<1>2. CASE DisplayStep \/ KeyStep
  BY <1>2 DEF CountdownInv, DisplayStep, KeyStep, Running, Receive, ReceiveClosed, SummaryEnds,
              CountdownKey, KeySkip, KeyQuit, KeyUpDown
<1>3. CASE Ended \/ UNCHANGED vars
  BY <1>3 DEF CountdownInv, Ended, vars, tuiVars
<1>4. QED
  BY <1>1, <1>2, <1>3 DEF Next

LEMMA UntoldStep ==
  TypeOK /\ OutcomeInv /\ CountdownInv /\ UntoldInv /\ [Next]_vars => UntoldInv'
<1> SUFFICES ASSUME TypeOK, OutcomeInv, CountdownInv, UntoldInv, [Next]_vars PROVE UntoldInv'
  OBVIOUS
<1>1. ASSUME NEW r \in Rows, RowStep(r) PROVE UntoldInv'
  BY <1>1, UntoldRow
<1>2. ASSUME UNCHANGED <<task, outcome>>,
             display' # "gone" => display # "gone",
             display' # "gone" => \A r \in Rows : Silent(chan, r) => Silent(chan', r),
             display' # "gone" => \A r \in Rows :
                /\ Silent(chan, r) /\ shown[r] \in {"Waiting", "Skipped"}
                => shown'[r] \in {"Waiting", "Skipped"}
      PROVE  UntoldInv'
  BY <1>2 DEF UntoldInv, Untold
<1>3. ASSUME NEW d \in Datasets, StartDataset(d) \/ EndDataset(d) PROVE UntoldInv'
  BY <1>2, <1>3 DEF StartDataset, EndDataset, chanVars, tuiVars
<1>4. CASE SendReturns
  <2>1. UNCHANGED <<task, outcome, display, shown>> /\ chan' \in {chan, Append(chan, Finished)}
    BY <1>4 DEF SendReturns, TrySend, sendVars, tuiVars
  <2>2. \A r \in Rows : Silent(chan, r) => Silent(chan', r)
    BY <2>1, RowFacts, AppendWords DEF TypeOK
  <2>3. QED
    BY <1>2, <2>1, <2>2
<1>5. CASE CountdownEnds \/ MainFails \/ MainJoins \/ CountdownKey \/ KeyUpDown
  <2>1. UNCHANGED <<task, outcome, chan, shown>>
    BY <1>5 DEF CountdownEnds, MainFails, MainJoins, CountdownKey, KeyUpDown, sendVars, chanVars, tuiVars
  <2>2. display' # "gone" => display # "gone"
    BY <1>5, <2>1 DEF CountdownEnds, MainFails, MainJoins, CountdownKey, KeyUpDown, tuiVars,
                      CountdownInv
  <2>3. QED
    BY <1>2, <2>1, <2>2
<1>6. CASE Receive
  <2>1. /\ UNCHANGED <<task, outcome>> /\ chan' = Tail(chan) /\ chan # <<>>
        /\ display \in {"transferring", "summary"} /\ chan \in Seq(Event)
    BY <1>6 DEF Receive, sendVars, Running, TypeOK
  <2>2. \A r \in Rows : Silent(chan, r) => Head(chan).row # r /\ Silent(chan', r)
    BY <2>1, TailWords
  <2>3. display' # "gone" => \A r \in Rows : Silent(chan, r) => shown'[r] = shown[r]
    <3>1. CASE Head(chan) = Finished
      BY <1>6, <3>1 DEF Receive, AllDone, TypeOK
    <3>2. CASE Head(chan) # Finished
      BY <1>6, <2>2, <3>2 DEF Receive, TypeOK
    <3>3. QED
      BY <3>1, <3>2
  <2>4. QED
    BY <1>2, <2>1, <2>2, <2>3
<1>7. CASE ReceiveClosed
  <2>1. UNCHANGED <<task, outcome, chan>> /\ display \in {"transferring", "summary"}
    BY <1>7 DEF ReceiveClosed, Running, sendVars, chanVars
  <2>2. display' # "gone" => \A r \in Rows : shown'[r] = shown[r]
    BY <1>7 DEF ReceiveClosed, AllDone
  <2>3. QED
    BY <1>2, <2>1, <2>2
<1>8. CASE SummaryEnds
  BY <1>8 DEF SummaryEnds, UntoldInv
<1>9. CASE KeySkip \/ KeyQuit
  BY <1>2, <1>9 DEF KeySkip, KeyQuit, SkipActive, Running, chanVars
<1>10. CASE Ended \/ UNCHANGED vars
  BY <1>2, <1>10 DEF Ended, vars, sendVars, chanVars, tuiVars
<1>11. QED
  BY <1>1, <1>3, <1>4, <1>5, <1>6, <1>7, <1>8, <1>9, <1>10
     DEF Next, MainStep, SendStep, DisplayStep, KeyStep

\* When every SendEvent was read and none was lost to a full channel, the
\* display says of each row what became of it: handle_send_event overrides
\* what the Skip and Quit keys marked, for any number of rows.  Only a row that
\* failed to connect is left waiting, or skipped, since it sent no event.
THEOREM DisplayHasLastWord == Spec => []LastWordShown
<1>1. Init => OutcomeInv /\ WordInv /\ CountdownInv /\ UntoldInv
  <2>1. Init => \A r \in Rows : Silent(chan, r) /\ shown[r] = "Waiting"
    BY EmptySeq DEF Init, Silent
  <2>2. QED
    BY <2>1 DEF Init, OutcomeInv, WordInv, CountdownInv, UntoldInv, Worded
<1>2. TypeOK /\ WordInv /\ UntoldInv => LastWordShown
  <2> SUFFICES ASSUME TypeOK, WordInv, UntoldInv, Running, chan = <<>>, ~lost, NEW r \in Rows
               PROVE  /\ outcome[r] \in Worded => shown[r] = Sign(outcome[r])
                      /\ outcome[r] = "unconnected" => shown[r] \in {"Waiting", "Skipped"}
    BY DEF LastWordShown, Worded, Word, Sign
  <2>1. Len(chan) = 0 /\ display # "gone"
    BY DEF Running
  <2>2. ~LastOf(chan, [row |-> r, what |-> Word(outcome[r])])
    BY <2>1 DEF LastOf
  <2>3. QED
    BY <2>1, <2>2 DEF WordInv, UntoldInv, Untold
<1>3. QED
  BY <1>1, <1>2, OutcomeStep, WordStep, CountdownStep, UntoldStep, SendRunTyped, PTL DEF Spec
=============================================================================
