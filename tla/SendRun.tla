------------------------------- MODULE SendRun -------------------------------
(***************************************************************************)
(* One run of `zrb send`: main, the tasks of ops::send (one per dataset,   *)
(* and under it one per Remote), the bounded channel their SendEvents go   *)
(* through, and the display that reads it: the full-screen TUI, inline     *)
(* bars, or plain lines.                                                   *)
(*                                                                         *)
(* A row is one dataset sent to one Remote; rows are numbered in the order *)
(* the TUI shows them.  What a transfer does to the datasets is module     *)
(* Backup, how it moves bytes module StreamCodec; here it is a few chunks  *)
(* and an outcome.                                                         *)
(***************************************************************************)
EXTENDS Naturals, Sequences

CONSTANTS NumRows,    \* the rows of this run
          DatasetOf,  \* the dataset of each row
          Modes,      \* displays to consider: "tui", "inline", "plain"
          Orders,     \* values of --sequential to consider
          Limits,     \* values of bandwidth_limit to consider: row -> what the
                      \* config says of its Remote, a Written or NoLimit
          ChanSize,   \* capacity of the SendEvent channel
          MaxChunks   \* bound on the length of a stream

Rows     == 1..NumRows
Datasets == {DatasetOf[r] : r \in Rows}

\* A bandwidth string: its number in tenths, its SI prefix, and whether its unit
\* ends in "bit".
Written == [tenths : Nat, scale : {1, 1000, 1000000, 1000000000}, bits : BOOLEAN]
NoLimit == [tenths |-> 0, scale |-> 0, bits |-> FALSE]

ASSUME RowsAssumption == /\ NumRows \in Nat \ {0}
                         /\ DOMAIN DatasetOf = Rows
                         /\ Limits \subseteq [Rows -> Written \cup {NoLimit}]
ASSUME RunAssumption == /\ Modes \subseteq {"tui", "inline", "plain"}
                        /\ Orders \subseteq BOOLEAN
                        /\ ChanSize \in Nat \ {0}
                        /\ MaxChunks \in Nat

VARIABLES
  mode, sequential,  \* the command line
  limit,             \* row -> the bandwidth_limit of its Remote
  main,              \* control state of run()
  ds,                \* dataset -> control state of send_one_dataset
  task,              \* row -> control state of send_to_remote
  outcome,           \* row -> what became of it
  chunks,            \* row -> chunks written
  cancelled,         \* rows whose CancellationToken is cancelled
  chan, closed,      \* the SendEvents on their way; the Sender was dropped
  display,           \* control state of the display task
  shown,             \* row -> what the display shows of it
  focused,           \* the row the Skip key is about
  (* history variables: no action reads them *)
  lost,              \* a full channel has swallowed an event of a row
  chunksAt           \* row -> chunks written when it was cancelled

runVars  == <<mode, sequential, limit>>
sendVars == <<ds, task, outcome, chunks, chunksAt>>
chanVars == <<chan, closed, lost>>
tuiVars  == <<display, shown, focused>>
vars == <<runVars, main, sendVars, cancelled, chanVars, tuiVars>>

Finished == [row |-> 0, what |-> "AllDone"]
Event == [row : Rows, what : {"Started", "Progress", "Completed", "Failed",
                              "Skipped", "UpToDate"}] \cup {Finished}
Shown == {"Waiting", "Active", "Done", "Failed", "Skipped", "UpToDate",
          "NotReached"}

TypeOK ==
  /\ mode \in Modes /\ sequential \in Orders /\ limit \in Limits
  /\ main \in {"countdown", "send", "failing", "join", "aborted", "exit0", "exit1"}
  /\ ds \in [Datasets -> {"new", "running", "ok", "failed"}]
  /\ task \in [Rows -> {"new", "running", "stream", "check", "status", "ended"}]
  /\ outcome \in [Rows -> {"none", "sent", "uptodate", "failed", "unconnected",
                           "cancelled", "panicked"}]
  /\ chunks \in [Rows -> 0..MaxChunks] /\ chunksAt \in [Rows -> 0..MaxChunks]
  /\ cancelled \subseteq Rows
  /\ chan \in Seq(Event) /\ Len(chan) <= ChanSize
  /\ closed \in BOOLEAN /\ lost \in BOOLEAN
  /\ display \in {"off", "transferring", "summary", "gone"}
  /\ shown \in [Rows -> Shown]
  /\ focused \in Rows

Init ==
  /\ mode \in Modes /\ sequential \in Orders /\ limit \in Limits
  /\ main = IF mode = "tui" THEN "countdown" ELSE "send"
  /\ display = IF mode = "tui" THEN "off" ELSE "transferring"
  /\ ds = [d \in Datasets |-> "new"]
  /\ task = [r \in Rows |-> "new"]
  /\ outcome = [r \in Rows |-> "none"]
  /\ chunks = [r \in Rows |-> 0] /\ chunksAt = [r \in Rows |-> 0]
  /\ cancelled = {}
  /\ chan = <<>> /\ closed = FALSE /\ lost = FALSE
  /\ shown = [r \in Rows |-> "Waiting"]
  /\ focused = 1

-----------------------------------------------------------------------------
(* run_countdown: five seconds in which any key calls the backup off.      *)

CountdownEnds ==
  /\ main = "countdown"
  /\ main' = "send"
  /\ display' = "transferring"
  /\ UNCHANGED <<runVars, sendVars, cancelled, chanVars, shown, focused>>

CountdownKey ==
  /\ main = "countdown"
  /\ main' = "aborted"
  /\ UNCHANGED <<runVars, sendVars, cancelled, chanVars, tuiVars>>

-----------------------------------------------------------------------------
(* ops::send.                                                              *)

WithoutLimit(e) == Append(chan, e) \* mutant: the channel is unbounded

\* ChannelProgress: try_send, so what finds the channel full, or nobody
\* listening any more, is dropped.
TrySend(e) ==
  IF Len(chan) < ChanSize /\ display # "gone" THEN Append(chan, e) ELSE chan

Note(r, what) ==
  /\ chan' = TrySend([row |-> r, what |-> what])
  /\ lost' = (lost \/ Len(chan) >= ChanSize)
  /\ UNCHANGED closed

\* send_one_dataset lists the Snapshots; datasets go in parallel or in turn.
StartDataset(d) ==
  /\ main = "send" /\ ds[d] = "new"
  /\ sequential => \A e \in Datasets : ds[e] # "running"
  /\ \E found \in {"running", "failed"} : ds' = [ds EXCEPT ![d] = found]
  /\ UNCHANGED <<runVars, main, task, outcome, chunks, chunksAt,
                 cancelled, chanVars, tuiVars>>

\* dispatch_tasks spawns the row, or runs it in turn.
StartRow(r) ==
  /\ main = "send" /\ ds[DatasetOf[r]] = "running" /\ task[r] = "new"
  /\ sequential => \A q \in Rows : task[q] \in {"new", "ended"}
  /\ task' = [task EXCEPT ![r] = "running"]
  /\ UNCHANGED <<runVars, main, ds, outcome, chunks, chunksAt, cancelled,
                 chanVars, tuiVars>>

\* ssh cannot be started: send_to_remote returns at its first `?`, and nobody
\* tells the display.
RowCannotConnect(r) ==
  /\ main = "send" /\ task[r] = "running"
  /\ task' = [task EXCEPT ![r] = "ended"]
  /\ outcome' = [outcome EXCEPT ![r] = "unconnected"]
  /\ UNCHANGED <<runVars, main, ds, chunks, chunksAt, cancelled, chanVars, tuiVars>>

\* Once connected, send_to_remote tells the display how it ended and returns.
RowEnds(r, how, what) ==
  /\ main = "send"
  /\ task' = [task EXCEPT ![r] = "ended"]
  /\ outcome' = [outcome EXCEPT ![r] = how]
  /\ Note(r, what)
  /\ UNCHANGED <<runVars, main, ds, chunks, chunksAt, cancelled, tuiVars>>

RowUpToDate(r) == task[r] = "running" /\ RowEnds(r, "uptodate", "UpToDate")

RowFails(r) == task[r] \in {"running", "stream", "status"}
               /\ RowEnds(r, "failed", "Failed")

RowCompletes(r) == task[r] = "status" /\ RowEnds(r, "sent", "Completed")

RowBeginsStream(r) ==
  /\ main = "send" /\ task[r] = "running"
  /\ task' = [task EXCEPT ![r] = "stream"]
  /\ Note(r, "Started")
  /\ UNCHANGED <<runVars, main, ds, outcome, chunks, chunksAt, cancelled,
                 tuiVars>>

\* Bytes per second, cut off to an integer.
parse_bandwidth(w) == (w.tenths * w.scale) \div (IF w.bits THEN 80 ELSE 10)

\* The throttle divides by a limit of 0.
Stalls(r) == limit[r] # NoLimit /\ parse_bandwidth(limit[r]) = 0

RowWritesChunk(r) ==
  /\ main = "send" /\ task[r] = "stream" /\ chunks[r] < MaxChunks
  /\ ~Stalls(r)
  /\ task' = [task EXCEPT ![r] = "check"]
  /\ chunks' = [chunks EXCEPT ![r] = @ + 1]
  /\ Note(r, "Progress")
  /\ UNCHANGED <<runVars, main, ds, outcome, chunksAt, cancelled, tuiVars>>

\* The infinite Duration makes it panic.  A spawned task takes nobody with it;
\* in turn, the panic is main's.
RowPanics(r) ==
  /\ main = "send" /\ task[r] = "stream" /\ chunks[r] < MaxChunks
  /\ Stalls(r)
  /\ task' = [task EXCEPT ![r] = "ended"]
  /\ outcome' = [outcome EXCEPT ![r] = "panicked"]
  /\ chunks' = [chunks EXCEPT ![r] = @ + 1]
  /\ main' = IF sequential THEN "exit1" ELSE main
  /\ UNCHANGED <<runVars, ds, chunksAt, cancelled, chanVars, tuiVars>>

SeesCancelAtEnd(r, last) == last /\ r \in cancelled \* mutant: only the end of the stream looks

\* After a chunk, the last one included, write_stream looks at the token.
SeesCancel(r, last) == r \in cancelled

RowChecks(r) ==
  /\ main = "send" /\ task[r] = "check"
  /\ \E last \in BOOLEAN :
        \/ SeesCancel(r, last) /\ RowEnds(r, "cancelled", "Skipped")
        \/ /\ ~SeesCancel(r, last)
           /\ chunks[r] = MaxChunks => last
           /\ task' = [task EXCEPT ![r] = IF last THEN "status" ELSE "stream"]
           /\ UNCHANGED <<runVars, main, ds, outcome, chunks, chunksAt,
                          cancelled, chanVars, tuiVars>>

RowFailedIgnored(r) == FALSE \* mutant: only the dataset's own errors count

\* A cancelled row is no failure; a task that panicked is not looked at.
RowFailed(r) == outcome[r] \in {"failed", "unconnected"}

EndDataset(d) ==
  /\ main = "send" /\ ds[d] = "running"
  /\ \A r \in Rows : DatasetOf[r] = d => task[r] = "ended"
  /\ ds' = [ds EXCEPT ![d] = IF \E r \in Rows : DatasetOf[r] = d /\ RowFailed(r)
                             THEN "failed" ELSE "ok"]
  /\ UNCHANGED <<runVars, main, task, outcome, chunks, chunksAt, cancelled,
                 chanVars, tuiVars>>

\* All datasets are joined: AllDone, and the Sender is dropped on return.
SendReturns ==
  /\ main = "send" /\ \A d \in Datasets : ds[d] \in {"ok", "failed"}
  /\ main' = IF \E d \in Datasets : ds[d] = "failed" THEN "failing" ELSE "join"
  /\ chan' = TrySend(Finished)
  /\ closed' = TRUE
  /\ UNCHANGED <<runVars, sendVars, cancelled, lost, tuiVars>>

\* An Err of send leaves run() at once, with the display task where it is.
MainFails ==
  /\ main = "failing"
  /\ main' = "exit1"
  /\ UNCHANGED <<runVars, sendVars, cancelled, chanVars, tuiVars>>

MainJoins ==
  /\ main = "join" /\ display = "gone"
  /\ main' = "exit0"
  /\ UNCHANGED <<runVars, sendVars, cancelled, chanVars, tuiVars>>

-----------------------------------------------------------------------------
(* The display.                                                            *)

Running == main \in {"send", "failing", "join"} /\ display \in {"transferring", "summary"}

ShowsIfNotSkipped(what, now) == \* mutant: what the user skipped stays skipped
  IF now = "Skipped" THEN now
  ELSE CASE what = "Started"   -> "Active"
         [] what = "Completed" -> "Done"
         [] what = "Progress"  -> now
         [] OTHER              -> what

\* handle_send_event for one row: the state before does not matter.
Shows(what, now) ==
  CASE what = "Started"   -> "Active"
    [] what = "Completed" -> "Done"
    [] what = "Progress"  -> now
    [] OTHER              -> what

\* AllDone: the TUI goes from the transfer to its summary; the others end, the
\* inline bars after marking the rows that never finished.
AllDone ==
  /\ display' = IF mode = "tui" THEN "summary" ELSE "gone"
  /\ shown' = [r \in Rows |->
                 IF mode = "inline" /\ shown[r] \in {"Waiting", "Active"}
                 THEN "NotReached" ELSE shown[r]]

Receive ==
  /\ Running /\ chan # <<>>
  /\ chan' = Tail(chan)
  /\ LET e == Head(chan) IN
       IF e = Finished
       THEN AllDone
       ELSE /\ shown' = [shown EXCEPT ![e.row] = Shows(e.what, @)]
            /\ UNCHANGED display
  /\ UNCHANGED <<runVars, main, sendVars, cancelled, closed, lost, focused>>

ReceiveClosedAgain == \* mutant: only AllDone ends the display
  /\ Running /\ display = "transferring" /\ closed /\ chan = <<>>
  /\ UNCHANGED vars

\* rx.recv() returns None, which is as good as AllDone.
ReceiveClosed ==
  /\ Running /\ display = "transferring" /\ closed /\ chan = <<>>
  /\ AllDone
  /\ UNCHANGED <<runVars, main, sendVars, cancelled, chanVars, focused>>

\* The rows a key marks as skipped, whatever their tasks are doing.
SkipActive(S) ==
  shown' = [r \in Rows |-> IF r \in S /\ shown[r] \in {"Waiting", "Active"}
                           THEN "Skipped" ELSE shown[r]]

CancelTokens(S) ==
  /\ cancelled' = cancelled \cup S
  /\ chunksAt' = [r \in Rows |-> IF r \in S \ cancelled THEN chunks[r] ELSE chunksAt[r]]

\* The Skip key with several rows: the focused one, unless it is through.
KeySkip ==
  /\ Running /\ mode = "tui" /\ display = "transferring" /\ NumRows > 1
  /\ shown[focused] \in {"Waiting", "Active"}
  /\ CancelTokens({focused}) /\ SkipActive({focused})
  /\ UNCHANGED <<runVars, main, ds, task, outcome, chunks, chanVars,
                 display, focused>>

\* The Quit key, or the Skip key with one row.
KeyQuit ==
  /\ Running /\ mode = "tui" /\ display = "transferring"
  /\ CancelTokens(Rows) /\ SkipActive(Rows)
  /\ display' = "summary"
  /\ UNCHANGED <<runVars, main, ds, task, outcome, chunks, chanVars,
                 focused>>

KeyUpDown ==
  /\ Running /\ mode = "tui" /\ display = "transferring"
  /\ focused' \in {focused - 1, focused + 1} \cap Rows
  /\ UNCHANGED <<runVars, main, sendVars, cancelled, chanVars, display,
                 shown>>

\* The summary's countdown ends or a key is pressed: run_transfer restores the
\* terminal, replays the log and returns.
SummaryEnds ==
  /\ Running /\ display = "summary"
  /\ display' = "gone"
  /\ UNCHANGED <<runVars, main, sendVars, cancelled, chanVars, shown,
                 focused>>

Ended == main \in {"aborted", "exit0", "exit1"} /\ UNCHANGED vars

-----------------------------------------------------------------------------
RowStep(r) ==
  \/ StartRow(r) \/ RowCannotConnect(r) \/ RowUpToDate(r) \/ RowFails(r)
  \/ RowBeginsStream(r) \/ RowWritesChunk(r) \/ RowPanics(r) \/ RowChecks(r) \/ RowCompletes(r)

SendStep == \/ \E d \in Datasets : StartDataset(d) \/ EndDataset(d)
            \/ \E r \in Rows : RowStep(r)
            \/ SendReturns

MainStep    == CountdownEnds \/ SendStep \/ MainFails \/ MainJoins
DisplayStep == Receive \/ ReceiveClosed \/ SummaryEnds
KeyStep     == CountdownKey \/ KeySkip \/ KeyQuit \/ KeyUpDown

Next == MainStep \/ DisplayStep \/ KeyStep \/ Ended

Spec == Init /\ [][Next]_vars

\* main, the tasks and the display run; nobody has to press a key.
FairSpec == Spec /\ WF_vars(MainStep) /\ WF_vars(DisplayStep)

-----------------------------------------------------------------------------
(* Properties.                                                             *)

\* A row whose send_to_remote returned an error, or panicked with --sequential,
\* is in the exit status: after status 0 every other row was sent, was up to
\* date or was cancelled by the user, however tasks, failures and keys
\* interleaved.  A task that panics beside others is FailureExitsNonZero's.
ErrorExitsNonZero ==
  main = "exit0" => \A r \in Rows : \/ outcome[r] \in {"sent", "uptodate", "cancelled"}
                                    \/ outcome[r] = "panicked" /\ ~sequential

\* What the display shows of a row once all its events are read is what became
\* of it, whatever the user skipped meanwhile, unless a full channel swallowed
\* some (ChannelProgress uses try_send).  Of a row that failed to connect it has
\* heard nothing: that one still waits, or is what a key made of it.
LastWordShown ==
  (Running /\ closed /\ chan = <<>> /\ ~lost) =>
     \A r \in Rows :
        /\ outcome[r] = "sent"        => shown[r] = "Done"
        /\ outcome[r] = "uptodate"    => shown[r] = "UpToDate"
        /\ outcome[r] = "failed"      => shown[r] = "Failed"
        /\ outcome[r] = "cancelled"   => shown[r] = "Skipped"
        /\ outcome[r] = "unconnected" => shown[r] \in {"Waiting", "Skipped"}

\* A row the user skipped or quit sends at most one more chunk.
SkipStopsTransfer ==
  \A r \in cancelled : chunks[r] <= chunksAt[r] + 1

\* The run ends without a key being pressed, also when AllDone found the
\* channel full: the dropped Sender ends the display.
RunEnds == <>(main \in {"aborted", "exit0", "exit1"})

-----------------------------------------------------------------------------
(* What the documentation says and the code does not do.                   *)

\* CONTEXT.md, of zrb send: "the command exits non-zero if any dataset
\* failed".
FailureExitsNonZero ==
  main = "exit0" => \A r \in Rows : outcome[r] \in {"sent", "uptodate", "cancelled"}

\* tui.rs: while the alternate screen is active, log records "are buffered and
\* replayed to the restored terminal on exit".
TerminalRestored ==
  mode = "tui" /\ main \in {"exit0", "exit1"} => display = "gone"
=============================================================================
