# A TLA+ model of zrb

zrb replicates ZFS snapshots from a source host to one or more Remotes over
SSH, and prunes them on both sides. This directory holds TLA+ modules for the
parts of it that carry its guarantees, TLC configurations for small instances,
and TLAPS proofs of the most important properties for instances of any size.
Paths below are relative to the repository root.

    tlc -config MCBackupOneSender.cfg MCBackup  # any run of PROJECT.json
    tlapm BackupHolds.tla                       # any module with theorems

## 1. Inventory

| Component | Code | State | Operations | Talks to |
|---|---|---|---|---|
| Send session, client | `src/ops/send.rs` | listed Snapshots, ServerHello, TransferDecision, source holds `zrb:<remote>` | list, decide, send, wait for status, place and release hold | server over SSH; ZFS on the source |
| Server session | `src/ops/server.rs` | target dataset: Snapshots, `zrb:received` hold, resume token, `zrb:resume-since` | answer handshake, `zfs receive`, annotate, move hold, report status | client over SSH; ZFS on the target |
| Handshake | `src/protocol/handshake.rs` | none | ClientHello, ServerHello, ClientReady, ServerStatus, rejections | both sessions |
| Stream codec | `src/protocol/codec.rs` | two chunk buffers, the bytes in flight | `write_stream`, `read_stream_with_cancel`, throttle | `zfs send`, the connection, `zfs receive` |
| Snapshot | `src/ops/snapshot.rs`, `src/snapshot/naming.rs`, `src/ops/list.rs` | Snapshots, named by their second | create, list | ZFS |
| Prune | `src/ops/prune.rs` | the candidate list | look at the token, expire or abort it, list, filter held ones, destroy | ZFS, beside sends |
| Retention policy | `src/retention/policy.rs` | seen weeks, months, years | `apply` | called by prune |
| Send dispatch | `src/ops/send.rs`, `src/main.rs` | one task per dataset, one per Remote under it | spawn, collect, exit status | sessions, event channel |
| Progress, displays | `src/progress.rs`, `src/tui.rs` | bounded channel, rows, cancellation tokens, terminal, buffered log | events, keys, skip, quit, summary | sessions through channel and tokens |
| ZFS client | `src/zfs/` | none of its own | one command line per operation | `zfs(8)` |
| SSH transport | `src/ssh/transport.rs` | the child process | spawn, streams | both sessions |
| Command line | `src/main.rs` | the loop over datasets, what failed | version check, arguments, snapshot, list, prune, send, server | config, ZFS, timers |
| Configuration | `src/config.rs` | none after parsing | load, validate, list datasets, parse a bandwidth | every command |
| NixOS modules | `nix/` | none | deployment, timers | |

No two processes of zrb share a lock. Sends (from a timer, and by hand), server
sessions and prunes run beside each other and meet only in what `zfs(8)` shows
them: a Snapshot list, a hold or a token may be out of date as soon as it has
been read. The hard behaviours are therefore

* **interleaving of `zfs` commands**: prune decides on a list and a set of
  holds which a session changes before the destroys; two sessions move the
  holds of one Remote at the same time;
* **partial failure**: client and server each take several steps after
  `zfs receive` has made the Snapshot (annotate, hold, report, hold again), and
  either may be killed or cut off between any two of them. Recovery is the next
  run, which sees only what ZFS kept;
* **resume**: an interrupted receive leaves a token which a later send, a prune
  or an operator may consume, at any distance in time;
* **end of a stream**: two buffers, padding, a flag that must be right when the
  stream is empty or a whole number of chunks, SIGHUP and cancel at any point;
* **time**: a Snapshot ages through three retention windows over many prunes;
* **the handshake**: lines without a type, sent over a connection that may break
  and by a server that may exit before its last line is flushed;
* **one run of `zrb send`**: tasks, a lossy channel, a display with keys and
  tokens, and an exit status that a timer relies on.

What makes each component correct:

* sessions: the newest Snapshot of a Remote, from which the next incremental
  send starts, stays on the source; neither side is ever without a hold once it
  had one; a partial receive can always be continued; nobody waits forever;
* codec: `zfs receive` gets exactly the bytes of `zfs send`, padding never gets
  among them, and success is reported only if a Snapshot resulted;
* prune and policy: the newest Snapshots, the first of each year and one of
  each week in its window survive, however often prune is run or killed;
* handshake: only a request that passes every check is accepted, a version skew
  is explained rather than misread, neither side waits forever;
* command line: the exit status tells of every dataset asked for, and an
  interrupted transfer does not keep prune from a dataset for good;
* dispatch and display: a failure is in the exit status, a row's last word is
  shown, a skipped transfer stops, the run ends and leaves a usable terminal.

`PROJECT.json` lists the hazards at their lines, with the properties that would
catch them going wrong.

## 2. Modules

    Transfer        what one stream's transfer promises      (abstract)
       ^ implemented by                ^ assumed by
    StreamCodec     chunks, frames     Backup     sessions and prunes over ZFS
    Agreement       what a handshake decides                 (abstract)
       ^ implemented by
    Handshake       the messages, checks, refusals and losses before Backup's
                    ServerHello
    Host            the commands of one host beside its server sessions
    Retention       the policy over the life of a dataset
    SendRun         one `zrb send`: tasks, channel, display, exit status
    BackupProofs, BackupHolds, StreamProofs, HandshakeProofs, HostProofs,
    RetentionProofs, SendRunProofs                           theorems
    MCBackup, MCHandshake, MCHost, MCRetention, MCSendRun
                                                             instances for TLC

`PROJECT.json` maps every definition to its lines. What follows says how state
and actions correspond to the code.

### Backup

A Snapshot is its timestamp (`naming::new_name` embeds the second, and names
are compared by it), 0 means none. `snaps`, `srcHold`, `recvHold`, `token` and
`since` are what ZFS keeps; they survive crashes. All other variables are the
memory of a session or of a prune. Every `zfs` command that reads or changes
state is one step, so anything may happen between two of them.

* Client (`cpc`): `StartSend` lists, and remembers the list in `local` and
  `latest`; `ClientDecide` reads ServerHello and is `decide_transfer` together
  with spawning `zfs send`: a pending token is consumed whatever Snapshot it is
  for; otherwise up to date, full, incremental or diverged. `ClientReadStatus`,
  `ClientListHeld`, `ClientFindHeld`, `ClientPlaceHold`, `ClientHoldFails`,
  `ClientRelease` and `ClientFinish` are the answer and `place_transfer_hold`,
  in its order: list, find the old holds, place the new one, release the old
  ones; a hold that cannot be placed only warns. `zfs holds` fails if a listed
  Snapshot is gone by then, and no old hold is found.
* Server (`spc`): `ServerReadToken` and `ServerSendHello` (the token first,
  then the head), `ServerReady` and `ServerDeclined`, `RecvBegin` or
  `RecvReject`, `RecvFinish` or `RecvInterrupted`, `ServerAnnotate`,
  `ServerReadSince` and `ServerMark` (`annotate_resume_if_needed`: the token,
  its time, the property set), `ServerHoldList`, `ServerFindHeld`,
  `ServerPlaceHold`, `ServerHoldFails` and `ServerRelease`
  (`place_server_transfer_hold`), `ServerSendStatus`.
* Prune (`ppc`): the token, then `zrb:resume-since` and the clock
  (`resume_decision`), abort, clear, list, read holds, destroy oldest first.
  Which of the Snapshots beyond the recent ones the policy deletes is left open
  (any subset), so the results hold for every calendar.
* Failure: `Disconnect`, `ClientStops` and `ServerStops` at any step, a killed
  server's `zfs receive` finishing or not; `PruneEnd` at any step of prune.
* ZFS is external: a receive is refused when its base is not the newest
  Snapshot or another receive runs; held Snapshots are not destroyed; `-A`
  fails while the receive is running.

A rejected handshake (module Handshake) has the effect of a server that stops
before ServerHello (`ServerStops`). A dry run of prune (module Host) changes
nothing and is a stuttering step.
`unacked` and `exposed` are history variables no action reads: the sessions
whose stream was received and whose source hold is still to come, and the
Remotes for which such a session ended without it.

### Agreement and Handshake

`Agreement` has two decisions: the server accepts only what its policy allows,
and the client proceeds only after that. `Handshake` is `client_handshake` and
`server_handshake` with `connect` before and the exit of either process after.
A message is a record of its fields and carries no type, so what a line decodes
to depends on which message its reader expects (`Decodes`). `ServerChecksVersion` is the gate,
`ServerChecksName` the checks of the key's `--client` names and of the allow
list, `ServerSendsHello` the two reads of ZFS and ServerHello, `ServerFlushes`
the only flush of the server's stdout: the last line of a server that exits
before it may be lost (`AsItExits`, `Vanishing`). Keys, configs and client
versions are arbitrary (`Init`). A refusal of name or dataset is a second
ServerStatus where the client decodes a ServerHello: the client fails with a
JSON error and the reason is lost; `SkewIsExplained` says that this is the only
such case (section 3 sets it beside what the documentation promises).

### Host

The commands `snapshot`, `prune` and `list` as the timer or a user starts them
(`Begin`: zfs version, arguments, config), their loops over datasets, and their
exit status. `snapshot` notes a failure and goes on, `prune` and `list` end at
the first one. Beside them the server sessions, reduced to what concerns a
resume token: it begins, it is consumed or interrupted, `ServerAnnotates`,
`ServerReadsSince` and `ServerMarks` are `annotate_resume_if_needed`. Datasets are paths, because a
child inherits `zrb:resume-since` from its parent and `zfs get` shows the
inherited value. A config is a record of what it parses as; prune prefers the
server's reading. Prune does not `validate()`, and under a source config has no
`hold_days` and expires an annotated token at once. `lapsed` is a history
variable: the datasets whose token was left without a time of its own. There
are three ways to get there: the server is killed, or may not `zfs set`, before
it annotates (the delegation in `README.md:106` grants no `userprop`); it finds
the time of a parent, which prune clears later; prune clears the time of a
token that appeared after it had looked (`prune.rs:121`). Prune then skips the
dataset on every run, until the transfer completes or `--abort-resume`.

### Transfer and StreamCodec

`Transfer` is the promise: a growing prefix reaches `zfs receive`, a Snapshot
results only from a whole stream, and only then may the client say ok. Backup
assumes no more than this (`Complete`, `RecvFinish`, `RecvInterrupted`).
`StreamCodec` is the code: `write_stream` with both buffers, peeking ahead for
`has_more`, swapping and clearing; `read_stream_with_cancel`, with
SIGHUP; the server's order of closing `zfs receive`, judging and reporting. The
pipe between them holds a few cells and may break; `zfs receive` may die. A
byte is its position in the stream and 0 is padding, so that a stale or a
misplaced byte is visible. The five bytes of a Control Frame are one cell.

### Retention

`apply` as a loop (`ApplyNext`, oldest Snapshot first, `seen` for its three
sets) inside prune, which lists, reads the clock, applies, destroys, and may
stop anywhere, while Snapshots are taken and time passes. Year, month and week
are functions given as constants. A Snapshot that prune skips for its hold is
`DestroyNext` leaving `snaps` alone.

### SendRun

`main` (countdown, send, joining the display, exit), `send_one_dataset` per
dataset, `send_to_remote` per row with its events, chunks and cancel checks,
`dispatch_tasks` in parallel or in turn, the channel whose `try_send` drops
when it is full, and the three displays with the TUI's keys. Early errors, a
cancelled row, a row whose `bandwidth_limit` comes to 0 bytes per second
(`parse_bandwidth`: "0", or a few bits, which truncate; it panics in
`write_stream`), and a display that ends on `AllDone` or on the closed channel
are all steps. A row whose `ssh` cannot be started (`RowCannotConnect`) counts
as failed but returns at `send.rs:303`, before any event: the TUI keeps it as
waiting, the inline summary as not reached. `lost` and `chunksAt` are history variables.

## 3. Runs

| Run | Instance | Shows |
|---|---|---|
| `one_sender` | 1 session, 1 Remote, 2 Snapshots, both sides pruned, tokens expired and aborted, fairness | holds on the source protect the Incremental Base; divergence only after a session that ended between receipt and hold; a token always continues from the newest Snapshot and prune never lists it; every session ends |
| `two_senders` | 2 sessions, 1 Remote, 2 Snapshots | the hold guarantees that survive two sends at once |
| `stream` | up to 7 bytes, chunks of 2, pipe of 3 | the codec implements `Transfer`; both sides end |
| `retention` | time 9; years of 4, months of 2, weeks of 3; recent 2, weekly 5, monthly 7 | the loop is the policy; what survives many prunes |
| `handshake` | 2 client names, 2 datasets, 6 client versions, every key and config, fairness | the handshake implements `Agreement`; a skew is explained; both sides end |
| `host` | a dataset, its child and a missing one; 4 configs; 3 zfs versions; 1 fault; fairness | exit status; prune gets to a dataset again and again unless its token lapsed |
| `send_run` | 2 rows of 2 datasets, one with a limit that may come to 0, 3 displays, both orders, channel of 2, 2 chunks, fairness | exit status, last word, skip, end |

Bounds. In Backup two Snapshots give a base and a stream that extends it; a
clock of two lets a token expire (`HoldDays` 1) and a send follow. With `Recent`
1 the policy deletes as much as it ever may. The proofs of section 5 remove these
bounds for most properties of Backup. Two sessions are
checked with two Snapshots only: that still has one of them full, the other
incremental or resumed, and either overtaking the other. A stream of 7 bytes
with chunks of 2 has the empty stream, exact multiples, short ends, and four
chunks, so both buffers are reused twice; a pipe of 3 cells is smaller than two
chunks with their frames, so that writers block. The calendar has a week across the end of a year and the windows' cutoffs inside
weeks and months. A channel of 2 is overrun by the events of one row.
The versions of `handshake` agree, differ in patch, minor or major, lack a
part, and do not parse. In `host` ages stop at `HoldDays` (older makes no
difference); one fault is enough for each way a token can lapse, and all
properties are about what one failure leaves behind; the child dataset has a
Snapshot that zfs refuses to destroy (`Stuck`), so that prune ends early and `StatusTellsAll` has something to tell. No dataset
comes after the child, so `PruneKeepsUp` excepts none for a prune that ended
before it (`Reached` holds of all). One
command runs at a time, and every existing dataset already has a Snapshot.
`MaxTime`, `MaxBytes`, `MaxChunks` and `MaxFaults` are the only bounds that the code does
not have; `ChunkSize`, `PipeSize` and `ChanSize` are sizes the code or the host
has, made small.

Deadlock is checked in every run but `handshake`, which stops when both sides
have ended (`HandshakeEnds` says that they do): in Backup and Host the system can always start another
prune or session, `StreamCodec` and `SendRun` have an explicit final step.

Runs that end in a counterexample, each a statement of the documentation or a
comment that the code does not keep (details in `PROJECT.json`, `findings`):

| Run | What happens |
|---|---|
| `stale_hold` | An interrupted transfer of Snapshot 1 is resumed after Snapshot 2 was taken. The client then holds 2, which the Remote does not have, and releases what it does. |
| `lost_ack` | The status of a completed transfer is lost. The next send finds the Remote up to date and places no hold; prune deletes the Incremental Base. |
| `hold_days` | `zrb:resume-since` outlives the transfer it was set for and makes prune discard a younger token early. |
| `send_panic` | In parallel mode a task that panics is not counted: `zrb send` exits 0. |
| `send_terminal` | After a failed send `main` leaves without awaiting the TUI: the terminal stays in raw mode, the log is lost. |

Two smaller ones have no run:

* the weekly bucket of `apply` is (calendar year, ISO week), so the ISO week at
  the end of a year keeps two weekly Snapshots where `docs/config.md:112` says
  one;
* a name or dataset the server refuses reaches the client as a JSON error
  (`SkewIsExplained`, `cpc = "garbled"`), since `handshake.rs` sends the reason
  as a ServerStatus where `client_handshake` decodes a ServerHello.
  `CONTEXT.md:86` says that these checks "provide clear error messages", and
  `docs/adr/0002-layered-security-model.md:16` that "mismatches produce a clear
  configuration error".

The passing properties are stated so that they are what the code does keep
around these: `BaseProtected` excepts the Remotes in `exposed`,
`FreshSendHoldsReceived` the resumed sends, `ErrorExitsNonZero` the tasks
that panic beside others, and `LastWordShown` the rows that could not connect,
of which the display is told nothing. When two sends overlap, the one that listed first may
also report divergence over a Snapshot the source has; it fails before it
changes anything, and `DivergedOnlyIfExposed` is therefore checked and proved
for one session per Remote.

`NoHoldWindow` is checked for two overlapping sends and proved for one. For
three it is false, which came out of the attempt to prove it without
`OneSender`. A server releases only older Snapshots than it holds, and the
target's half of the property is a theorem for any number of sessions; a client
releases by name whatever it found before it placed its own hold, newer ones
too, and the induction fails there. The behaviour of Backup that shows it has
74 steps, out of reach of a search and followed with TLC along its schedule:
sessions A, B and C list when the newest Snapshot is 2, 3 and 3, and B resumes
an older stream. C holds 3 and ends. A finds 3 and places 2. Another C sends 4,
finds 2 and 3, places 4 and releases both. B finds 4, places 3, releases 4. A
releases the 3 it found: the source has no hold left, where the comment at
`src/ops/send.rs:493` says "there is never a window with no hold".

## 4. Fairness

* Backup: weak fairness of each session's steps taken together (`SessionStep`):
  as long as its client or its server can go on, one of them does. The steps of
  one session are finitely many, so this is enough. The processes are scheduled, and a read on a broken connection
  fails: SSH reports a lost connection to both ends (keepalive, SIGHUP). Nothing
  is assumed of users, timers, prune or the network.
* StreamCodec: weak fairness of client and server; cancel, SIGHUP, a broken
  connection and a dying `zfs receive` are never owed.
* Handshake: weak fairness of each side; connecting may fail, the connection may
  break and the client may be killed, but none of it is owed.
* Host: weak fairness of the passing of days and of a running command's next
  step; strong fairness of the timer's prune, since systemd fires it whatever
  users run meanwhile, and a command of theirs does not really hold it up.
  Nothing is assumed of sessions: `PruneKeepsUp` is about what happens once they
  have stopped.
* SendRun: weak fairness of `main` with its tasks as a whole and of the display
  task. No key is owed: the summary leaves by itself, as the code does after
  its timeout.

## 5. Proofs

Everything below is checked by TLAPS for all values of the constants that meet
the named assumptions of the modules. Every invariant and every action or
refinement property of the runs in section 3 has a theorem; `PROJECT.json`,
`theorems`, pairs them.

### Backup

**`BackupProofs!TypeCorrect`**: `TypeOK`, for any Remotes, sessions and clock.

**`BackupProofs!ResumeBaseKept`** (`TokenExtendsHead`) and **`NewestIsSpared`**
(`PruneSparesNewest`), for any number of sessions and prunes at once. Both assume
`Recent >= 1` (configuration does not enforce it; with `recent = 0` prune may
delete the newest Snapshot). `TokenExtendsHead` alone is not inductive: whether a destroy
may remove a token's base depends on a list made earlier. The invariant
`TransferInv` joins it with `PruneSparesNewest` (every candidate is older than
some Snapshot that is there), `StreamsAdvance` (a stream ends after its base)
and `ReceiverOwnsToken` (a receive in progress continues exactly the recorded
token and is the only one for its Remote).

**`BackupHolds!BaseStaysProtected`** (`BaseProtected`), **`DivergenceIsExplained`**
(`DivergedOnlyIfExposed`) and **`NoWindow`** (`NoHoldWindow`): for any number of
Remotes, with one session at a time for each (`OneSender`) and `Recent >= 1`. The
inductive invariant `ProtectionInv` is `TransferInv` with

* `HoldBeforeRelease`: while old holds are released the new one is in place and
  is not among them;
* `PhasesAgree`: where in a session what has been decided and reported: a
  server receives only after a decision to send, and a status on the wire is
  from a server that is through;
* `UnackedIsNewest`: what a session has delivered and not yet acknowledged is
  the Remote's newest Snapshot;
* `HoldFollowsReceipt`: a client reads ok, and places a hold, only after the
  stream arrived, and what it holds then is the Remote's newest Snapshot unless
  the session stays unacknowledged;
* `ListCoversHead`: what the client listed contains the Remote's head if that is
  protected, which is why divergence can only follow an exposed Remote;
* `HoldsExist`: a held Snapshot exists, because ZFS destroys none.

Without the first, a release could take the last hold; without the next three,
`BaseProtected` does not survive the placing of a hold; without the last two,
neither a decision nor a destroy on the source can be shown harmless.

**`BackupHolds!TargetStaysHeld`**: the target's half of `NoHoldWindow`, for any
number of sessions and any `Recent`. `TargetInv`: what a server is to release is
older than the Snapshot it listed as newest (what it listed, which it keeps until
it reads the holds, is not newer), and while it releases, that one or a newer one
is held; whoever takes that hold has a newer one in place.

**`BackupHolds!FreshHoldIsReceived`** and **`FreshHoldIsReceivedByAll`**
(`FreshSendHoldsReceived`): the first with one session per Remote and prune on
both sides, the second for any number of sessions when targets are not pruned
(with both, a target's prune may delete what an older session has just
delivered). They rest on `FreshCarriesLatest` (a full or incremental stream
carries `ctx.latest`; an unacknowledged session has sent a stream), and on
`ProtectionInv` or on `ArrivedStays` (a client places a hold only after the
receipt, and what arrived is there).

### StreamCodec

The invariant `StreamInv` gives every cell of the wire its place in the encoded
stream: the places are consecutive, from the server's position to the client's
(`WireInv`), a cell holds what the encoding has at its place, `ClientInv` says
what both buffers hold of the stream around the client's position, `ServerInv`
that what `zfs receive` was given is the prefix the server's position stands
for, and `AnswerInv` what each end may have concluded. **`StreamIsPlaced`** is
its invariance, for any stream, chunk size and pipe. From it follow
**`ChunksArePadded`** (`PaddingIsZero`), **`SuccessReportsAllBytes`**
(`ReportsAllBytes`), **`StatusIsTrue`** (`ServerTellsTruth`) and
**`StreamImplements`** (`ImplementsTransfer`, which has no fairness). None of
them is inductive by itself: padding depends on which buffer was cleared two
chunks earlier, the server's conclusion on what is still in flight.

### SendRun

For any datasets and rows, channel size and number of chunks:

* **`SendRunTyped`** (`TypeOK`), the channel's bound included;
* **`FailuresReachExit`** (`ErrorExitsNonZero`), from `OutcomeInv`: each row's
  outcome is in the state of its dataset's task, each dataset's in what `main`
  has collected;
* **`SkipStopsSoon`** (`SkipStopsTransfer`), from `SkipInv`: where in its loop a
  cancelled row has yet to look at its token;
* **`DisplayHasLastWord`** (`LastWordShown`), from `WordInv` and `UntoldInv`. The
  first: as long as nothing was dropped, what is shown of a row followed by what
  the channel still holds for it ends in its outcome. The second: of a row that
  has not begun its stream or could not connect there is no event, and it is
  shown as waiting or skipped. `CountdownInv`, that there is no display before the countdown is
  over, is what the second needs when the TUI starts.

### Retention

For every calendar and `RetentionConfig`: **`LoopAppliesPolicy`**
(`AppliesPolicy`), **`YearsAreKept`** (`YearKept`), **`LastAreKept`**
(`RecentKept`) and **`WeeksAreCovered`** (`WeekCovered`). The invariant is
`RTypeOK`, `LoopInv` (what `seen` and `todo` say in the middle of the loop),
`DeleteJustified` (a Snapshot given up is not among the recent ones of the list,
an older one of its year is listed, and, while in the weekly window, one of its
week) and `WeekFirstKept` (the first Snapshot of a week in the window is not
given up). `FirstOf`, that a set of times has a first one, is what turns the
last into coverage.

### Handshake

**`HandshakeTyped`** (`TypeOK`), **`SkewExplained`** (`SkewIsExplained`) and
**`Implements`** (`ImplementsAgreement`, which has no fairness):
for any names, datasets, versions, keys and configs. Assumes that the server's
own version parses. `SkewExplained` has one direction: a skew the client reports
was one, and no skew ends in a decoding error. A refused skew may still end as a
closed connection, when the server's last line was not flushed. The invariant `HInv` is `TypeOK` with

* `Waiting`: the server reads the client's own request, is not there before the
  client connects, and a client past the gate has a compatible version;
* `Decided`: a server beyond a check has passed it, so one that has accepted was
  `Allowed` to, and nothing is on the wire before the gate;
* `GateFirst`: the first line a client waiting at the gate can read is the
  gate's verdict, and whatever comes after it is ServerHello from a server that
  accepted or a refusal from one that refused.

Without `GateFirst` a refusal of the name could be taken for the gate's, and a
ServerHello on the wire would say nothing of the server that sent it, so the
client's step to `proceeds` would not be one of Agreement; without `Decided` an
accepting server would not be known to be allowed to.

### Host

For any tree of datasets, configs, arguments and faults: **`HostTyped`**
(`TypeOK`), **`StatusIsHonest`** (`StatusTellsAll`) and **`TokensHaveTimes`** (a
token that no session holds and that is not in `lapsed` has a time of its own,
which is why `PruneKeepsUp` needs no other exception). Assumes that an argument
is a list and names a known path unless it has a leading slash. `HostInv` is
`TypeOK` with `LoopInv` (asked for is done, failed or left; only `snapshot` goes
on after a failure), `FocusInv` (prune aborts a token and clears a time on
existing datasets only) and `TimeInv`. The lemma `SortedSet` shows that
the list made from a config names exactly the datasets of the config, however
many: `Among` is a recursive function, and that its equation has a solution, and
what the solution is, are shown by induction.

### What is only model-checked

Liveness (`SessionsEnd`, `TransferEnds`, `RunEnds`, `HandshakeEnds`,
`PruneKeepsUp`) and anything with ENABLED, which the prover does not handle. The
library's induction rules take an operator as a parameter and cannot be
instantiated; induction is done on a set instead (`SetInduction` in HostProofs,
`FirstOf` in RetentionProofs), from the well-foundedness of the naturals. No
definition is RECURSIVE. `NoHoldWindow` on the source with exactly two sessions
per Remote is only checked, on the instance of `two_senders`.

## 6. Not modelled

* TOML: a file parses as a server's config, a source's, both or neither.
* Building `zfs` and `ssh` command lines, decoding the JSON of `zfs`, size
  estimates, rendering, speed and ETA: they keep no state, or only what is
  drawn.
* `zfs receive -A` of the first receive into a dataset removes the dataset, so
  that `clear_resume_since` after it fails. Host has every existing dataset
  hold a first Snapshot.
* Two commands of Host at the same time. Backup has prunes and sessions beside
  each other; what Host adds is the loop and the exit status of one process.
* `man` and completions, which only print; the NixOS modules apart from the
  prune timer.

## 7. Plan

Done: Backup, Retention, StreamCodec implementing Transfer, SendRun, Handshake
implementing Agreement, and Host, each with theorems for all of its safety
properties.

Next, in this order:

1. `NoHoldWindow` on the source for two sessions per Remote: what keeps a second
   session from placing a hold the first is about to release.
2. Retention as the policy of Backup's prune: `Deletable` shown to be what
   `apply` allows.
3. Host with Backup: the token's life of Host as a view of Backup's, so that
   `TokensHaveTimes` carries over.
4. Retry: a timer that owes another send, and with it eventual delivery in
   Backup.
