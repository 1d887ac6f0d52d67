-------------------------------- MODULE Host --------------------------------
(***************************************************************************)
(* The commands of zrb on one host, run by timers and users over a list of *)
(* datasets, beside the server sessions that receive into those datasets:  *)
(* `zrb snapshot`, `zrb prune` and `zrb list`, their config and arguments, *)
(* and the life of a resume token with its zrb:resume-since.               *)
(*                                                                         *)
(* A dataset is its path, a sequence of names; a leading slash is an empty *)
(* first name.  Times are ages in days, which stop at HoldDays: older is   *)
(* no different.  What commands do to Snapshots and holds is modules       *)
(* Backup and Retention.  One command runs at a time.                      *)
(***************************************************************************)
EXTENDS Naturals, Sequences, SequencesExt

CONSTANTS Order,      \* the paths a config or an argument may name, sorted
          Existing,   \* those that are datasets of this host
          ServerFile, \* the config of the server and of the prune timer
          Configs,    \* the config files a user's command may name
          ZfsVersions,\* what `zfs version` may say: major, minor, patch
          Arguments,  \* the dataset arguments of a command
          Stuck,      \* datasets with a Snapshot to prune that zfs will not destroy
          HoldDays,   \* server.resume_hold_days
          MaxFaults,  \* bound on crashes and on zfs commands that fail
          None        \* no token, no value

ASSUME PathsAssumption == Order \in Seq(ToSet(Order)) /\ Existing \subseteq ToSet(Order)
\* An argument is a sequence of paths; only one with a leading slash may be no
\* path of this list.
ASSUME ArgumentsAssumption ==
  \A args \in Arguments :
     /\ args \in Seq(ToSet(args))
     /\ \A i \in DOMAIN args : Head(args[i]) # "" => args[i] \in ToSet(Order)
ASSUME BoundsAssumption == HoldDays \in Nat /\ MaxFaults \in Nat /\ None \notin Nat

Age == 0..HoldDays

VARIABLES
  zfs,         \* the zfs version
  token,       \* dataset -> the age of its resume token
  since,       \* dataset -> the age its own zrb:resume-since says
  recv,        \* dataset -> control state of the server session on it
  cmd,         \* the command that runs
  opts,        \* its flags dry_run, abort_resume, and hold_days of its config
  targets,     \* the datasets it is to work on, and
  todo,        \* those left, in order, and
  done, failed,\* what became of the others
  step,        \* where prune is on the first of todo
  exit,        \* the exit status of the last command
  faults,
  (* history variable: no action reads it *)
  lapsed       \* datasets whose token has no zrb:resume-since of its own

cmdVars  == <<cmd, opts, targets, todo, done, failed, step, exit>>
zfsVars  == <<token, since>>
vars == <<zfs, zfsVars, recv, cmdVars, faults, lapsed>>

Lists == {"list", "list_recursive"}
NoOpts == [dry_run |-> FALSE, abort_resume |-> FALSE, hold_days |-> None]

TypeOK ==
  /\ zfs \in ZfsVersions
  /\ token \in [Existing -> Age \cup {None}]
  /\ since \in [Existing -> Age \cup {None}]
  /\ recv \in [Existing -> {"idle", "receiving", "annotate", "since", "mark"}]
  /\ cmd \in {"none", "snapshot", "prune"} \cup Lists
  /\ targets \subseteq ToSet(Order)
  /\ ToSet(todo) \subseteq targets
  /\ done \subseteq targets /\ failed \subseteq targets
  /\ step \in {"token", "present", "absent", "abort", "clear", "apply"}
  /\ exit \in {0, 1} /\ faults \in 0..MaxFaults
  /\ lapsed \subseteq Existing

Init ==
  /\ zfs \in ZfsVersions
  /\ token = [d \in Existing |-> None]
  /\ since = [d \in Existing |-> None]
  /\ recv = [d \in Existing |-> "idle"]
  /\ cmd = "none" /\ opts = NoOpts
  /\ targets = {} /\ todo = <<>> /\ done = {} /\ failed = {}
  /\ step = "token" /\ exit = 0
  /\ faults = 0 /\ lapsed = {}

-----------------------------------------------------------------------------
(* The config file and the arguments.  One file may parse as a server's, a *)
(* source's, both or neither.                                              *)

\* Those of the first i paths that are in S.
Among(S) ==
  LET among[i \in 0..Len(Order)] ==
        IF i = 0 THEN <<>>
        ELSE IF Order[i] \in S THEN Append(among[i - 1], Order[i]) ELSE among[i - 1]
  IN among

Sorted(S) == Among(S)[Len(Order)]

server_datasets(f) == Sorted(UNION {f.clients[n] : n \in DOMAIN f.clients})
source_datasets(f) == Sorted(DOMAIN f.datasets)

\* SourceConfig::validate: every remote of a dataset is declared.  prune does
\* not ask.
validate(f) == \A d \in DOMAIN f.datasets : f.datasets[d] \subseteq f.remotes

Loads(c, f) ==
  CASE c = "snapshot" -> f.source /\ validate(f)
    [] c = "prune"    -> f.server \/ f.source
    [] OTHER          -> TRUE

ValidateNothing(d) == TRUE \* mutant: a path with a leading slash goes through

validate_dataset(d) == Head(d) # ""

\* zfs >= 2.3; a version that does not parse is <<>>.
check_zfs_version ==
  zfs # <<>> /\ (zfs[1] > 2 \/ (zfs[1] = 2 /\ zfs[2] >= 3))

\* For prune the server config takes priority, and has resume_hold_days.
hold_days(c, f) == IF c = "prune" /\ f.server THEN HoldDays ELSE None

\* Every dataset of this host has a zrb Snapshot.
discover_datasets == Existing

\* zrb list -r: the dataset and its children.
datasets_matching(root) == {d \in discover_datasets : IsPrefix(root, d)}

resolve_datasets(args, configured) == IF args = <<>> THEN configured ELSE args

TargetsOf(c, f, args) ==
  CASE c \in Lists /\ args = <<>>          -> Sorted(discover_datasets)
    [] c = "list_recursive" /\ args # <<>> -> Sorted(datasets_matching(args[1]))
    [] c = "list" /\ args # <<>>           -> <<args[1]>>
    [] OTHER -> resolve_datasets(args, IF c = "prune" /\ f.server
                                       THEN server_datasets(f) ELSE source_datasets(f))

-----------------------------------------------------------------------------
(* User properties.  ZFS has a dataset inherit what it does not set itself. *)

IsAncestor(a, d) == IsPrefix(a, d)

\* get_resume_since: the value of the nearest ancestor that has one.  A
\* dataset that does not exist has none.
get_resume_since(d) ==
  LET given == {a \in Existing : IsAncestor(a, d) /\ since[a] # None} IN
  IF d \notin Existing \/ given = {} THEN None
  ELSE since[CHOOSE a \in given : \A b \in given : Len(b) <= Len(a)]

get_resume_token(d) == IF d \in Existing THEN token[d] ELSE None

\* A zfs command that may fail does so, at the cost of a fault.
Fault == faults < MaxFaults /\ faults' = faults + 1

-----------------------------------------------------------------------------
(* Time, and the server sessions.                                          *)

Older(age) == IF age = None THEN None ELSE IF age < HoldDays THEN age + 1 ELSE age

Day ==
  /\ token' = [d \in Existing |-> Older(token[d])]
  /\ since' = [d \in Existing |-> Older(since[d])]
  /\ zfsVars' # zfsVars
  /\ UNCHANGED <<zfs, recv, cmdVars, faults, lapsed>>

\* zfs receive -s makes a token or goes on with the one there is.
ReceiveBegins(d) ==
  /\ check_zfs_version /\ recv[d] = "idle"
  /\ d \in ToSet(server_datasets(ServerFile))
  /\ recv' = [recv EXCEPT ![d] = "receiving"]
  /\ token' = [token EXCEPT ![d] = IF @ = None THEN 0 ELSE @]
  /\ UNCHANGED <<zfs, since, cmdVars, faults, lapsed>>

\* The token is consumed; zrb:resume-since stays.
ReceiveCompletes(d) ==
  /\ recv[d] = "receiving"
  /\ recv' = [recv EXCEPT ![d] = "idle"]
  /\ token' = [token EXCEPT ![d] = None]
  /\ lapsed' = lapsed \ {d}
  /\ UNCHANGED <<zfs, since, cmdVars, faults>>

ReceiveInterrupted(d) ==
  /\ recv[d] = "receiving"
  /\ recv' = [recv EXCEPT ![d] = "annotate"]
  /\ UNCHANGED <<zfs, zfsVars, cmdVars, faults, lapsed>>

\* History: the session leaves a token without a time of its own.
Leaves(d) == lapsed' = lapsed \cup {x \in {d} : token[x] # None /\ since[x] = None}

\* annotate_resume_if_needed: first the token ...
ServerAnnotates(d) ==
  /\ recv[d] = "annotate"
  /\ recv' = [recv EXCEPT ![d] = IF token[d] # None THEN "since" ELSE "idle"]
  /\ UNCHANGED <<zfs, zfsVars, cmdVars, faults, lapsed>>

\* ... then its time; an inherited value counts as one.
ServerReadsSince(d) ==
  /\ recv[d] = "since"
  /\ IF get_resume_since(d) = None
     THEN recv' = [recv EXCEPT ![d] = "mark"] /\ UNCHANGED lapsed
     ELSE recv' = [recv EXCEPT ![d] = "idle"] /\ Leaves(d)
  /\ UNCHANGED <<zfs, zfsVars, cmdVars, faults>>

\* set_resume_since, with the time of now.
ServerMarks(d) ==
  /\ recv[d] = "mark"
  /\ recv' = [recv EXCEPT ![d] = "idle"]
  /\ since' = [since EXCEPT ![d] = 0]
  /\ lapsed' = lapsed \ {d}
  /\ UNCHANGED <<zfs, token, cmdVars, faults>>

\* The server is killed, or a zfs command of the annotation fails (the
\* delegation `zfs allow` of the README grants no userprop, which set needs).
ServerDies(d) ==
  /\ Fault /\ recv[d] # "idle"
  /\ recv' = [recv EXCEPT ![d] = "idle"]
  /\ Leaves(d)
  /\ UNCHANGED <<zfs, zfsVars, cmdVars>>

-----------------------------------------------------------------------------
(* A command: how it begins, goes on and ends.                             *)

\* run(): the checks come first, and any of them ends the command.
Begin(c, f, args, dry_run, abort_resume) ==
  /\ cmd = "none"
  /\ IF check_zfs_version /\ Loads(c, f) /\ \A i \in DOMAIN args : validate_dataset(args[i])
     THEN /\ cmd' = c /\ exit' = 0
          /\ opts' = [dry_run |-> dry_run, abort_resume |-> abort_resume,
                      hold_days |-> hold_days(c, f)]
          /\ todo' = TargetsOf(c, f, args) /\ targets' = ToSet(todo')
          /\ UNCHANGED <<done, failed, step>>
     ELSE exit' = 1 /\ UNCHANGED <<cmd, opts, targets, todo, done, failed, step>>
  /\ UNCHANGED <<zfs, zfsVars, recv, faults, lapsed>>

Ends(status) ==
  /\ cmd' = "none" /\ opts' = NoOpts
  /\ targets' = {} /\ todo' = <<>> /\ done' = {} /\ failed' = {}
  /\ step' = "token" /\ exit' = status

FinishAnyway == \* mutant: any_failed is not looked at
  /\ cmd # "none" /\ todo = <<>>
  /\ Ends(0)
  /\ UNCHANGED <<zfs, zfsVars, recv, faults, lapsed>>

\* The end of the loop.
Finish ==
  /\ cmd # "none" /\ todo = <<>>
  /\ Ends(IF failed = {} THEN 0 ELSE 1)
  /\ UNCHANGED <<zfs, zfsVars, recv, faults, lapsed>>

\* One dataset is through; the result is recorded and the loop goes on.
Moves(ok) ==
  /\ todo' = Tail(todo) /\ step' = "token"
  /\ IF ok THEN done' = done \cup {Head(todo)} /\ UNCHANGED failed
           ELSE failed' = failed \cup {Head(todo)} /\ UNCHANGED done
  /\ UNCHANGED <<cmd, opts, targets, exit>>

\* zrb snapshot: a failure (no such dataset, a name of this second that is
\* taken, zfs) is noted and the loop goes on.
SnapshotOne ==
  /\ cmd = "snapshot" /\ todo # <<>>
  /\ \/ Head(todo) \in Existing /\ Moves(TRUE) /\ UNCHANGED faults
     \/ (Head(todo) \notin Existing \/ Head(todo) \in done) /\ Moves(FALSE) /\ UNCHANGED faults
     \/ Fault /\ Moves(FALSE)
  /\ UNCHANGED <<zfs, zfsVars, recv, lapsed>>

\* zrb list: an error ends it.
ListOne ==
  /\ cmd \in Lists /\ todo # <<>>
  /\ \/ Moves(TRUE) /\ UNCHANGED faults
     \/ Fault /\ Ends(1)
  /\ UNCHANGED <<zfs, zfsVars, recv, lapsed>>

-----------------------------------------------------------------------------
(* zrb prune on the first dataset of the list.  An error ends the command. *)

Pruning(s) == cmd = "prune" /\ todo # <<>> /\ step \in s

To(s) == step' = s /\ UNCHANGED <<cmd, opts, targets, todo, done, failed, exit>>

ResumeDecisionYoung(has_token, snc, days) == \* mutant: < for >=
  IF ~has_token                          THEN "Idle"
  ELSE IF snc # None /\ days = None      THEN "Expire"
  ELSE IF snc # None /\ snc < days       THEN "Expire"
  ELSE                                        "Wait"

resume_decision(has_token, snc, days) ==
  IF ~has_token                                    THEN "Idle"
  ELSE IF snc = None                               THEN "Wait"
  ELSE IF days = None                              THEN "Expire"
  ELSE IF snc >= days                              THEN "Expire"
  ELSE                                                  "Wait"

PruneReadsToken ==
  /\ Pruning({"token"})
  /\ To(IF get_resume_token(Head(todo)) # None THEN "present" ELSE "absent")
  /\ UNCHANGED <<zfs, zfsVars, recv, faults, lapsed>>

\* A dataset that waits for its token is skipped, which is no failure.
PruneDecides ==
  LET snc == get_resume_since(Head(todo))
      decision == resume_decision(step = "present", snc, opts.hold_days)
      expire == decision = "Expire" \/ (decision = "Wait" /\ opts.abort_resume)
  IN
  /\ Pruning({"present", "absent"})
  /\ CASE decision = "Idle" -> To(IF snc # None /\ ~opts.dry_run THEN "clear" ELSE "apply")
       [] expire            -> To(IF opts.dry_run THEN "apply" ELSE "abort")
       [] OTHER             -> Moves(TRUE)
  /\ UNCHANGED <<zfs, zfsVars, recv, faults, lapsed>>

\* zfs receive -A fails while a receive runs and when the token is gone.
PruneAborts ==
  LET d == Head(todo) IN
  /\ Pruning({"abort"})
  /\ IF token[d] # None /\ recv[d] # "receiving"
     THEN token' = [token EXCEPT ![d] = None] /\ lapsed' = lapsed \ {d} /\ To("clear")
     ELSE UNCHANGED <<token, lapsed>> /\ Ends(1)
  /\ UNCHANGED <<zfs, since, recv, faults>>

\* clear_resume_since: zfs inherit, which leaves what an ancestor says.
PruneClears ==
  LET d == Head(todo) IN
  /\ Pruning({"clear"})
  /\ since' = [since EXCEPT ![d] = None]
  /\ lapsed' = lapsed \cup {x \in {d} : token[x] # None}
  /\ To("apply")
  /\ UNCHANGED <<zfs, token, recv, faults>>

\* The Retention Policy, with a destroy zfs may refuse.
PruneApplies ==
  /\ Pruning({"apply"})
  /\ IF Head(todo) \in Stuck /\ ~opts.dry_run THEN Ends(1) ELSE Moves(TRUE)
  /\ UNCHANGED <<zfs, zfsVars, recv, faults, lapsed>>

\* Prune is killed, or a zfs command fails.
PruneDies ==
  /\ Fault /\ cmd = "prune" /\ Ends(1)
  /\ UNCHANGED <<zfs, zfsVars, recv, lapsed>>

-----------------------------------------------------------------------------
CommandStep == \/ Finish \/ SnapshotOne \/ ListOne
               \/ PruneReadsToken \/ PruneDecides \/ PruneAborts \/ PruneClears
               \/ PruneApplies

SessionStep(d) == \/ ReceiveBegins(d) \/ ReceiveCompletes(d) \/ ReceiveInterrupted(d)
                  \/ ServerAnnotates(d) \/ ServerReadsSince(d) \/ ServerMarks(d)
                  \/ ServerDies(d)

\* The systemd timer of the server module: zrb prune --config server.toml.
TimerPrune == Begin("prune", ServerFile, <<>>, FALSE, FALSE)

UserCommand ==
  \E f \in Configs, args \in Arguments :
     \/ \E c \in {"snapshot"} \cup Lists : Begin(c, f, args, FALSE, FALSE)
     \/ \E dry_run, abort_resume \in BOOLEAN : Begin("prune", f, args, dry_run, abort_resume)

Next == \/ Day \/ TimerPrune \/ UserCommand \/ CommandStep \/ PruneDies
        \/ \E d \in Existing : SessionStep(d)

Spec == Init /\ [][Next]_vars

\* Days pass, a command that runs goes on, and the timer keeps firing.  Strong
\* fairness of the timer: a command of the user does not really hold it up.
FairSpec == Spec /\ WF_vars(Day) /\ WF_vars(CommandStep) /\ SF_vars(TimerPrune)

-----------------------------------------------------------------------------
(* Properties.                                                             *)

\* A command that exits 0 has worked through every dataset it was asked for;
\* zrb snapshot has tried every one whatever its status; and prune, which ends
\* at the first failure, never exits 0 after one (main.rs).
StatusTellsAll ==
  [][(cmd # "none" /\ cmd' = "none") =>
        /\ exit' = 0 => done = targets /\ failed = {}
        /\ cmd = "snapshot" => done \cup failed = targets]_vars

\* Nothing is received any more.
Quiet == \A d \in Existing : recv[d] = "idle"

Served == ToSet(server_datasets(ServerFile)) \cap Existing

\* The datasets a timer's prune gets to: none that comes earlier fails for good.
Reached ==
  {d \in Served : check_zfs_version /\
     \A i, j \in DOMAIN Order : (Order[j] = d /\ i < j) => Order[i] \notin Served \cap Stuck}

Applying(d) == Pruning({"apply"}) /\ Head(todo) = d /\ ~opts.dry_run

\* Interrupted transfers do not keep prune from a dataset for good: once nothing
\* is received any more, the Retention Policy is applied to it again and again,
\* unless the server failed to give its token a time of its own
\* (annotate_resume_if_needed died, found an ancestor's, or prune cleared it).
PruneKeepsUp ==
  <>[]Quiet => \A d \in Existing :
                  d \in Reached => ([]<>Applying(d) \/ <>[](d \in lapsed))

-----------------------------------------------------------------------------
(* What the documentation says and the code does not do.                   *)

\* docs/config.md: resume_hold_days is the "Number of days to retain an
\* interrupted-transfer resume token before discarding it".  Once its session
\* has ended, a token that resume_decision lets prune discard is that old.
HoldDaysRespected ==
  \A d \in Existing :
     /\ recv[d] = "idle"
     /\ resume_decision(token[d] # None, get_resume_since(d), HoldDays) = "Expire"
     => token[d] >= HoldDays
=============================================================================
