------------------------------ MODULE Retention ------------------------------
(***************************************************************************)
(* The Retention Policy (retention/policy.rs, apply) as prune runs it, over *)
(* the life of one dataset: Snapshots are taken, time passes, and prune    *)
(* lists, applies the policy and destroys, or stops anywhere.              *)
(*                                                                         *)
(* A Snapshot is its timestamp.  ops::list has removed the Snapshots zrb   *)
(* did not name, so apply's "unmanaged" case does not arise.  The calendar *)
(* is a parameter: Week[x] identifies the ISO week of x, which, unlike the *)
(* month, may reach over the end of a year.                                *)
(***************************************************************************)
EXTENDS Integers, FiniteSets

CONSTANTS MaxTime,            \* bound on the clock
          Year, Month, Week,  \* the calendar, functions of the time
          Recent, WeeklyFor, MonthlyFor  \* RetentionConfig

Time == 1..MaxTime

ASSUME RetentionBounds ==
  /\ MaxTime \in Nat \ {0} /\ Recent \in Nat
  /\ WeeklyFor \in Int /\ MonthlyFor \in Int
ASSUME CalendarAssumption ==
  Year \in [Time -> Int] /\ Month \in [Time -> Int] /\ Week \in [Time -> Int]

VARIABLES
  now,     \* the clock
  snaps,   \* the dataset's Snapshots
  phase,   \* of prune: "idle", "listed", "apply" or "destroy"
  at,      \* the time apply was called with
  listed,  \* the Snapshots apply was called with
  todo,    \* those its loop has still to visit
  seen,    \* seen_weeks, seen_months and seen_years
  delete,  \* its verdicts, then the Snapshots prune has still to destroy
  taken    \* history: every Snapshot ever taken

vars == <<now, snaps, phase, at, listed, todo, seen, delete, taken>>

-----------------------------------------------------------------------------
(* The policy.                                                             *)

RecentOfButOne(S) == \* mutant: the window starts one too late
  {x \in S : Cardinality({y \in S : y > x}) + 1 < Recent}

\* The last Recent Snapshots of the sorted list.
RecentOf(S) == {x \in S : Cardinality({y \in S : y > x}) < Recent}

BucketByWeek(x, t) == \* mutant: a week is not cut at the end of the year
  IF x > t - WeeklyFor       THEN <<"weekly", Week[x]>>
  ELSE IF x > t - MonthlyFor THEN <<"monthly", Year[x], Month[x]>>
  ELSE                            <<"yearly", Year[x]>>

BucketMonthFirst(x, t) == \* mutant: the wider window is tested first
  IF x > t - MonthlyFor     THEN <<"monthly", Year[x], Month[x]>>
  ELSE IF x > t - WeeklyFor THEN <<"weekly", Year[x], Week[x]>>
  ELSE                           <<"yearly", Year[x]>>

\* What a Snapshot beyond the recent ones competes in, at time t.
Bucket(x, t) ==
  IF x > t - WeeklyFor       THEN <<"weekly", Year[x], Week[x]>>
  ELSE IF x > t - MonthlyFor THEN <<"monthly", Year[x], Month[x]>>
  ELSE                            <<"yearly", Year[x]>>

Unsorted(S) == S \* mutant: the list is not sorted

\* The loop visits the oldest Snapshot first.
Oldest(S) == {x \in S : \A y \in S : x <= y}

-----------------------------------------------------------------------------
Init ==
  /\ now = 1
  /\ snaps = {} /\ taken = {}
  /\ phase = "idle"
  /\ at = 1
  /\ listed = {} /\ todo = {} /\ seen = {} /\ delete = {}

Tick ==
  /\ now < MaxTime
  /\ now' = now + 1
  /\ UNCHANGED <<snaps, phase, at, listed, todo, seen, delete, taken>>

\* zfs snapshot fails on a name that exists.
TakeSnapshot ==
  /\ now \notin snaps
  /\ snaps' = snaps \cup {now}
  /\ taken' = taken \cup {now}
  /\ UNCHANGED <<now, phase, at, listed, todo, seen, delete>>

\* prune lists the dataset ...
PruneList ==
  /\ phase = "idle"
  /\ phase' = "listed"
  /\ listed' = snaps /\ todo' = snaps
  /\ seen' = {} /\ delete' = {}
  /\ UNCHANGED <<now, snaps, at, taken>>

\* ... reads the clock, and calls apply.
PruneClock ==
  /\ phase = "listed"
  /\ phase' = "apply"
  /\ at' = now
  /\ UNCHANGED <<now, snaps, listed, todo, seen, delete, taken>>

\* One round of apply's loop.
ApplyNext ==
  /\ phase = "apply"
  /\ \E x \in Oldest(todo) :
        /\ todo' = todo \ {x}
        /\ \/ x \in RecentOf(listed) /\ UNCHANGED <<seen, delete>>
           \/ /\ x \notin RecentOf(listed) /\ Bucket(x, at) \notin seen
              /\ seen' = seen \cup {Bucket(x, at)}
              /\ UNCHANGED delete
           \/ /\ x \notin RecentOf(listed) /\ Bucket(x, at) \in seen
              /\ delete' = delete \cup {x}
              /\ UNCHANGED seen
  /\ UNCHANGED <<now, snaps, phase, at, listed, taken>>

ApplyEnd ==
  /\ phase = "apply" /\ todo = {}
  /\ phase' = "destroy"
  /\ UNCHANGED <<now, snaps, at, listed, todo, seen, delete, taken>>

\* The next Snapshot is destroyed, or skipped for its Transfer Hold.
DestroyNext ==
  /\ phase = "destroy"
  /\ \E x \in Oldest(delete) :
        /\ delete' = delete \ {x}
        /\ snaps' \in {snaps \ {x}, snaps}
  /\ UNCHANGED <<now, phase, at, listed, todo, seen, taken>>

\* Prune is through, fails or is killed.
PruneEnd ==
  /\ phase # "idle"
  /\ phase' = "idle"
  /\ listed' = {} /\ todo' = {} /\ seen' = {} /\ delete' = {}
  /\ UNCHANGED <<now, snaps, at, taken>>

Next == \/ Tick \/ TakeSnapshot
        \/ PruneList \/ PruneClock \/ ApplyNext \/ ApplyEnd \/ DestroyNext
        \/ PruneEnd

Spec == Init /\ [][Next]_vars

-----------------------------------------------------------------------------
(* Properties.                                                             *)

\* The policy without the loop: the recent Snapshots, and of the others the
\* oldest of each bucket.
Kept(S, t) ==
  LET R == RecentOf(S) IN
  R \cup {x \in S \ R : \A y \in S \ R : Bucket(y, t) = Bucket(x, t) => x <= y}

\* apply's one pass with its three seen sets decides what the declarative
\* policy says of the whole list, round by round.
AppliesPolicy ==
  phase = "apply" => delete = {x \in listed \ todo : x \notin Kept(listed, at)}

\* The first Snapshot ever taken in a year is never deleted, through all the
\* windows it ages through: weekly and monthly buckets never reach over the
\* end of a year.
YearKept ==
  \A x \in taken : (\A y \in taken : Year[y] = Year[x] => x <= y) => x \in snaps

\* The last Recent Snapshots ever taken are all there, also those taken while
\* a prune was at work on an older list.
RecentKept ==
  \A x \in taken : Cardinality({y \in taken : y > x}) < Recent => x \in snaps

\* A week, up to the end of its year, that is still wholly in the weekly
\* window and had a Snapshot has one now.
WeekCovered ==
  \A x \in taken :
     LET Same == {d \in Time : Year[d] = Year[x] /\ Week[d] = Week[x]} IN
     (\A d \in Same : d > now - WeeklyFor) => Same \cap snaps # {}
=============================================================================
