--------------------------- MODULE RetentionProofs ---------------------------
(***************************************************************************)
(* Proofs about Retention, for every calendar, every RetentionConfig and   *)
(* every history of Snapshots.                                             *)
(***************************************************************************)
EXTENDS Retention, FiniteSetTheorems, WellFoundedInduction, TLAPS

-----------------------------------------------------------------------------
(* Inductive invariant.                                                    *)

RTypeOK ==
  /\ now \in Time /\ at \in Time /\ at <= now
  /\ taken \in SUBSET Time
  /\ snaps \in SUBSET taken /\ listed \in SUBSET taken
  /\ todo \in SUBSET listed /\ delete \in SUBSET listed
  /\ phase \in {"idle", "listed", "apply", "destroy"}
  /\ phase = "idle" => delete = {}
  /\ phase = "listed" => todo = listed /\ seen = {} /\ delete = {}

\* The Snapshots the loop has visited, beyond the recent ones.
Visited == (listed \ todo) \ RecentOf(listed)

\* The loop is in chronological order and has seen what it visited.
LoopInv ==
  phase = "apply" =>
     /\ \A x \in todo : \A y \in listed \ todo : y < x
     /\ seen = {Bucket(y, at) : y \in Visited}

\* What is given up is not recent, and an older one of its year is listed, of
\* its week too while it is in the weekly window.
DeleteJustified ==
  \A x \in delete :
     /\ x \notin RecentOf(listed)
     /\ \E y \in listed : /\ y < x /\ Year[y] = Year[x]
                          /\ x > at - WeeklyFor => Week[y] = Week[x]

\* The first Snapshot of a week stays as long as it is in the weekly window.
WeekFirstKept ==
  \A x \in taken :
     /\ \A y \in taken : Year[y] = Year[x] /\ Week[y] = Week[x] => x <= y
     /\ x > now - WeeklyFor
     => x \in snaps

RetentionInv == /\ RTypeOK /\ LoopInv /\ DeleteJustified /\ AppliesPolicy
                /\ YearKept /\ RecentKept /\ WeekFirstKept

-----------------------------------------------------------------------------
(* Buckets.                                                                *)

\* No bucket reaches over the end of a year.
LEMMA BucketYear ==
  ASSUME NEW x, NEW y, NEW t, Bucket(x, t) = Bucket(y, t)
  PROVE  Year[x] = Year[y]
  BY DEF Bucket

\* The buckets of the weekly window are its weeks.
LEMMA BucketWeek ==
  ASSUME NEW x, NEW y, NEW t, Bucket(x, t) = Bucket(y, t), x > t - WeeklyFor
  PROVE  Week[x] = Week[y]
  BY DEF Bucket

\* A finite list has more Snapshots after x than a part of it has.
LEMMA NewerMonotone ==
  ASSUME NEW T \in SUBSET Time, NEW S \in SUBSET T, NEW x,
         Cardinality({y \in T : y > x}) < Recent
  PROVE  Cardinality({y \in S : y > x}) < Recent
<1> DEFINE A == {y \in S : y > x}
           B == {y \in T : y > x}
<1>1. IsFiniteSet(Time)
  BY RetentionBounds, FS_Interval DEF Time
<1>2. IsFiniteSet(B)
  BY <1>1, FS_Subset
<1>3. A \in SUBSET B
  OBVIOUS
<1>4. Cardinality(A) <= Cardinality(B) /\ IsFiniteSet(A)
  BY <1>2, <1>3, FS_Subset
<1>5. Cardinality(A) \in Nat /\ Cardinality(B) \in Nat
  BY <1>2, <1>4, FS_CardinalityType
<1> QED BY <1>4, <1>5, RetentionBounds

\* One round of the loop: what ApplyNext makes of the oldest Snapshot left.
LEMMA Round ==
  ASSUME RetentionInv, phase = "apply", NEW x \in Oldest(todo)
  PROVE  /\ x \in todo /\ x \in Time
         /\ \A y \in todo \ {x} : x < y
         /\ x \notin Kept(listed, at) <=>
              x \notin RecentOf(listed) /\ Bucket(x, at) \in seen
<1> USE DEF RetentionInv, RTypeOK
<1>1. x \in todo /\ x \in Time /\ \A y \in todo : x <= y
  BY DEF Oldest
<1>2. \A y \in todo \ {x} : x < y
  BY <1>1, RetentionBounds DEF Time
<1>3. seen = {Bucket(y, at) : y \in Visited} /\ \A y \in Visited : y < x
  BY <1>1 DEF LoopInv, Visited
<1>4. ASSUME x \notin RecentOf(listed), Bucket(x, at) \in seen
      PROVE  x \notin Kept(listed, at)
  <2>1. PICK y \in Visited : Bucket(y, at) = Bucket(x, at)
    BY <1>3, <1>4
  <2>2. y \in listed \ RecentOf(listed) /\ y < x /\ y \in Time
    BY <1>3, <2>1 DEF Visited
  <2>3. ~(x <= y)
    BY <1>1, <2>2, RetentionBounds DEF Time
  <2> QED BY <1>4, <2>1, <2>2, <2>3 DEF Kept
<1>5. ASSUME x \notin RecentOf(listed), Bucket(x, at) \notin seen
      PROVE  x \in Kept(listed, at)
  <2>1. ASSUME NEW y \in listed \ RecentOf(listed), Bucket(y, at) = Bucket(x, at)
        PROVE  x <= y
    <3>1. y \notin Visited
      BY <1>3, <1>5, <2>1
    <3>2. y \in todo
      BY <3>1 DEF Visited
    <3> QED BY <1>1, <3>2
  <2> QED BY <1>1, <1>5, <2>1 DEF Kept
<1>6. x \in RecentOf(listed) => x \in Kept(listed, at)
  BY DEF Kept
<1> QED BY <1>1, <1>2, <1>4, <1>5, <1>6

LEMMA ApplyNextKeeps ==
  ASSUME RetentionInv, ApplyNext
  PROVE  RetentionInv'
<1> USE DEF RetentionInv
<1>1. PICK x \in Oldest(todo) :
        /\ todo' = todo \ {x}
        /\ \/ x \in RecentOf(listed) /\ UNCHANGED <<seen, delete>>
           \/ /\ x \notin RecentOf(listed) /\ Bucket(x, at) \notin seen
              /\ seen' = seen \cup {Bucket(x, at)}
              /\ UNCHANGED delete
           \/ /\ x \notin RecentOf(listed) /\ Bucket(x, at) \in seen
              /\ delete' = delete \cup {x}
              /\ UNCHANGED seen
  BY DEF ApplyNext
<1>2. phase = "apply" /\ UNCHANGED <<now, snaps, phase, at, listed, taken>>
  BY DEF ApplyNext
<1>3. /\ x \in todo /\ x \in Time
      /\ \A y \in todo \ {x} : x < y
      /\ x \notin Kept(listed, at) <=>
           x \notin RecentOf(listed) /\ Bucket(x, at) \in seen
  BY <1>2, Round
<1>4. UNCHANGED <<RecentOf(listed), Kept(listed, at)>>
  BY <1>2 DEF RecentOf, Kept, Bucket
<1>5. RTypeOK'
  BY <1>1, <1>2, <1>3 DEF RTypeOK
<1>6. AppliesPolicy'
  <2>1. delete = {y \in listed \ todo : y \notin Kept(listed, at)}
    BY <1>2 DEF AppliesPolicy
  <2>2. listed \ todo' = (listed \ todo) \cup {x}
    BY <1>1, <1>3 DEF RTypeOK
  <2>3. delete' = {y \in listed \ todo' : y \notin Kept(listed, at)}
    <3>1. CASE x \in Kept(listed, at)
      BY <1>1, <1>3, <2>1, <2>2, <3>1
    <3>2. CASE x \notin Kept(listed, at)
      BY <1>1, <1>3, <2>1, <2>2, <3>2
    <3> QED BY <3>1, <3>2
  <2> QED BY <1>2, <1>4, <2>3 DEF AppliesPolicy
<1>7. LoopInv'
  <2>1. seen = {Bucket(y, at) : y \in Visited}
    BY <1>2 DEF LoopInv
  <2>2. Visited' = IF x \in RecentOf(listed) THEN Visited ELSE Visited \cup {x}
    BY <1>1, <1>2, <1>3, <1>4 DEF Visited, RTypeOK
  <2>3. seen' = {Bucket(y, at) : y \in Visited'}
    <3>1. CASE x \in RecentOf(listed)
      BY <1>1, <2>1, <2>2, <3>1
    <3>2. CASE x \notin RecentOf(listed)
      <4>1. Visited' = Visited \cup {x}
        BY <2>2, <3>2
      <4>2. seen' = seen \cup {Bucket(x, at)}
        BY <1>1, <3>2
      <4> QED BY <2>1, <4>1, <4>2
    <3> QED BY <3>1, <3>2
  <2>4. \A z \in todo' : \A y \in listed \ todo' : y < z
    BY <1>1, <1>2, <1>3 DEF LoopInv
  <2>5. \A y : Bucket(y, at)' = Bucket(y, at)
    BY <1>2 DEF Bucket
  <2> QED BY <1>2, <2>3, <2>4, <2>5 DEF LoopInv
<1>8. DeleteJustified'
  <2>1. ASSUME x \notin RecentOf(listed), Bucket(x, at) \in seen
        PROVE  \E y \in listed : /\ y < x /\ Year[y] = Year[x]
                                 /\ x > at - WeeklyFor => Week[y] = Week[x]
    <3>1. PICK y \in Visited : Bucket(y, at) = Bucket(x, at)
      BY <1>2, <2>1 DEF LoopInv
    <3>2. y \in listed /\ y < x
      BY <1>2, <1>3, <3>1 DEF LoopInv, Visited
    <3> QED BY <3>1, <3>2, BucketYear, BucketWeek
  <2> QED BY <1>1, <1>2, <1>4, <2>1 DEF DeleteJustified
<1>9. YearKept' /\ RecentKept' /\ WeekFirstKept'
  BY <1>2 DEF YearKept, RecentKept, WeekFirstKept
<1> QED BY <1>5, <1>6, <1>7, <1>8, <1>9

LEMMA DestroyNextKeeps ==
  ASSUME RetentionInv, DestroyNext
  PROVE  RetentionInv'
<1> USE DEF RetentionInv
<1>1. PICK x \in delete : delete' = delete \ {x} /\ snaps' \in {snaps \ {x}, snaps}
  BY DEF DestroyNext, Oldest
<1>2. phase = "destroy" /\ UNCHANGED <<now, phase, at, listed, todo, seen, taken>>
  BY DEF DestroyNext
<1>3. UNCHANGED RecentOf(listed)
  BY <1>2 DEF RecentOf
<1>4. RTypeOK'
  BY <1>1, <1>2 DEF RTypeOK
<1>5. LoopInv' /\ AppliesPolicy'
  BY <1>2 DEF LoopInv, AppliesPolicy
<1>6. DeleteJustified'
  BY <1>1, <1>2, <1>3 DEF DeleteJustified
<1>7. YearKept'
  <2>1. PICK y \in listed : y < x /\ Year[y] = Year[x]
    BY <1>1 DEF DeleteJustified
  <2>2. y \in taken /\ x \in Time /\ y \in Time
    BY <1>1 DEF RTypeOK
  <2>3. ~(x <= y)
    BY <2>1, <2>2, RetentionBounds DEF Time
  <2> QED BY <1>1, <1>2, <2>1, <2>2, <2>3 DEF YearKept
<1>8. RecentKept'
  <2>1. x \in listed /\ x \notin RecentOf(listed)
    BY <1>1 DEF DeleteJustified, RTypeOK
  <2>2. ~(Cardinality({y \in listed : y > x}) < Recent)
    BY <2>1 DEF RecentOf
  <2>3. ~(Cardinality({y \in taken : y > x}) < Recent)
    BY <2>2, NewerMonotone DEF RTypeOK
  <2> QED BY <1>1, <1>2, <2>3 DEF RecentKept
<1>9. WeekFirstKept'
  <2> SUFFICES ASSUME NEW z \in taken, z > now - WeeklyFor,
                      \A y \in taken : Year[y] = Year[z] /\ Week[y] = Week[z] => z <= y
               PROVE  z \in snaps'
    BY <1>2 DEF WeekFirstKept
  <2>1. z \in snaps
    BY DEF WeekFirstKept
  <2>2. CASE z = x
    <3>1. PICK y \in listed : /\ y < x /\ Year[y] = Year[x]
                              /\ x > at - WeeklyFor => Week[y] = Week[x]
      BY <1>1 DEF DeleteJustified
    <3>2. y \in taken /\ x \in Int /\ y \in Int /\ at \in Int /\ now \in Int /\ at <= now
      BY <1>1, RetentionBounds DEF RTypeOK, Time
    <3>3. x > at - WeeklyFor
      BY <2>2, <3>2, RetentionBounds
    <3> QED BY <2>2, <3>1, <3>2, <3>3
  <2>3. CASE z # x
    BY <1>1, <2>1, <2>3
  <2> QED BY <2>2, <2>3
<1> QED BY <1>4, <1>5, <1>6, <1>7, <1>8, <1>9

\* The parts about prune's own state depend on nothing else.
LEMMA PruneAlone ==
  ASSUME LoopInv, AppliesPolicy, DeleteJustified,
         UNCHANGED <<phase, at, listed, todo, seen, delete>>
  PROVE  LoopInv' /\ AppliesPolicy' /\ DeleteJustified'
<1>1. RecentOf(listed)' = RecentOf(listed)
  BY DEF RecentOf
<1>2. Kept(listed, at)' = Kept(listed, at)
  BY DEF Kept, RecentOf, Bucket
<1>3. Visited' = Visited
  BY <1>1 DEF Visited
<1>4. \A y : Bucket(y, at)' = Bucket(y, at)
  BY DEF Bucket
<1>5. LoopInv'
  BY <1>3, <1>4 DEF LoopInv
<1>6. AppliesPolicy'
  BY <1>2 DEF AppliesPolicy
<1>7. DeleteJustified'
  BY <1>1 DEF DeleteJustified
<1> QED BY <1>5, <1>6, <1>7

LEMMA TakeKeeps ==
  ASSUME RetentionInv, TakeSnapshot
  PROVE  RetentionInv'
<1> USE DEF RetentionInv
<1>1. /\ snaps' = snaps \cup {now} /\ taken' = taken \cup {now}
      /\ UNCHANGED <<now, phase, at, listed, todo, seen, delete>>
  BY DEF TakeSnapshot
<1>2. RTypeOK'
  BY <1>1 DEF RTypeOK
<1>3. LoopInv' /\ AppliesPolicy' /\ DeleteJustified'
  BY <1>1, PruneAlone
<1>4. YearKept'
  BY <1>1 DEF YearKept
<1>5. RecentKept'
  <2> SUFFICES ASSUME NEW x \in taken, Cardinality({y \in taken' : y > x}) < Recent
               PROVE  x \in snaps
    BY <1>1 DEF RecentKept
  <2>1. taken' \in SUBSET Time /\ taken \in SUBSET taken'
    BY <1>1, <1>2 DEF RTypeOK
  <2>2. Cardinality({y \in taken : y > x}) < Recent
    BY <2>1, NewerMonotone
  <2> QED BY <2>2 DEF RecentKept
<1>6. WeekFirstKept'
  BY <1>1 DEF WeekFirstKept
<1> QED BY <1>2, <1>3, <1>4, <1>5, <1>6

LEMMA InitRetention == Init => RetentionInv
  BY RetentionBounds
  DEF Init, RetentionInv, RTypeOK, LoopInv, DeleteJustified, AppliesPolicy,
      YearKept, RecentKept, WeekFirstKept, Time

LEMMA NextRetention == RetentionInv /\ [Next]_vars => RetentionInv'
<1> SUFFICES ASSUME RetentionInv, [Next]_vars PROVE RetentionInv'
  OBVIOUS
<1>1. CASE Tick
  <2>1. WeekFirstKept'
    <3>1. \A x \in taken : x > now' - WeeklyFor => x > now - WeeklyFor
      BY <1>1, RetentionBounds DEF Tick, RetentionInv, RTypeOK, Time
    <3> QED BY <1>1, <3>1 DEF Tick, RetentionInv, WeekFirstKept
  <2> QED
    BY <1>1, <2>1, PruneAlone, RetentionBounds
    DEF Tick, RetentionInv, RTypeOK, YearKept, RecentKept, Time
<1>2. CASE PruneList
  <2> USE <1>2 DEF RetentionInv, PruneList
  <2>1. RTypeOK' /\ YearKept' /\ RecentKept' /\ WeekFirstKept' /\ DeleteJustified'
    BY DEF RTypeOK, YearKept, RecentKept, WeekFirstKept, DeleteJustified
  <2>2. LoopInv' /\ AppliesPolicy'
    BY DEF LoopInv, AppliesPolicy
  <2> QED BY <2>1, <2>2
<1>3. CASE PruneClock
  <2> USE <1>3 DEF RetentionInv, PruneClock
  <2>1. RTypeOK' /\ YearKept' /\ RecentKept' /\ WeekFirstKept'
    BY RetentionBounds DEF RTypeOK, YearKept, RecentKept, WeekFirstKept, Time
  <2>2. DeleteJustified'
    BY DEF RTypeOK, DeleteJustified
  <2>3. LoopInv' /\ AppliesPolicy'
    BY DEF RTypeOK, LoopInv, AppliesPolicy, Visited
  <2> QED BY <2>1, <2>2, <2>3
<1>4. CASE ApplyEnd
  BY <1>4 DEF ApplyEnd, RetentionInv, RTypeOK, LoopInv, DeleteJustified,
     AppliesPolicy, YearKept, RecentKept, WeekFirstKept, RecentOf
<1>5. CASE PruneEnd
  BY <1>5 DEF PruneEnd, RetentionInv, RTypeOK, LoopInv, DeleteJustified,
     AppliesPolicy, YearKept, RecentKept, WeekFirstKept
<1>6. CASE UNCHANGED vars
  BY <1>6, PruneAlone DEF vars, RetentionInv, RTypeOK, YearKept, RecentKept, WeekFirstKept
<1> QED
  BY <1>1, <1>2, <1>3, <1>4, <1>5, <1>6, TakeKeeps, ApplyNextKeeps, DestroyNextKeeps
  DEF Next

LEMMA Retained == Spec => []RetentionInv
  BY InitRetention, NextRetention, PTL DEF Spec

-----------------------------------------------------------------------------
(* What it says.                                                           *)

\* For every calendar and window: the one pass of apply, with its seen_weeks,
\* seen_months and seen_years, decides what the declarative policy says.
THEOREM LoopAppliesPolicy == Spec => []AppliesPolicy
<1>1. RetentionInv => AppliesPolicy
  BY DEF RetentionInv
<1> QED BY <1>1, Retained, PTL

\* The first Snapshot of every year survives every prune, however often it is
\* run, stopped or overtaken by new Snapshots.
THEOREM YearsAreKept == Spec => []YearKept
<1>1. RetentionInv => YearKept
  BY DEF RetentionInv
<1> QED BY <1>1, Retained, PTL

\* The last Recent Snapshots are there at any time, also when prune works on a
\* list that is older than they are.
THEOREM LastAreKept == Spec => []RecentKept
<1>1. RetentionInv => RecentKept
  BY DEF RetentionInv
<1> QED BY <1>1, Retained, PTL

\* Every set of times has a first one.
LEMMA FirstOf ==
  ASSUME NEW T \in SUBSET Time, T # {}
  PROVE  \E m \in T : \A k \in T : m <= k
<1> DEFINE Less == {ss \in Nat \X Nat : ss[1] < ss[2]}
<1>1. T \subseteq Nat
  BY RetentionBounds DEF Time
<1>2. OpToRel(<, Nat) = Less
  BY Zenon DEF OpToRel
<1>3. IsWellFoundedOn(Less, Nat)
  BY <1>2, NatLessThanWellFounded
<1> HIDE DEF Less
<1>4. PICK m \in T : \A k \in T : ~(<<k, m>> \in Less)
  BY <1>1, <1>3, WFMin
<1>5. \A k \in T : m <= k
  <2> TAKE k \in T
  <2>1. <<k, m>> \notin Less
    BY <1>4
  <2> QED BY <1>1, <2>1 DEF Less
<1> QED BY <1>5

\* A week that had a Snapshot still has one while all of it is in the weekly
\* window: the first one, which neither apply nor a prune on an older list
\* gives up.
THEOREM WeeksAreCovered == Spec => []WeekCovered
<1>1. RetentionInv => WeekCovered
  <2> SUFFICES ASSUME RetentionInv, NEW x \in taken,
                      \A d \in {d \in Time : Year[d] = Year[x] /\ Week[d] = Week[x]} :
                         d > now - WeeklyFor
               PROVE  {d \in Time : Year[d] = Year[x] /\ Week[d] = Week[x]} \cap snaps # {}
    BY DEF WeekCovered
  <2> DEFINE Same == {d \in Time : Year[d] = Year[x] /\ Week[d] = Week[x]}
             T == Same \cap taken
  <2>1. T \in SUBSET Time /\ x \in T
    BY DEF RetentionInv, RTypeOK
  <2>2. PICK m \in T : \A k \in T : m <= k
    BY <2>1, FirstOf
  <2>3. \A y \in taken : Year[y] = Year[m] /\ Week[y] = Week[m] => y \in T
    BY <2>1 DEF RetentionInv, RTypeOK
  <2>4. m \in snaps
    BY <2>2, <2>3 DEF RetentionInv, WeekFirstKept
  <2> QED BY <2>2, <2>4
<1> QED BY <1>1, Retained, PTL
=============================================================================
