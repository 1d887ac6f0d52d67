----------------------------- MODULE HostProofs -----------------------------
(***************************************************************************)
(* Proofs about the commands of a host: what a recursive definition over   *)
(* the list of paths computes, the loops over datasets and their exit      *)
(* status, and the times of resume tokens.                                 *)
(***************************************************************************)
EXTENDS Host, SequenceTheorems, WellFoundedInduction, TLAPS

-----------------------------------------------------------------------------
(* Sequences and the sets of their elements.                               *)

\* Head and tail of a list that is not empty.
LEMMA SetOfTail ==
  ASSUME NEW S, NEW q \in Seq(S), q # <<>>
  PROVE  /\ Head(q) \in S /\ Tail(q) \in Seq(S)
         /\ ToSet(q) = {Head(q)} \cup ToSet(Tail(q))
<1>1. Head(q) \in S /\ Tail(q) \in Seq(S) /\ Head(q) = q[1]
  OBVIOUS
<1>2. /\ DOMAIN q = 1..Len(q) /\ Len(q) \in Nat \ {0}
      /\ DOMAIN Tail(q) = 1..(Len(q) - 1)
      /\ \A i \in 1..(Len(q) - 1) : Tail(q)[i] = q[i + 1]
  OBVIOUS
<1>3. ASSUME NEW x \in ToSet(q) PROVE x \in {Head(q)} \cup ToSet(Tail(q))
  <2>1. PICK i \in DOMAIN q : x = q[i]
    BY <1>3 DEF ToSet
  <2>2. CASE i = 1
    BY <1>1, <2>1, <2>2
  <2>3. CASE i # 1
    <3>1. i - 1 \in 1..(Len(q) - 1) /\ (i - 1) + 1 = i
      BY <1>2, <2>1, <2>3
    <3> QED BY <1>2, <2>1, <3>1 DEF ToSet
  <2> QED BY <2>2, <2>3
<1>4. ASSUME NEW x \in {Head(q)} \cup ToSet(Tail(q)) PROVE x \in ToSet(q)
  <2>1. CASE x = Head(q)
    BY <1>1, <1>2, <2>1 DEF ToSet
  <2>2. CASE x \in ToSet(Tail(q))
    <3>1. PICK i \in DOMAIN Tail(q) : x = Tail(q)[i]
      BY <2>2 DEF ToSet
    <3>2. i + 1 \in DOMAIN q /\ x = q[i + 1]
      BY <1>2, <3>1
    <3> QED BY <3>2 DEF ToSet
  <2> QED BY <1>4, <2>1, <2>2
<1> QED BY <1>1, <1>3, <1>4

\* One more element at the end.
LEMMA SetOfAppend ==
  ASSUME NEW S, NEW q \in Seq(S), NEW e \in S
  PROVE  Append(q, e) \in Seq(S) /\ ToSet(Append(q, e)) = ToSet(q) \cup {e}
<1>1. /\ Append(q, e) \in Seq(S)
      /\ DOMAIN q = 1..Len(q) /\ Len(q) \in Nat
      /\ DOMAIN Append(q, e) = 1..(Len(q) + 1)
      /\ \A i \in 1..(Len(q) + 1) :
            Append(q, e)[i] = IF i = Len(q) + 1 THEN e ELSE q[i]
  OBVIOUS
<1>2. ASSUME NEW x \in ToSet(Append(q, e)) PROVE x \in ToSet(q) \cup {e}
  <2>1. PICK i \in DOMAIN Append(q, e) : x = Append(q, e)[i]
    BY <1>2 DEF ToSet
  <2>2. i = Len(q) + 1 \/ i \in DOMAIN q
    BY <1>1, <2>1
  <2> QED BY <1>1, <2>1, <2>2 DEF ToSet
<1>3. ASSUME NEW x \in ToSet(q) \cup {e} PROVE x \in ToSet(Append(q, e))
  <2>1. CASE x = e
    BY <1>1, <2>1 DEF ToSet
  <2>2. CASE x \in ToSet(q)
    <3>1. PICK i \in DOMAIN q : x = q[i]
      BY <2>2 DEF ToSet
    <3>2. i \in DOMAIN Append(q, e) /\ x = Append(q, e)[i]
      BY <1>1, <3>1
    <3> QED BY <3>2 DEF ToSet
  <2> QED BY <1>3, <2>1, <2>2
<1> QED BY <1>1, <1>2, <1>3

\* Nothing is left of an empty list.
LEMMA EmptySet == ToSet(<<>>) = {} /\ \A S : <<>> \in Seq(S)
  BY DEF ToSet

-----------------------------------------------------------------------------
(* Induction over the naturals, on a set: a least number outside S has its *)
(* predecessor in S.                                                       *)

Less == {p \in Nat \X Nat : p[1] < p[2]}

\* The order of the naturals is well founded.
LEMMA LessWellFounded == IsWellFoundedOn(Less, Nat)
<1>1. OpToRel(<, Nat) = Less
  BY Zenon DEF OpToRel, Less
<1> QED BY <1>1, NatLessThanWellFounded, Zenon

\* A set with 0 that is closed under successor has every natural number.
LEMMA SetInduction ==
  ASSUME NEW S \in SUBSET Nat, 0 \in S, \A n \in S : n + 1 \in S
  PROVE  S = Nat
<1> SUFFICES ASSUME Nat \ S # {} PROVE FALSE
  OBVIOUS
<1>1. \E m \in Nat \ S : \A k \in Nat \ S : <<k, m>> \notin Less
  BY LessWellFounded, WFMin
<1>2. PICK m \in Nat \ S : \A k \in Nat \ S : <<k, m>> \notin Less
  BY <1>1
<1>3. m - 1 \in Nat /\ m - 1 < m /\ (m - 1) + 1 = m
  BY <1>2
<1>4. <<m - 1, m>> \in Less
  BY <1>2, <1>3 DEF Less
<1> QED BY <1>2, <1>3, <1>4

-----------------------------------------------------------------------------
(* configured_datasets: the datasets of a config, sorted.                  *)

\* f satisfies the equation of Among for the first n paths.
Follows(S, f, n) ==
  f = [i \in 0..n |->
         IF i = 0 THEN <<>>
         ELSE IF Order[i] \in S THEN Append(f[i - 1], Order[i]) ELSE f[i - 1]]

\* The equation has a solution, however long the list.
LEMMA AmongExists ==
  ASSUME NEW S PROVE \A n \in Nat : \E f : Follows(S, f, n)
<1> DEFINE T == {n \in Nat : \E f : Follows(S, f, n)}
<1>1. 0 \in T
  <2> DEFINE g == [i \in 0..0 |-> <<>>]
  <2>1. Follows(S, g, 0)
    BY DEF Follows
  <2> QED BY <2>1
<1>2. ASSUME NEW n \in T PROVE n + 1 \in T
  <2>1. PICK f : Follows(S, f, n)
    OBVIOUS
  <2> DEFINE last == IF Order[n + 1] \in S THEN Append(f[n], Order[n + 1]) ELSE f[n]
             g == [i \in 0..(n + 1) |-> IF i = n + 1 THEN last ELSE f[i]]
             e(i) == IF i = 0 THEN <<>>
                     ELSE IF Order[i] \in S THEN Append(g[i - 1], Order[i]) ELSE g[i - 1]
  <2>2. ASSUME NEW i \in 0..(n + 1) PROVE g[i] = e(i)
    <3>1. CASE i = n + 1
      <4>1. i # 0 /\ i - 1 \in 0..(n + 1) /\ i - 1 # n + 1 /\ i - 1 = n
        BY <3>1
      <4>2. g[i - 1] = f[n]
        BY <4>1
      <4> QED BY <3>1, <4>1, <4>2
    <3>2. CASE i = 0
      <4>1. g[i] = f[i]
        BY <3>2
      <4>2. f[i] = <<>>
        BY <2>1, <3>2 DEF Follows
      <4> QED BY <3>2, <4>1, <4>2
    <3>3. CASE i # n + 1 /\ i # 0
      <4>1. i \in 0..n /\ i - 1 \in 0..n /\ i - 1 \in 0..(n + 1) /\ i - 1 # n + 1
        BY <3>3
      <4>2. g[i] = f[i] /\ g[i - 1] = f[i - 1]
        BY <3>3, <4>1
      <4>3. f[i] = IF Order[i] \in S THEN Append(f[i - 1], Order[i]) ELSE f[i - 1]
        BY <2>1, <3>3, <4>1 DEF Follows
      <4> QED BY <3>3, <4>2, <4>3
    <3> QED BY <3>1, <3>2, <3>3
  <2>3. g = [i \in 0..(n + 1) |-> e(i)]
    <3> HIDE DEF e, last
    <3> QED BY <2>2
  <2>4. Follows(S, g, n + 1)
    BY <2>3 DEF Follows
  <2> QED BY <2>4
<1>3. T = Nat
  <2> HIDE DEF T
  <2>1. T \in SUBSET Nat
    BY DEF T
  <2> QED BY <1>1, <1>2, <2>1, SetInduction
<1> QED BY <1>3

\* So Among is one.
LEMMA AmongFollows ==
  ASSUME NEW S PROVE Follows(S, Among(S), Len(Order))
<1>1. Len(Order) \in Nat
  BY PathsAssumption
<1>2. \E f : Follows(S, f, Len(Order))
  BY <1>1, AmongExists
<1>3. Among(S) = CHOOSE f : Follows(S, f, Len(Order))
  BY Zenon DEF Among, Follows
<1> QED BY <1>2, <1>3

\* A sorted list names exactly the datasets it is made of: none is lost or
\* invented on the way from a config to a command's list.
LEMMA SortedSet ==
  ASSUME NEW S
  PROVE  /\ Sorted(S) \in Seq(ToSet(Order))
         /\ ToSet(Sorted(S)) = S \cap ToSet(Order)
<1> DEFINE P == ToSet(Order)
           A == Among(S)
           First(n) == {Order[j] : j \in 1..n}
           T == {n \in Nat : n <= Len(Order) =>
                   A[n] \in Seq(P) /\ ToSet(A[n]) = S \cap First(n)}
<1>1. Len(Order) \in Nat /\ DOMAIN Order = 1..Len(Order)
  BY PathsAssumption
<1>2. \A i \in 0..Len(Order) :
        A[i] = IF i = 0 THEN <<>>
               ELSE IF Order[i] \in S THEN Append(A[i - 1], Order[i]) ELSE A[i - 1]
  BY AmongFollows DEF Follows
<1>3. \A i \in 1..Len(Order) : Order[i] \in P
  BY <1>1 DEF ToSet
<1> HIDE DEF A, P
<1>4. 0 \in T
  <2>1. A[0] = <<>> /\ First(0) = {} /\ ToSet(<<>>) = {}
    BY <1>1, <1>2 DEF ToSet
  <2>2. A[0] \in Seq(P) /\ ToSet(A[0]) = S \cap First(0)
    <3> HIDE DEF First
    <3> QED BY <2>1
  <2> HIDE DEF First
  <2> QED BY <2>2
<1>5. ASSUME NEW n \in T PROVE n + 1 \in T
  <2> SUFFICES ASSUME n + 1 <= Len(Order)
               PROVE  /\ A[n + 1] \in Seq(P)
                      /\ ToSet(A[n + 1]) = S \cap First(n + 1)
    OBVIOUS
  <2>1. n \in Nat /\ A[n] \in Seq(P) /\ ToSet(A[n]) = S \cap First(n)
    BY <1>1
  <2>2. First(n + 1) = First(n) \cup {Order[n + 1]}
    <3>1. 1..(n + 1) = (1..n) \cup {n + 1}
      BY <2>1
    <3> QED BY <3>1
  <2>3. Order[n + 1] \in P
    BY <1>1, <1>3, <2>1
  <2>4. A[n + 1] = IF Order[n + 1] \in S THEN Append(A[n], Order[n + 1]) ELSE A[n]
    <3>1. n + 1 \in 0..Len(Order) /\ n + 1 # 0 /\ (n + 1) - 1 = n
      BY <1>1, <2>1
    <3> QED BY <1>2, <3>1
  <2> HIDE DEF First
  <2>5. CASE Order[n + 1] \in S
    <3>1. /\ Append(A[n], Order[n + 1]) \in Seq(P)
          /\ ToSet(Append(A[n], Order[n + 1])) = ToSet(A[n]) \cup {Order[n + 1]}
      BY <2>1, <2>3, SetOfAppend
    <3> QED BY <2>1, <2>2, <2>4, <2>5, <3>1
  <2>6. CASE Order[n + 1] \notin S
    BY <2>1, <2>2, <2>4, <2>6
  <2> QED BY <2>5, <2>6
<1>6. T = Nat
  <2> HIDE DEF T
  <2>1. T \in SUBSET Nat
    BY DEF T
  <2> QED BY <1>4, <1>5, <2>1, SetInduction
<1>7. A[Len(Order)] \in Seq(P) /\ ToSet(A[Len(Order)]) = S \cap First(Len(Order))
  <2> HIDE DEF First
  <2>1. Len(Order) \in T
    <3> HIDE DEF T
    <3> QED BY <1>1, <1>6
  <2> QED BY <1>1, <2>1
<1>8. First(Len(Order)) = P
  BY <1>1 DEF P, ToSet
<1> QED BY <1>7, <1>8 DEF Sorted, A, P

-----------------------------------------------------------------------------
(* The inductive invariant.                                                *)

\* The loop of a command: what it was asked for is what is done, failed or
\* left, and only zrb snapshot goes on after a failure.
LoopInv ==
  /\ todo \in Seq(ToSet(Order))
  /\ targets = done \cup failed \cup ToSet(todo)
  /\ cmd = "none" => targets = {} /\ todo = <<>>
  /\ cmd # "snapshot" => failed = {}

\* Prune is on a dataset that exists when it aborts a token or clears a time.
FocusInv ==
  step \in {"present", "abort", "clear"} => todo # <<>> /\ Head(todo) \in Existing

\* A token that no session holds and that is not lapsed has a time of its own.
TimeInv ==
  \A d \in Existing :
     recv[d] = "idle" /\ token[d] # None /\ d \notin lapsed => since[d] # None

HostInv == TypeOK /\ LoopInv /\ FocusInv /\ TimeInv

LEMMA InitHost == Init => HostInv
<1> SUFFICES ASSUME Init PROVE HostInv
  OBVIOUS
<1>1. LoopInv
  BY EmptySet DEF Init, LoopInv
<1>2. TypeOK
  BY EmptySet, BoundsAssumption DEF Init, TypeOK
<1>3. FocusInv /\ TimeInv
  BY DEF Init, FocusInv, TimeInv
<1> QED BY <1>1, <1>2, <1>3 DEF HostInv

\* What a command is asked to work on are paths.
LEMMA TargetsType ==
  ASSUME NEW c, NEW f, NEW args, args \in Arguments \/ args = <<>>,
         \A i \in DOMAIN args : validate_dataset(args[i])
  PROVE  TargetsOf(c, f, args) \in Seq(ToSet(Order))
<1>1. args \in Seq(ToSet(Order))
  <2>1. CASE args = <<>>
    BY <2>1
  <2>2. CASE args \in Arguments
    <3>1. args \in Seq(ToSet(args)) /\ \A i \in DOMAIN args : args[i] \in ToSet(Order)
      BY <2>2, ArgumentsAssumption DEF validate_dataset
    <3>2. ToSet(args) \subseteq ToSet(Order)
      BY <3>1 DEF ToSet
    <3> QED BY <3>1, <3>2
  <2> QED BY <2>1, <2>2
<1>2. args # <<>> => args[1] \in ToSet(Order) /\ <<args[1]>> \in Seq(ToSet(Order))
  BY <1>1
<1>3. \A S : Sorted(S) \in Seq(ToSet(Order))
  BY SortedSet
<1>4. /\ server_datasets(f) \in Seq(ToSet(Order))
      /\ source_datasets(f) \in Seq(ToSet(Order))
      /\ Sorted(discover_datasets) \in Seq(ToSet(Order))
      /\ Sorted(datasets_matching(args[1])) \in Seq(ToSet(Order))
  BY <1>3 DEF server_datasets, source_datasets
<1> QED BY <1>1, <1>2, <1>4 DEF TargetsOf, resolve_datasets

\* One dataset is through.
LEMMA MovesInv ==
  ASSUME HostInv, NEW ok \in BOOLEAN, todo # <<>>, cmd # "none",
         ok \/ cmd = "snapshot", Moves(ok)
  PROVE  /\ LoopInv' /\ FocusInv'
         /\ ToSet(todo)' \subseteq targets' /\ done' \subseteq targets'
         /\ failed' \subseteq targets'
         /\ UNCHANGED <<cmd, targets, exit>> /\ step' = "token"
<1> USE DEF HostInv, LoopInv, TypeOK
<1>1. /\ Tail(todo) \in Seq(ToSet(Order))
      /\ ToSet(todo) = {Head(todo)} \cup ToSet(Tail(todo))
  BY SetOfTail
<1>2. /\ todo' = Tail(todo) /\ step' = "token"
      /\ UNCHANGED <<cmd, targets, exit>>
      /\ done' \cup failed' = done \cup failed \cup {Head(todo)}
      /\ cmd # "snapshot" => failed' = {}
  BY DEF Moves
<1>3. targets' = done' \cup failed' \cup ToSet(todo')
  BY <1>1, <1>2
<1>4. LoopInv'
  BY <1>1, <1>2, <1>3
<1>5. FocusInv'
  BY <1>2 DEF FocusInv
<1> QED BY <1>2, <1>3, <1>4, <1>5

\* The end of a command.
LEMMA EndsInv ==
  ASSUME NEW st \in {0, 1}, Ends(st)
  PROVE  /\ LoopInv' /\ FocusInv'
         /\ ToSet(todo)' \subseteq targets' /\ done' \subseteq targets'
         /\ failed' \subseteq targets' /\ targets' = {}
         /\ cmd' = "none" /\ exit' = st /\ step' = "token"
  BY EmptySet DEF Ends, LoopInv, FocusInv

\* Nothing happens to the loop.
LEMMA SameLoop ==
  ASSUME HostInv, UNCHANGED <<cmd, targets, todo, done, failed>>
  PROVE  /\ LoopInv'
         /\ targets' \subseteq ToSet(Order) /\ ToSet(todo)' \subseteq targets'
         /\ done' \subseteq targets' /\ failed' \subseteq targets'
  BY DEF HostInv, LoopInv, TypeOK

\* A step that leaves the loop alone keeps what the invariant says of it.
LEMMA QuietCommand ==
  ASSUME HostInv, UNCHANGED cmdVars, UNCHANGED zfs,
         token' \in [Existing -> Age \cup {None}],
         since' \in [Existing -> Age \cup {None}],
         recv' \in [Existing -> {"idle", "receiving", "annotate", "since", "mark"}],
         faults' \in 0..MaxFaults, lapsed' \subseteq Existing, TimeInv'
  PROVE  HostInv'
<1>1. UNCHANGED <<cmd, targets, todo, done, failed, step, exit>>
  BY DEF cmdVars
<1>2. TypeOK'
  BY <1>1, SameLoop DEF HostInv, TypeOK
<1>3. FocusInv'
  BY <1>1 DEF HostInv, FocusInv
<1> QED BY <1>1, <1>2, <1>3, SameLoop DEF HostInv

\* The days and the server sessions.
LEMMA SessionHost ==
  ASSUME HostInv, Day \/ \E d \in Existing : SessionStep(d)
  PROVE  HostInv'
<1> USE BoundsAssumption DEF HostInv, TypeOK, Age
<1>1. CASE Day
  <2>1. \A a \in Age \cup {None} : /\ Older(a) \in Age \cup {None}
                                   /\ Older(a) = None <=> a = None
    BY DEF Older
  <2>2. /\ token' = [d \in Existing |-> Older(token[d])]
        /\ since' = [d \in Existing |-> Older(since[d])]
        /\ UNCHANGED <<zfs, recv, cmdVars, faults, lapsed>>
    BY <1>1 DEF Day
  <2>3. /\ token' \in [Existing -> Age \cup {None}]
        /\ since' \in [Existing -> Age \cup {None}]
        /\ \A d \in Existing : /\ token'[d] = None <=> token[d] = None
                               /\ since'[d] = None <=> since[d] = None
    BY <2>1, <2>2
  <2>4. TimeInv'
    BY <2>2, <2>3 DEF TimeInv
  <2> QED BY <2>2, <2>3, <2>4, QuietCommand
<1>2. ASSUME NEW d \in Existing, SessionStep(d) PROVE HostInv'
  <2> DEFINE Typed == /\ token' \in [Existing -> Age \cup {None}]
                      /\ since' \in [Existing -> Age \cup {None}]
                      /\ recv' \in [Existing -> {"idle", "receiving", "annotate", "since", "mark"}]
                      /\ faults' \in 0..MaxFaults /\ lapsed' \subseteq Existing
  <2>1. UNCHANGED <<cmdVars, zfs>>
    BY <1>2 DEF SessionStep, ReceiveBegins, ReceiveCompletes,
       ReceiveInterrupted, ServerAnnotates, ServerReadsSince, ServerMarks, ServerDies
  <2>2. CASE ReceiveBegins(d)
    <3>1. Typed
      BY <2>2 DEF ReceiveBegins
    <3>2. TimeInv'
      BY <2>2 DEF ReceiveBegins, TimeInv
    <3> QED BY <2>1, <3>1, <3>2, QuietCommand
  <2>3. CASE ReceiveCompletes(d)
    <3>1. Typed
      BY <2>3 DEF ReceiveCompletes
    <3>2. TimeInv'
      BY <2>3 DEF ReceiveCompletes, TimeInv
    <3> QED BY <2>1, <3>1, <3>2, QuietCommand
  <2>4. CASE ReceiveInterrupted(d)
    <3>1. Typed
      BY <2>4 DEF ReceiveInterrupted, zfsVars
    <3>2. TimeInv'
      BY <2>4 DEF ReceiveInterrupted, TimeInv, zfsVars
    <3> QED BY <2>1, <3>1, <3>2, QuietCommand
  <2>5. CASE ServerAnnotates(d)
    <3>1. Typed
      BY <2>5 DEF ServerAnnotates, zfsVars
    <3>2. TimeInv'
      BY <2>5 DEF ServerAnnotates, TimeInv, zfsVars
    <3> QED BY <2>1, <3>1, <3>2, QuietCommand
  <2>6. CASE ServerMarks(d)
    <3>1. Typed
      BY <2>6 DEF ServerMarks
    <3>2. TimeInv'
      BY <2>6 DEF ServerMarks, TimeInv
    <3> QED BY <2>1, <3>1, <3>2, QuietCommand
  <2>7. CASE ServerDies(d)
    <3>1. Typed
      BY <2>7 DEF ServerDies, Leaves, Fault, zfsVars
    <3>2. TimeInv'
      BY <2>7 DEF ServerDies, Leaves, TimeInv, zfsVars
    <3> QED BY <2>1, <3>1, <3>2, QuietCommand
  <2>8. CASE ServerReadsSince(d)
    <3>1. Typed
      BY <2>8 DEF ServerReadsSince, Leaves, zfsVars
    <3>2. TimeInv'
      BY <2>8 DEF ServerReadsSince, Leaves, TimeInv, zfsVars
    <3> QED BY <2>1, <3>1, <3>2, QuietCommand
  <2> QED BY <1>2, <2>2, <2>3, <2>4, <2>5, <2>6, <2>7, <2>8 DEF SessionStep
<1> QED BY <1>1, <1>2

\* run(): a command starts with all it was asked for still to do.
LEMMA BeginHost ==
  ASSUME HostInv, NEW c \in {"snapshot", "prune"} \cup Lists, NEW f, NEW args,
         args \in Arguments \/ args = <<>>, NEW dry_run, NEW abort_resume,
         Begin(c, f, args, dry_run, abort_resume)
  PROVE  HostInv'
<1> USE DEF HostInv, TypeOK
<1>1. UNCHANGED <<zfs, token, since, recv, faults, lapsed, done, failed, step>>
  BY DEF Begin, zfsVars
<1>2. targets = {} /\ todo = <<>> /\ done = {} /\ failed = {} /\ cmd = "none"
  BY DEF Begin, LoopInv
<1>3. exit' \in {0, 1}
  BY DEF Begin
<1>4. step \notin {"present", "abort", "clear"}
  BY <1>2 DEF FocusInv
<1>5. FocusInv' /\ TimeInv'
  BY <1>1, <1>4 DEF FocusInv, TimeInv
<1>6. CASE /\ \A i \in DOMAIN args : validate_dataset(args[i])
           /\ cmd' = c /\ todo' = TargetsOf(c, f, args) /\ targets' = ToSet(todo')
  <2>1. todo' \in Seq(ToSet(Order))
    BY <1>6, TargetsType
  <2>2. ToSet(todo') \subseteq ToSet(Order)
    BY <2>1 DEF ToSet
  <2>3. LoopInv'
    BY <1>1, <1>2, <1>6, <2>1 DEF LoopInv, Lists
  <2>4. TypeOK'
    BY <1>1, <1>2, <1>3, <1>6, <2>2
  <2> QED BY <1>5, <2>3, <2>4
<1>7. CASE UNCHANGED <<cmd, targets, todo, done, failed>>
  <2>1. TypeOK' /\ LoopInv'
    BY <1>1, <1>3, <1>7, SameLoop
  <2> QED BY <1>5, <2>1
<1> QED BY <1>6, <1>7 DEF Begin

\* A step that ends the command, or is through with a dataset, and leaves the
\* datasets alone.
LEMMA LoopHost ==
  ASSUME HostInv, UNCHANGED <<zfs, zfsVars, recv, lapsed>>,
         faults' \in 0..MaxFaults,
         \/ \E st \in {0, 1} : Ends(st)
         \/ /\ todo # <<>> /\ cmd # "none"
            /\ \E ok \in BOOLEAN : (ok \/ cmd = "snapshot") /\ Moves(ok)
  PROVE  HostInv'
<1>1. TimeInv'
  BY DEF HostInv, TimeInv, zfsVars
<1>2. /\ LoopInv' /\ FocusInv'
      /\ ToSet(todo)' \subseteq targets' /\ done' \subseteq targets'
      /\ failed' \subseteq targets' /\ step' = "token"
      /\ \/ targets' = {} /\ cmd' = "none" /\ exit' \in {0, 1}
         \/ UNCHANGED <<cmd, targets, exit>>
  BY MovesInv, EndsInv
<1>3. TypeOK'
  BY <1>2 DEF HostInv, TypeOK, zfsVars
<1> QED BY <1>1, <1>2, <1>3 DEF HostInv

\* A step of prune on the dataset it is at.
LEMMA ToHost ==
  ASSUME HostInv, NEW s \in {"present", "absent", "abort", "clear", "apply"}, To(s),
         s \in {"present", "abort", "clear"} =>
            todo # <<>> /\ Head(todo) \in Existing,
         UNCHANGED <<zfs, recv, faults>>,
         token' \in [Existing -> Age \cup {None}],
         since' \in [Existing -> Age \cup {None}],
         lapsed' \subseteq Existing, TimeInv'
  PROVE  HostInv'
<1>1. step' = s /\ UNCHANGED <<cmd, targets, todo, done, failed, exit>>
  BY DEF To
<1>2. TypeOK'
  BY <1>1, SameLoop DEF HostInv, TypeOK
<1>3. FocusInv'
  BY <1>1 DEF FocusInv
<1> QED BY <1>1, <1>2, <1>3, SameLoop DEF HostInv

\* The commands, one step per action.
LEMMA CommandHost ==
  ASSUME HostInv, CommandStep \/ PruneDies
  PROVE  HostInv'
<1> USE DEF HostInv, TypeOK
<1>0. faults \in 0..MaxFaults /\ (Fault => faults' \in 0..MaxFaults)
  BY BoundsAssumption DEF Fault
<1>1. CASE Finish
  BY <1>0, <1>1, LoopHost DEF Finish
<1>2. CASE SnapshotOne
  BY <1>0, <1>2, LoopHost DEF SnapshotOne
<1>3. CASE ListOne
  BY <1>0, <1>3, LoopHost DEF ListOne, Lists
<1>4. CASE PruneReadsToken
  <2>1. get_resume_token(Head(todo)) # None => Head(todo) \in Existing
    BY DEF get_resume_token
  <2>2. TimeInv'
    BY <1>4 DEF PruneReadsToken, TimeInv, zfsVars
  <2> QED BY <1>4, <2>1, <2>2, ToHost DEF PruneReadsToken, Pruning, zfsVars
<1>5. CASE PruneDecides
  <2> DEFINE snc == get_resume_since(Head(todo))
             decision == resume_decision(step = "present", snc, opts.hold_days)
  <2>1. todo # <<>> /\ cmd = "prune"
    BY <1>5 DEF PruneDecides, Pruning
  <2>2. snc # None => Head(todo) \in Existing
    BY DEF get_resume_since
  <2>3. decision # "Idle" => Head(todo) \in Existing
    BY DEF resume_decision, FocusInv
  <2>4. UNCHANGED <<zfs, zfsVars, recv, faults, lapsed>>
    BY <1>5 DEF PruneDecides
  <2>5. TimeInv'
    BY <2>4 DEF TimeInv, zfsVars
  <2> HIDE DEF snc, decision
  <2>6. \/ /\ decision = "Idle"
           /\ To(IF snc # None /\ ~opts.dry_run THEN "clear" ELSE "apply")
        \/ decision # "Idle" /\ To(IF opts.dry_run THEN "apply" ELSE "abort")
        \/ Moves(TRUE)
    BY <1>5 DEF PruneDecides, snc, decision
  <2>7. CASE Moves(TRUE)
    BY <1>0, <2>1, <2>4, <2>7, LoopHost
  <2>8. CASE /\ decision = "Idle"
             /\ To(IF snc # None /\ ~opts.dry_run THEN "clear" ELSE "apply")
    BY <2>1, <2>2, <2>4, <2>5, <2>8, ToHost DEF zfsVars
  <2>9. CASE decision # "Idle" /\ To(IF opts.dry_run THEN "apply" ELSE "abort")
    BY <2>1, <2>3, <2>4, <2>5, <2>9, ToHost DEF zfsVars
  <2> QED BY <2>6, <2>7, <2>8, <2>9
<1>6. CASE PruneAborts
  <2> DEFINE d == Head(todo)
  <2>1. todo # <<>> /\ d \in Existing /\ UNCHANGED <<zfs, since, recv, faults>>
    BY <1>6 DEF PruneAborts, Pruning, FocusInv
  <2>2. CASE UNCHANGED <<token, lapsed>> /\ Ends(1)
    BY <1>0, <2>1, <2>2, LoopHost DEF zfsVars
  <2>3. CASE token' = [token EXCEPT ![d] = None] /\ lapsed' = lapsed \ {d} /\ To("clear")
    <3>1. /\ token' \in [Existing -> Age \cup {None}] /\ lapsed' \subseteq Existing
          /\ since' \in [Existing -> Age \cup {None}]
      BY <2>1, <2>3
    <3>2. TimeInv'
      BY <2>1, <2>3 DEF TimeInv
    <3> QED BY <2>1, <2>3, <3>1, <3>2, ToHost
  <2> QED BY <1>6, <2>2, <2>3 DEF PruneAborts
<1>7. CASE PruneClears
  <2> DEFINE d == Head(todo)
  <2>1. /\ todo # <<>> /\ d \in Existing /\ UNCHANGED <<zfs, token, recv, faults>>
        /\ since' = [since EXCEPT ![d] = None] /\ To("apply")
        /\ lapsed' = lapsed \cup {x \in {d} : token[x] # None}
    BY <1>7 DEF PruneClears, Pruning, FocusInv
  <2>2. /\ token' \in [Existing -> Age \cup {None}] /\ lapsed' \subseteq Existing
        /\ since' \in [Existing -> Age \cup {None}]
    BY <2>1
  <2>3. TimeInv'
    BY <2>1 DEF TimeInv
  <2> QED BY <2>1, <2>2, <2>3, ToHost
<1>8. CASE PruneApplies
  BY <1>0, <1>8, LoopHost DEF PruneApplies, Pruning
<1>9. CASE PruneDies
  BY <1>0, <1>9, LoopHost DEF PruneDies
<1> QED
  BY <1>1, <1>2, <1>3, <1>4, <1>5, <1>6, <1>7, <1>8, <1>9 DEF CommandStep

LEMMA NextHost == HostInv /\ [Next]_vars => HostInv'
<1> SUFFICES ASSUME HostInv, [Next]_vars PROVE HostInv'
  OBVIOUS
<1>1. CASE TimerPrune
  BY <1>1, BeginHost DEF TimerPrune
<1>2. CASE UserCommand
  BY <1>2, BeginHost DEF UserCommand
<1>3. CASE UNCHANGED vars
  <2>1. TypeOK' /\ LoopInv'
    BY <1>3, SameLoop DEF HostInv, TypeOK, vars, zfsVars, cmdVars
  <2>2. FocusInv' /\ TimeInv'
    BY <1>3 DEF HostInv, FocusInv, TimeInv, vars, zfsVars, cmdVars
  <2> QED BY <2>1, <2>2 DEF HostInv
<1> QED BY <1>1, <1>2, <1>3, SessionHost, CommandHost DEF Next

-----------------------------------------------------------------------------
(* The theorems.                                                           *)

\* Every command works on paths of the host's list only, and prune aborts
\* tokens and clears times of existing datasets only, for any config files,
\* arguments and tree of datasets.
THEOREM HostTyped == Spec => []TypeOK
<1>1. HostInv => TypeOK
  BY DEF HostInv
<1> QED BY <1>1, InitHost, NextHost, PTL DEF Spec

\* run()'s exit status: a command that exits 0 has worked through every dataset
\* it was asked for, zrb snapshot has tried every one whatever its status, and
\* prune never exits 0 after a failure, for any config, arguments and faults.
THEOREM StatusIsHonest == Spec => StatusTellsAll
<1> DEFINE Told == (cmd # "none" /\ cmd' = "none") =>
                      /\ exit' = 0 => done = targets /\ failed = {}
                      /\ cmd = "snapshot" => done \cup failed = targets
<1>1. HostInv /\ [Next]_vars => [Told]_vars
  <2> SUFFICES ASSUME HostInv, Next, cmd # "none", cmd' = "none"
               PROVE  /\ exit' = 0 => done = targets /\ failed = {}
                      /\ cmd = "snapshot" => done \cup failed = targets
    OBVIOUS
  <2>1. CASE Finish
    BY <2>1, EmptySet DEF Finish, Ends, HostInv, LoopInv
  <2>2. \/ Finish
        \/ exit' = 1 /\ cmd # "snapshot"
    <3>1. ~(Day \/ \E d \in Existing : SessionStep(d))
      BY DEF Day, SessionStep, ReceiveBegins, ReceiveCompletes,
         ReceiveInterrupted, ServerAnnotates, ServerReadsSince, ServerMarks, ServerDies,
         cmdVars
    <3>2. ~(TimerPrune \/ UserCommand)
      BY DEF TimerPrune, UserCommand, Begin
    <3>3. CASE SnapshotOne
      BY <3>3 DEF SnapshotOne, Moves
    <3>4. CASE ListOne
      BY <3>4 DEF ListOne, Moves, Ends, Lists
    <3>5. CASE PruneReadsToken \/ PruneDecides
      BY <3>5 DEF PruneReadsToken, PruneDecides, To, Moves
    <3>6. CASE PruneAborts \/ PruneClears \/ PruneApplies \/ PruneDies
      BY <3>6 DEF PruneAborts, PruneClears, PruneApplies, PruneDies, To, Moves,
         Ends, Pruning
    <3> QED BY <3>1, <3>2, <3>3, <3>4, <3>5, <3>6 DEF Next, CommandStep
  <2> QED BY <2>1, <2>2
<1> QED
  BY <1>1, InitHost, NextHost, PTL DEF Spec, StatusTellsAll

\* annotate_resume_if_needed and prune: a token that no session holds has a
\* zrb:resume-since of its own unless a fault, an inherited value or prune's
\* own clearing took it, which is the exception PruneKeepsUp makes.
THEOREM TokensHaveTimes == Spec => []TimeInv
<1>1. HostInv => TimeInv
  BY DEF HostInv
<1> QED BY <1>1, InitHost, NextHost, PTL DEF Spec
=============================================================================
