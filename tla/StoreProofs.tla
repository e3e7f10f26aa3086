----------------------------- MODULE StoreProofs -----------------------------
(***************************************************************************)
(* Theorems about Store, for any pods, users and times and any number of   *)
(* games and crashes: no pod serves before every file was executed, in     *)
(* order, and the integer average of a user falls behind by a bounded      *)
(* amount only.                                                            *)
(***************************************************************************)
EXTENDS Store, TLAPS

-----------------------------------------------------------------------------
(* Integer division. *)

LEMMA Division ==
  ASSUME NEW n \in Nat, NEW d \in Nat \ {0}
  PROVE  /\ n \div d \in Nat
         /\ 0 <= n - (n \div d) * d
         /\ n - (n \div d) * d <= d - 1
  BY Z3

\* What RunningAverage keeps of the games so far and one more is behind by at most the number of
\* games so far more than before.
LEMMA OneGameMore ==
  ASSUME NEW s \in [games : Nat, avg : Nat], NEW sum \in Nat, NEW time \in Nat,
         0 <= sum - s.avg * s.games,
         2 * (sum - s.avg * s.games) <= s.games * (s.games - 1)
  PROVE  /\ RunningAverage(s, time) \in Nat
         /\ 0 <= sum + time - RunningAverage(s, time) * (s.games + 1)
         /\ 2 * (sum + time - RunningAverage(s, time) * (s.games + 1)) <= (s.games + 1) * s.games
<1> DEFINE g == s.games
           old == s.avg * s.games
           new == RunningAverage(s, time)
<1>1. g \in Nat /\ s.avg \in Nat
  OBVIOUS
<1>2. old \in Nat
  BY <1>1
<1>3. CASE g = 0
  <2>1. new = time /\ old = 0
    BY <1>1, <1>3 DEF RunningAverage
  <2>2. sum = 0
    BY <1>3, <2>1
  <2> QED
    BY <1>3, <2>1, <2>2
<1>4. CASE g # 0
  <2>1. new = (old + time) \div (g + 1)
    BY <1>4 DEF RunningAverage
  <2>2. old + time \in Nat /\ g + 1 \in Nat \ {0}
    BY <1>1, <1>2
  <2>3. /\ new \in Nat
        /\ 0 <= old + time - new * (g + 1)
        /\ old + time - new * (g + 1) <= g + 1 - 1
    <3> DEFINE n == old + time
               d == g + 1
    <3> HIDE DEF n, d
    <3>1. n \in Nat /\ d \in Nat \ {0} /\ new = n \div d
      BY <2>1, <2>2 DEF n, d
    <3> HIDE DEF new
    <3>2. new \in Nat /\ 0 <= n - new * d /\ n - new * d <= d - 1
      BY <3>1, Division
    <3> QED
      BY <1>1, <3>2 DEF n, d
  <2> HIDE DEF new, old
  <2>4. new * (g + 1) \in Nat
    BY <1>1, <2>3
  <2>5. g * (g - 1) + 2 * g = (g + 1) * g
    BY <1>1
  <2>6. 0 <= sum - old /\ 2 * (sum - old) <= g * (g - 1)
    BY DEF old
  <2>7. 2 * (sum + time - new * (g + 1)) <= g * (g - 1) + 2 * g
    <3> DEFINE product == new * (g + 1)
               square == g * (g - 1)
    <3>1. product \in Nat /\ square \in Int
      BY <1>1, <2>4
    <3>2. 0 <= old + time - product /\ old + time - product <= g
      BY <1>1, <1>2, <2>3, <3>1
    <3> HIDE DEF product, square
    <3>3. 2 * (sum - old) <= square
      BY <2>6 DEF square
    <3>4. 2 * (sum + time - product) <= square + 2 * g
      BY <1>1, <1>2, <3>1, <3>2, <3>3
    <3> QED
      BY <3>4 DEF product, square
  <2>8. 0 <= sum + time - new * (g + 1)
    <3> DEFINE product == new * (g + 1)
    <3> HIDE DEF product
    <3>1. product \in Nat /\ 0 <= old + time - product
      BY <2>3, <2>4 DEF product
    <3>2. 0 <= sum + time - product
      BY <1>2, <2>6, <3>1
    <3> QED
      BY <3>2 DEF product
  <2>9. new = RunningAverage(s, time)
    BY DEF new
  <2> QED
    BY <2>3, <2>5, <2>7, <2>8, <2>9
<1> QED
  BY <1>3, <1>4

-----------------------------------------------------------------------------
(* Types. *)

\* A pod executes and records files only; one that is past file n has found 1..n recorded or
\* recorded them itself.
PodInOrder(p) ==
  /\ pod[p].at \in {"check", "apply", "record"} => 1 .. pod[p].file - 1 \subseteq recorded
  /\ pod[p].at \in {"apply", "record"} => pod[p].file \in Files
  /\ At(p, "record") => pod[p].file \in applied
  /\ At(p, "serving") => Files \subseteq recorded

Pipeline ==
  /\ recorded \subseteq applied
  /\ \A n \in applied : 1..n \subseteq applied
  /\ \A p \in Pods : PodInOrder(p)

\* The cases a proof about Next has to look at.
LEMMA StoreCases ==
  ASSUME [Next]_vars
  PROVE  \/ \E p \in Pods : Start(p) \/ Check(p)
         \/ \E p \in Pods : Apply(p)
         \/ \E p \in Pods : Record(p)
         \/ \E p \in Pods : Exit(p)
         \/ \E p \in Pods, players \in SUBSET Users : GameEnds(p, players)
         \/ \E s \in saves : \E u \in Users : SaveRow(s, u)
         \/ \E s \in saves : SaveStats(s)
         \/ UNCHANGED vars
  BY DEF Next, PodStep

\* A pod that moves is the only one, and the tables have not lost anything.
LEMMA OtherPods ==
  ASSUME TypeOK, Pipeline, NEW p \in Pods, NEW v, pod' = [pod EXCEPT ![p] = v],
         recorded \subseteq recorded', applied \subseteq applied',
         PodInOrder(p)'
  PROVE  \A q \in Pods : PodInOrder(q)'
<1> SUFFICES ASSUME NEW q \in Pods, q # p PROVE PodInOrder(q)'
  OBVIOUS
<1>1. pod'[q] = pod[q]
  BY DEF TypeOK
<1>2. PodInOrder(q)
  BY DEF Pipeline
<1> QED
  BY <1>1, <1>2 DEF PodInOrder, At

LEMMA TypeInit == Init => TypeOK
  BY DEF Init, TypeOK, Down, Stages, Last

\* One game more keeps statistics numbers, whatever they are.
LEMMA AverageIsNat ==
  ASSUME NEW s \in [games : Nat, avg : Nat], NEW time \in Nat
  PROVE  RunningAverage(s, time) \in Nat
<1> DEFINE n == s.avg * s.games + time
           d == s.games + 1
<1>1. n \in Nat /\ d \in Nat \ {0}
  OBVIOUS
<1> HIDE DEF n, d
<1>2. n \div d \in Nat
  BY <1>1, Division
<1> QED
  BY <1>2 DEF RunningAverage, n, d

LEMMA BackfilledIsNat ==
  ASSUME TypeOK, NEW u \in Users
  PROVE  Backfilled(u) \in [games : Nat, avg : Nat]
<1> DEFINE n == rows[u].sum
           d == rows[u].timed
<1>1. n \in Nat /\ d \in Nat /\ stats[u] \in [games : Nat, avg : Nat]
  BY DEF TypeOK
<1>2. CASE d > 0
  <2> HIDE DEF n, d
  <2>1. n \div d \in Nat
    BY <1>1, <1>2, Division
  <2> QED
    BY <1>1, <1>2, <2>1 DEF Backfilled, n, d
<1>3. CASE ~(d > 0)
  BY <1>1, <1>3 DEF Backfilled
<1> QED
  BY <1>2, <1>3

LEMMA TypeStep ==
  ASSUME TypeOK, Pipeline, [Next]_vars
  PROVE  TypeOK'
<1> USE StoreAssumption DEF TypeOK
<1>1. ASSUME NEW p \in Pods, Start(p) \/ Check(p) PROVE TypeOK'
  BY <1>1 DEF Start, Check, GoTo, At, Stages, Last, Files, schema, books
<1>2. ASSUME NEW p \in Pods, Apply(p) PROVE TypeOK'
  <2>1. pod[p].file \in Files
    BY <1>2 DEF Apply, At, Pipeline, PodInOrder
  <2>2. stats' \in [Users -> [games : Nat, avg : Nat]] /\ rewritten' \subseteq Users
    BY <1>2, BackfilledIsNat DEF Apply, ToBackfill
  <2>3. pod' \in [Pods -> [at : Stages, file : 1 .. Last + 1]]
    BY <1>2, <2>1 DEF Apply, GoTo, Stages, Last, Files
  <2> QED
    BY <1>2, <2>1, <2>2, <2>3 DEF Apply
<1>3. ASSUME NEW p \in Pods, Record(p) PROVE TypeOK'
  <2>1. pod[p].file \in Files
    BY <1>3 DEF Record, At, Pipeline, PodInOrder
  <2>2. pod' \in [Pods -> [at : Stages, file : 1 .. Last + 1]] /\ recorded' \subseteq Files
    <3>1. CASE pod[p].file \in recorded
      BY <1>3, <3>1 DEF Record, Down, Stages, Last
    <3>2. CASE pod[p].file \notin recorded
      <4>1. [at |-> "check", file |-> pod[p].file + 1] \in [at : Stages, file : 1 .. Last + 1]
        BY <2>1 DEF Stages, Last, Files
      <4>2. /\ pod' = [pod EXCEPT ![p] = [at |-> "check", file |-> pod[p].file + 1]]
            /\ recorded' = recorded \cup {pod[p].file}
        BY <1>3, <3>2 DEF Record, GoTo
      <4> QED
        BY <2>1, <4>1, <4>2
    <3> QED
      BY <3>1, <3>2
  <2> QED
    BY <1>3, <2>2 DEF Record, books
<1>4. ASSUME NEW p \in Pods, Exit(p) PROVE TypeOK'
  <2>1. pod' \in [Pods -> [at : Stages, file : 1 .. Last + 1]]
    BY <1>4 DEF Exit, Down, Stages, Last
  <2> QED
    BY <1>4, <2>1 DEF Exit, schema, books
<1>5. ASSUME NEW p \in Pods, NEW players \in SUBSET Users, GameEnds(p, players) PROVE TypeOK'
  BY <1>5 DEF GameEnds, schema, books
<1>6. ASSUME NEW s \in saves, NEW u \in Users, SaveRow(s, u) PROVE TypeOK'
  <2>1. saves' \subseteq [id : Nat, on : Pods, todo : SUBSET Users, of : Users \cup {NoUser}]
    <3> DEFINE t == [s EXCEPT !.todo = @ \ {u}, !.of = u]
    <3>1. t \in [id : Nat, on : Pods, todo : SUBSET Users, of : Users \cup {NoUser}]
      OBVIOUS
    <3>2. saves' = (saves \ {s}) \cup {t}
      BY <1>6 DEF SaveRow, Advance
    <3> HIDE DEF t
    <3> QED
      BY <3>1, <3>2
  <2>2. rows' \in [Users -> [all : Nat, timed : Nat, sum : Nat]]
    BY <1>6 DEF SaveRow
  <2> QED
    BY <1>6, <2>1, <2>2 DEF SaveRow, schema
<1>7. ASSUME NEW s \in saves, SaveStats(s) PROVE TypeOK'
  <2>1. s.of \in Users
    BY <1>7 DEF SaveStats
  <2>2. saves' \subseteq [id : Nat, on : Pods, todo : SUBSET Users, of : Users \cup {NoUser}]
    BY <1>7 DEF SaveStats, Advance
  <2>3. stats' \in [Users -> [games : Nat, avg : Nat]] /\ earned' \in [Users -> Nat]
    <3>1. CASE UNCHANGED <<stats, earned>>
      BY <3>1
    <3>2. ASSUME NEW time \in Times,
                 stats' = [stats EXCEPT ![s.of] = [games |-> @.games + 1,
                                                   avg   |-> RunningAverage(@, time)]],
                 earned' = [earned EXCEPT ![s.of] = @ + time]
          PROVE  stats' \in [Users -> [games : Nat, avg : Nat]] /\ earned' \in [Users -> Nat]
      BY <2>1, <3>2, AverageIsNat
    <3> QED
      BY <1>7, <3>1, <3>2 DEF SaveStats
  <2> QED
    BY <1>7, <2>2, <2>3 DEF SaveStats, schema
<1>8. CASE UNCHANGED vars
  BY <1>8 DEF vars, schema, books
<1> QED
  BY <1>1, <1>2, <1>3, <1>4, <1>5, <1>6, <1>7, <1>8, StoreCases

-----------------------------------------------------------------------------
(* The schema. *)

LEMMA PipelineInit == Init => Pipeline
  BY DEF Init, Pipeline, PodInOrder, At, Down

LEMMA PipelineStep ==
  ASSUME TypeOK, Pipeline, [Next]_vars
  PROVE  Pipeline'
<1>1. ASSUME NEW p \in Pods, Start(p) \/ Check(p) PROVE Pipeline'
  <2>1. PodInOrder(p) /\ pod[p].file \in 1 .. Last + 1 /\ pod \in [Pods -> [at : Stages, file : 1 .. Last + 1]]
    BY DEF Pipeline, TypeOK
  <2>2. UNCHANGED <<applied, recorded>>
    BY <1>1 DEF Start, Check, schema
  <2>3. PodInOrder(p)'
    BY <1>1, <2>1, <2>2 DEF Start, Check, GoTo, At, PodInOrder, Files, Last
  <2>4. PICK v : pod' = [pod EXCEPT ![p] = v]
    BY <1>1 DEF Start, Check, GoTo
  <2> QED
    BY <2>2, <2>3, <2>4, OtherPods DEF Pipeline
<1>2. ASSUME NEW p \in Pods, Apply(p) PROVE Pipeline'
  <2> DEFINE n == pod[p].file
  <2>1. n \in Files /\ 1 .. n - 1 \subseteq recorded
    BY <1>2 DEF Apply, At, Pipeline, PodInOrder
  <2>2. applied' = applied \cup {n} /\ recorded' = recorded
    BY <1>2 DEF Apply
  <2>3. \A k \in applied' : 1..k \subseteq applied'
    BY <2>1, <2>2 DEF Pipeline, Files, Last
  <2>4. pod' = [pod EXCEPT ![p] = [at |-> "record", file |-> n]]
    BY <1>2 DEF Apply, GoTo
  <2>5. PodInOrder(p)'
    BY <2>1, <2>2, <2>4 DEF TypeOK, At, PodInOrder
  <2> QED
    BY <2>2, <2>3, <2>4, <2>5, OtherPods DEF Pipeline
<1>3. ASSUME NEW p \in Pods, Record(p) PROVE Pipeline'
  <2> DEFINE n == pod[p].file
  <2>1. n \in Files /\ n \in applied /\ 1 .. n - 1 \subseteq recorded
    BY <1>3 DEF Record, At, Pipeline, PodInOrder
  <2>2. applied' = applied /\ recorded \subseteq recorded' /\ recorded' \subseteq recorded \cup {n}
    BY <1>3 DEF Record
  <2>3. PodInOrder(p)'
    BY <1>3, <2>1, <2>2 DEF Record, GoTo, Down, TypeOK, At, PodInOrder, Files, Last
  <2>4. PICK v : pod' = [pod EXCEPT ![p] = v]
    BY <1>3 DEF Record, GoTo
  <2> QED
    BY <2>1, <2>2, <2>3, <2>4, OtherPods DEF Pipeline
<1>4. ASSUME NEW p \in Pods, Exit(p) PROVE Pipeline'
  <2>1. pod' = [pod EXCEPT ![p] = Down] /\ UNCHANGED <<applied, recorded>>
    BY <1>4 DEF Exit, schema
  <2>2. PodInOrder(p)'
    BY <2>1 DEF TypeOK, Down, At, PodInOrder
  <2> QED
    BY <2>1, <2>2, OtherPods DEF Pipeline
<1>5. ASSUME \/ \E p \in Pods, players \in SUBSET Users : GameEnds(p, players)
             \/ \E s \in saves : \E u \in Users : SaveRow(s, u)
             \/ \E s \in saves : SaveStats(s)
             \/ UNCHANGED vars
      PROVE  Pipeline'
  <2>1. UNCHANGED <<pod, applied, recorded>>
    BY <1>5 DEF GameEnds, SaveRow, SaveStats, vars, schema
  <2> QED
    BY <2>1 DEF Pipeline, PodInOrder, At
<1> QED
  BY <1>1, <1>2, <1>3, <1>4, <1>5, StoreCases

LEMMA PipelineIsInvariant == Spec => [](TypeOK /\ Pipeline)
<1>1. Init => TypeOK /\ Pipeline
  BY TypeInit, PipelineInit
<1>2. TypeOK /\ Pipeline /\ [Next]_vars => (TypeOK /\ Pipeline)'
  BY TypeStep, PipelineStep
<1> QED
  BY <1>1, <1>2, PTL DEF Spec

\* Whichever pods start together and wherever they crash between executing a file and recording
\* it (migration.Run), files are executed in order, recorded only when executed, and all of them
\* before a pod serves.
THEOREM SchemaIsReady == Spec => []SchemaBeforeService
<1>1. TypeOK /\ Pipeline => SchemaBeforeService
  BY DEF Pipeline, PodInOrder, SchemaBeforeService
<1> QED
  BY <1>1, PipelineIsInvariant, PTL

-----------------------------------------------------------------------------
(* The averages. *)

LEMMA DriftInit == Init => AverageDrift
  BY DEF Init, AverageDrift, Behind

LEMMA DriftStep ==
  ASSUME TypeOK, AverageDrift, [Next]_vars
  PROVE  AverageDrift'
<1> USE StoreAssumption
<1>1. ASSUME NEW p \in Pods, Apply(p) PROVE AverageDrift'
  <2>1. \A u \in Users \ rewritten' : u \notin rewritten /\ stats'[u] = stats[u] /\ earned'[u] = earned[u]
    BY <1>1 DEF Apply, TypeOK
  <2> QED
    BY <2>1 DEF AverageDrift, Behind
<1>2. ASSUME NEW s \in saves, SaveStats(s) PROVE AverageDrift'
  <2>1. s.of \in Users /\ rewritten' = rewritten
    BY <1>2 DEF SaveStats, TypeOK
  <2>2. CASE UNCHANGED <<stats, earned>>
    BY <2>1, <2>2 DEF AverageDrift, Behind
  <2>3. ASSUME NEW time \in Times,
               stats' = [stats EXCEPT ![s.of] = [games |-> @.games + 1,
                                                 avg   |-> RunningAverage(@, time)]],
               earned' = [earned EXCEPT ![s.of] = @ + time]
        PROVE  AverageDrift'
    <3> SUFFICES ASSUME NEW u \in Users \ rewritten
                 PROVE  (0 <= Behind(u) /\ 2 * Behind(u) <= stats[u].games * (stats[u].games - 1))'
      BY <2>1 DEF AverageDrift
    <3>1. /\ stats[u] \in [games : Nat, avg : Nat] /\ earned[u] \in Nat
          /\ 0 <= earned[u] - stats[u].avg * stats[u].games
          /\ 2 * (earned[u] - stats[u].avg * stats[u].games) <= stats[u].games * (stats[u].games - 1)
      BY DEF TypeOK, AverageDrift, Behind
    <3>2. CASE u # s.of
      <4>1. stats'[u] = stats[u] /\ earned'[u] = earned[u]
        BY <2>3, <3>2 DEF TypeOK
      <4> QED
        BY <3>1, <4>1 DEF Behind
    <3>3. CASE u = s.of
      <4> DEFINE g == stats[u].games
                 new == RunningAverage(stats[u], time)
      <4>1. /\ stats'[u] = [games |-> g + 1, avg |-> new]
            /\ earned'[u] = earned[u] + time
        BY <2>1, <2>3, <3>3 DEF TypeOK
      <4>2. /\ new \in Nat
            /\ 0 <= earned[u] + time - new * (g + 1)
            /\ 2 * (earned[u] + time - new * (g + 1)) <= (g + 1) * g
        BY <3>1, OneGameMore
      <4>3. g \in Nat /\ g + 1 - 1 = g
        BY <3>1
      <4> HIDE DEF new, g
      <4>4. stats'[u].games = g + 1 /\ stats'[u].avg = new
        BY <4>1
      <4>5. Behind(u)' = earned[u] + time - new * (g + 1)
        BY <3>1, <4>1, <4>2, <4>3, <4>4 DEF Behind
      <4>6. stats'[u].games - 1 = g
        BY <4>3, <4>4
      <4> QED
        BY <4>2, <4>4, <4>5, <4>6
    <3> QED
      BY <3>2, <3>3
  <2> QED
    BY <1>2, <2>2, <2>3 DEF SaveStats
<1>3. ASSUME UNCHANGED <<stats, earned>> /\ rewritten' = rewritten PROVE AverageDrift'
  BY <1>3 DEF AverageDrift, Behind
<1>4. ASSUME \/ \E p \in Pods : Start(p) \/ Check(p) \/ Record(p) \/ Exit(p)
             \/ \E p \in Pods, players \in SUBSET Users : GameEnds(p, players)
             \/ \E s \in saves : \E u \in Users : SaveRow(s, u)
             \/ UNCHANGED vars
      PROVE  UNCHANGED <<stats, earned>> /\ rewritten' = rewritten
  BY <1>4 DEF Start, Check, Record, Exit, GameEnds, SaveRow, vars, books
<1> QED
  BY <1>1, <1>2, <1>3, <1>4, StoreCases

\* UpdateStats in the integers of the database never overstates a user's average, and after g
\* games the sum it stands for has lost at most 0 + 1 + ... + (g - 1) milliseconds, though writes
\* fail and pods crash between them.
THEOREM DriftIsBounded == Spec => []AverageDrift
<1>1. Init => AverageDrift
  BY DriftInit
<1>2. TypeOK /\ AverageDrift /\ [Next]_vars => AverageDrift'
  BY DriftStep
<1>3. Spec => []TypeOK
  BY PipelineIsInvariant, PTL
<1> QED
  BY <1>1, <1>2, <1>3, PTL DEF Spec
=============================================================================
