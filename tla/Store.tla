-------------------------------- MODULE Store --------------------------------
(***************************************************************************)
(* What the backend pods write to PostgreSQL: each pod migrates the schema *)
(* when it starts, serves, and saves the results of the games that end on  *)
(* it; it may end at any moment and is started again.  A statement is      *)
(* atomic, two of them are not.  Of what a migration does, only what it    *)
(* does to the statistics is kept.                                         *)
(***************************************************************************)
EXTENDS Integers, FiniteSets

CONSTANTS
  Pods, Users,
  NoUser,
  Times,      \* average reactions of a player in a game, in milliseconds
  MaxGames,   \* bound: games that end
  MaxExits    \* bound: pods that end

ASSUME StoreAssumption ==
  /\ NoUser \notin Users
  /\ Times \subseteq Nat
  /\ MaxGames \in Nat /\ MaxExits \in Nat

VARIABLES
  pod,        \* what each pod is at, and with which migration
  applied,    \* history: the migrations that were executed and committed
  recorded,   \* the table schema_migrations
  stats,      \* of the table users: games_played and avg_reaction_ms
  rows,       \* the table game_session_players by user: rows, rows with a time, and their sum
  saves,      \* goroutines in SaveGameResults, past the insert of their session
  earned,     \* history: by user, the sum of what UpdateStats was given
  rewritten,  \* history: users whose statistics a migration has overwritten
  games, exits

schema == <<applied, recorded>>
books  == <<stats, rows, earned>>
vars   == <<pod, schema, books, saves, rewritten, games, exits>>

\* The files in the order of their names: 001_schema, 002_reaction_scoring, 002_seed,
\* 003_backfill_reaction, 004_indexes.
Last     == 5
Backfill == 4
Files    == 1..Last

Stages == {"down", "check", "apply", "record", "serving"}

TypeOK ==
  /\ pod \in [Pods -> [at : Stages, file : 1 .. Last + 1]]
  /\ applied \subseteq Files /\ recorded \subseteq Files
  /\ stats \in [Users -> [games : Nat, avg : Nat]]
  /\ rows \in [Users -> [all : Nat, timed : Nat, sum : Nat]]
  /\ saves \subseteq [id : Nat, on : Pods, todo : SUBSET Users, of : Users \cup {NoUser}]
  /\ earned \in [Users -> Nat]
  /\ rewritten \subseteq Users
  /\ games \in Nat /\ exits \in Nat

Down == [at |-> "down", file |-> 1]

Init ==
  /\ pod = [p \in Pods |-> Down]
  /\ applied = {} /\ recorded = {}
  /\ stats = [u \in Users |-> [games |-> 0, avg |-> 0]]
  /\ rows = [u \in Users |-> [all |-> 0, timed |-> 0, sum |-> 0]]
  /\ saves = {}
  /\ earned = [u \in Users |-> 0]
  /\ rewritten = {}
  /\ games = 0 /\ exits = 0

-----------------------------------------------------------------------------
(* A pod's start: migration.Run, file by file. *)

At(p, stage) == pod[p].at = stage

GoTo(p, stage, n) == pod' = [pod EXCEPT ![p] = [at |-> stage, file |-> n]]

\* The process starts, waits for the database and sees to its schema_migrations table.
Start(p) ==
  /\ At(p, "down")
  /\ GoTo(p, "check", 1)
  /\ UNCHANGED <<schema, books, saves, rewritten, games, exits>>

\* Seeded fault: a file is executed whether it is recorded or not.
CheckNothing(p) ==
  /\ At(p, "check")
  /\ LET n == pod[p].file IN GoTo(p, IF n > Last THEN "serving" ELSE "apply", n)
  /\ UNCHANGED <<schema, books, saves, rewritten, games, exits>>

\* Is the next file recorded?  After the last one the pod serves.
Check(p) ==
  /\ At(p, "check")
  /\ LET n == pod[p].file IN
     CASE n > Last       -> GoTo(p, "serving", n)
       [] n \in recorded -> GoTo(p, "check", n + 1)
       [] OTHER          -> GoTo(p, "apply", n)
  /\ UNCHANGED <<schema, books, saves, rewritten, games, exits>>

\* 003_backfill_reaction: the average of the user's rows that have a time.
Backfilled(u) ==
  [stats[u] EXCEPT !.avg = IF rows[u].timed > 0 THEN rows[u].sum \div rows[u].timed ELSE 0]

ToBackfill == {u \in Users : stats[u].games > 0 /\ rows[u].all > 0}

\* Seeded fault: a file is recorded before it is executed.
RecordFirst(p) ==
  /\ At(p, "apply")
  /\ recorded' = recorded \cup {pod[p].file}
  /\ GoTo(p, "record", pod[p].file)
  /\ UNCHANGED <<applied, books, saves, rewritten, games, exits>>

\* The file is executed, as one transaction.
Apply(p) ==
  /\ At(p, "apply")
  /\ LET n == pod[p].file IN
     /\ applied' = applied \cup {n}
     /\ IF n = Backfill
          THEN /\ stats' = [u \in Users |-> IF u \in ToBackfill THEN Backfilled(u) ELSE stats[u]]
               /\ rewritten' = rewritten \cup ToBackfill
          ELSE UNCHANGED <<stats, rewritten>>
     /\ GoTo(p, "record", n)
  /\ UNCHANGED <<recorded, rows, earned, saves, games, exits>>

\* The insert into schema_migrations fails when another pod has made it: the process exits.
Record(p) ==
  /\ At(p, "record")
  /\ IF pod[p].file \in recorded
       THEN pod' = [pod EXCEPT ![p] = Down] /\ UNCHANGED recorded
       ELSE /\ GoTo(p, "check", pod[p].file + 1)
            /\ recorded' = recorded \cup {pod[p].file}
  /\ UNCHANGED <<applied, books, saves, rewritten, games, exits>>

\* The process ends: a crash, a shutdown, which waits for no goroutine, or a statement that failed
\* while it migrated.
Exit(p) ==
  /\ ~At(p, "down")
  /\ exits < MaxExits
  /\ pod' = [pod EXCEPT ![p] = Down]
  /\ saves' = {s \in saves : s.on # p}
  /\ exits' = exits + 1
  /\ UNCHANGED <<schema, books, rewritten, games>>

-----------------------------------------------------------------------------
(* SaveGameResults. *)

\* A game ends and its session is inserted; when that fails nothing is saved.  Players may have
\* left since the ranking was made: whoever is still in the room is walked.
GameEnds(p, players) ==
  /\ At(p, "serving")
  /\ games < MaxGames
  /\ games' = games + 1
  /\ saves' = saves \cup {[id |-> games + 1, on |-> p, todo |-> players, of |-> NoUser]}
  /\ UNCHANGED <<pod, schema, books, rewritten, exits>>

Advance(s, t) == saves' = (saves \ {s}) \cup {t}

\* CreatePlayerResult: the average without the penalties for wrong answers; a failure is logged.
SaveRow(s, u) ==
  /\ s.of = NoUser /\ u \in s.todo
  /\ Advance(s, [s EXCEPT !.todo = @ \ {u}, !.of = u])
  /\ \/ \E time \in Times :
          rows' = [rows EXCEPT ![u] = [all   |-> @.all + 1,
                                       timed |-> IF time > 0 THEN @.timed + 1 ELSE @.timed,
                                       sum   |-> @.sum + time]]
     \/ UNCHANGED rows
  /\ UNCHANGED <<pod, schema, stats, earned, rewritten, games, exits>>

\* Seeded fault: the new game is not among the games it is averaged over.
AverageOfOld(s, time) ==
  IF s.games = 0 THEN time ELSE (s.avg * s.games + time) \div s.games

\* The expression of UpdateStats, in the integers of SQL.
RunningAverage(s, time) ==
  IF s.games = 0 THEN time ELSE (s.avg * s.games + time) \div (s.games + 1)

\* UpdateStats: one statement; a failure is logged.  The number of correct answers and the best
\* time are left out.
SaveStats(s) ==
  LET u == s.of IN
  /\ u # NoUser
  /\ Advance(s, [s EXCEPT !.of = NoUser])
  /\ \/ \E time \in Times :
          /\ stats' = [stats EXCEPT ![u] = [games |-> @.games + 1, avg |-> RunningAverage(@, time)]]
          /\ earned' = [earned EXCEPT ![u] = @ + time]
     \/ UNCHANGED <<stats, earned>>
  /\ UNCHANGED <<pod, schema, rows, rewritten, games, exits>>

-----------------------------------------------------------------------------
PodStep(p) == Start(p) \/ Check(p) \/ Apply(p) \/ Record(p)

Next ==
  \/ \E p \in Pods : PodStep(p) \/ Exit(p)
  \/ \E p \in Pods, players \in SUBSET Users : GameEnds(p, players)
  \/ \E s \in saves : SaveStats(s) \/ \E u \in Users : SaveRow(s, u)

Spec == Init /\ [][Next]_vars

\* A process that ended is started again, and one that migrates goes on.
FairSpec == Spec /\ \A p \in Pods : WF_vars(PodStep(p))

-----------------------------------------------------------------------------
(* Properties. *)

\* What is recorded was executed, in the order of the files, whichever pods start together and
\* wherever one ends; a pod serves no player before every file was.
SchemaBeforeService ==
  /\ recorded \subseteq applied
  /\ \A n \in applied : 1..n \subseteq applied
  /\ \A p \in Pods : At(p, "serving") => Files \subseteq applied

\* The average kept for a user is never above the average of the games counted, and each game
\* after the first lets it fall behind by less than a millisecond times its number: after g games
\* by (g - 1) / 2 ms at most.  Whom a late migration has rewritten is excepted.
Behind(u) == earned[u] - stats[u].avg * stats[u].games

AverageDrift ==
  \A u \in Users \ rewritten :
    0 <= Behind(u) /\ 2 * Behind(u) <= stats[u].games * (stats[u].games - 1)

\* A pod that is down comes to serve, also when two start together and the insert into
\* schema_migrations of one fails because the other has made it, once pods no longer crash.
PodsComeUp == \A p \in Pods : At(p, "down") ~> At(p, "serving")
=============================================================================
