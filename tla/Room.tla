-------------------------------- MODULE Room --------------------------------
(***************************************************************************)
(* One game room of the backend: backend/internal/ws/room.go, with the     *)
(* steps of the connection lifecycle (backend/internal/ws/hub.go) that     *)
(* call into it.                                                           *)
(*                                                                         *)
(* Every critical section under r.mu is one action.  A goroutine or a      *)
(* time.AfterFunc between two critical sections is a counter of pending    *)
(* executions: `starting` (go r.startGame, or a host's reader inside it),  *)
(* `sleeping` (the 3 s countdown), `advancing` (a delayed r.nextRound),    *)
(* `arming` (nextRound after its unlock, before it assigns r.RoundTimer),  *)
(* `fired` (a round timer's callback waiting for r.mu) and `finishing`     *)
(* (nextRound after its unlock, before finishGame locks).  Go promises     *)
(* only that a timer is not early, so a pending timer may fire at any      *)
(* moment, and the 500 ms grace test of HandleHit may go either way (a     *)
(* rejected hit changes nothing: it is a stuttering step).                 *)
(***************************************************************************)
EXTENDS Naturals, Sequences, FiniteSets

CONSTANTS
  Clients,      \* connection objects (*Client), local ones and proxies alike
  Users,        \* user IDs
  UserOf,       \* the user a connection was authenticated as
  NoUser,       \* the zero UUID, HostID of a room nobody created explicitly
  Modes,        \* the game modes rooms are made for
  Creator,      \* the connection whose request made the room
  Targets,      \* target IDs a hit may name
  Vocabs,       \* the room's questions, each as the ID of its correct target
  TotalRounds,  \* maxRounds, 10 in the code
  MaxPlayers,   \* maxPlayers, 100 in the code
  MaxStarts     \* bound, by mode: how often players may launch startGame

ASSUME UsersAssumption     == /\ UserOf \in [Clients -> Users]
                              /\ NoUser \notin Users
ASSUME ModeAssumption      == Modes \subseteq {"solo", "duel", "battle"}
ASSUME CreatorAssumption   == Creator \in Clients
ASSUME VocabsAssumption    == Vocabs \in Seq(Targets) /\ Vocabs # << >>
ASSUME RoundsAssumption    == TotalRounds \in Nat \ {0}
ASSUME CapacityAssumption  == /\ MaxPlayers \in Nat \ {0}
                              /\ MaxStarts \in [Modes -> Nat]

VARIABLES
  mode,        \* r.mode, fixed by NewRoom
  state,       \* r.State
  hostID,      \* r.HostID
  roster,      \* keys of r.Players
  ready,       \* players with ps.Ready
  answered,    \* players with ps.Answered
  correct,     \* ps.CorrectCount
  answers,     \* len(ps.AllReactions)
  claimed,     \* r.ClaimedTargets: target -> user, NoUser when absent
  round,       \* r.CurrentRound
  roundTimer,  \* "armed" iff r.RoundTimer is a timer Stop() can still cancel
  conn,        \* where each connection is in its life, see ConnStates
  closing,     \* has a go Hub.RemoveRoom been launched?
  starting, sleeping, advancing, arming, fired, finishing,
  strays,      \* pending round timers r.RoundTimer no longer refers to
  starts,      \* history: startGame executions launched
  opened,      \* history: rounds opened by nextRound
  saves        \* history: executions of finishGame, each saves the results

players == <<roster, ready, answered, correct, answers>>
game    == <<state, claimed, round, roundTimer>>
pending == <<starting, sleeping, advancing, arming, fired, finishing, strays>>
history == <<starts, opened, saves>>
vars    == <<players, game, pending, history, mode, hostID, conn, closing>>

States == {"Waiting", "Countdown", "Playing", "RoundEnd", "Finished"}
Active == {"Countdown", "Playing", "RoundEnd"}

(***************************************************************************)
(* "idle": not connected yet.  "out": connected, client.Room is nil.       *)
(* "in": client.Room is this room.  "dropped": unregistered, its 30 s      *)
(* grace timer runs.  "expired": that timer fired, its callback has not    *)
(* taken h.mu, so the hub still lists the player as disconnected.          *)
(* "removing": RemovePlayer will be called for it.  "gone": it has nothing *)
(* to do with the room any more; only a battle's code lets a leaver back.  *)
(***************************************************************************)
ConnStates ==
  {"idle", "out", "in", "dropped", "expired", "removing", "gone"}

UsersIn(S) == {UserOf[c] : c \in S}

\* correctVocab.ID of the current round.
CorrectTarget == Vocabs[((round - 1) % Len(Vocabs)) + 1]

\* NewRoom and the creator's AddPlayer: the room is not in the hub's maps yet.
Init ==
  /\ mode \in Modes
  /\ state = "Waiting"
  /\ hostID = IF mode = "battle" THEN UserOf[Creator] ELSE NoUser
  /\ roster = {Creator} /\ ready = {} /\ answered = {}
  /\ correct = [c \in Clients |-> 0]
  /\ answers = [c \in Clients |-> 0]
  /\ claimed = [t \in Targets |-> NoUser]
  /\ round = 0
  /\ roundTimer = "none"
  /\ conn = [c \in Clients |-> IF c = Creator THEN "in" ELSE "idle"]
  /\ closing = FALSE
  /\ starting = 0 /\ sleeping = 0 /\ advancing = 0 /\ arming = 0
  /\ fired = 0 /\ finishing = 0 /\ strays = 0
  /\ starts = 0 /\ opened = 0 /\ saves = 0

-----------------------------------------------------------------------------
(* Joining, getting ready and starting. *)

\* Who enters after the creator: nobody in solo (the code is never sent out); a
\* duel's opponent (the matchmaker never pairs a user with itself); anybody
\* with a battle's code, a player already in it too.
MayEnter(c) ==
  /\ conn[c] \in {"out", "in"}
  /\ mode # "solo"
  /\ mode = "duel" => UserOf[c] \notin UsersIn(roster)

\* Seeded fault: a started countdown still lets players in.
JoinableWhenCounting ==
  /\ state \in {"Waiting", "Countdown"}
  /\ mode = "duel" => Cardinality(roster) < 2
  /\ Cardinality(roster) < MaxPlayers

Joinable ==
  /\ state = "Waiting"
  /\ mode = "duel" => Cardinality(roster) < 2
  /\ Cardinality(roster) < MaxPlayers

AddPlayer(c) ==
  /\ MayEnter(c)
  /\ Joinable
  /\ roster'   = roster \cup {c}
  /\ ready'    = ready \ {c}
  /\ answered' = answered \ {c}
  /\ correct'  = [correct EXCEPT ![c] = 0]
  /\ answers'  = [answers EXCEPT ![c] = 0]
  /\ conn'     = [conn EXCEPT ![c] = "in"]
  /\ UNCHANGED <<game, pending, history, mode, hostID, closing>>

\* go r.startGame(): launched, its critical section comes later.
LaunchStart ==
  /\ starts < MaxStarts[mode]
  /\ starts' = starts + 1
  /\ starting' = starting + 1
  /\ UNCHANGED <<sleeping, advancing, arming, fired, finishing, strays,
                 opened, saves>>

\* SetReady looks at nobody's state but Ready: it also runs during a game.
SetReady(c) ==
  /\ conn[c] = "in"
  /\ c \in roster
  /\ ready' = ready \cup {c}
  /\ IF /\ roster \subseteq ready'
        /\ \/ mode = "solo"
           \/ mode = "duel" /\ Cardinality(roster) = 2
       THEN LaunchStart
       ELSE UNCHANGED <<pending, history>>
  /\ UNCHANGED <<roster, answered, correct, answers, game, mode, hostID, conn, closing>>

StartByHost(c) ==
  /\ conn[c] = "in"
  /\ UserOf[c] = hostID
  /\ roster # {}
  /\ ready' = roster
  /\ LaunchStart
  /\ UNCHANGED <<roster, answered, correct, answers, game, mode, hostID, conn, closing>>

StartGame ==
  /\ starting > 0
  /\ starting' = starting - 1
  /\ sleeping' = sleeping + 1
  /\ state' = "Countdown"
  /\ round' = 0
  /\ UNCHANGED <<players, claimed, roundTimer, advancing, arming, fired,
                 finishing, strays, history, mode, hostID, conn, closing>>

-----------------------------------------------------------------------------
(* The round loop. *)

\* Seeded fault: one round too many.
PastLastOffByOne(n) == n > TotalRounds + 1

PastLast(n) == n > TotalRounds

\* nextRound up to its unlock, in either of its two outcomes.
NextRound ==
  /\ round' = round + 1
  /\ IF PastLast(round + 1)
       THEN /\ finishing' = finishing + 1
            /\ UNCHANGED <<state, answered, claimed, arming, opened>>
       ELSE /\ state' = "Playing"
            /\ answered' = {}
            /\ claimed' = [t \in Targets |-> NoUser]
            /\ arming' = arming + 1
            /\ opened' = opened + 1
            /\ UNCHANGED finishing
  /\ UNCHANGED <<roster, ready, correct, answers, roundTimer, starting,
                 fired, strays, starts, saves, mode, hostID, conn, closing>>

CountdownOver ==
  /\ sleeping > 0
  /\ sleeping' = sleeping - 1
  /\ NextRound
  /\ UNCHANGED advancing

DelayOver ==
  /\ advancing > 0
  /\ advancing' = advancing - 1
  /\ NextRound
  /\ UNCHANGED sleeping

\* r.RoundTimer = time.AfterFunc(...): what it referred to keeps running.
ArmRoundTimer ==
  /\ arming > 0
  /\ arming' = arming - 1
  /\ strays' = IF roundTimer = "armed" THEN strays + 1 ELSE strays
  /\ roundTimer' = "armed"
  /\ UNCHANGED <<players, state, claimed, round, starting, sleeping, advancing,
                 fired, finishing, history, mode, hostID, conn, closing>>

RoundTimerFires ==
  /\ \/ roundTimer = "armed" /\ roundTimer' = "none" /\ UNCHANGED strays
     \/ strays > 0 /\ strays' = strays - 1 /\ UNCHANGED roundTimer
  /\ fired' = fired + 1
  /\ UNCHANGED <<players, state, claimed, round, starting, sleeping, advancing,
                 arming, finishing, history, mode, hostID, conn, closing>>

\* Seeded fault: the timeout does not schedule the next round.
TimeoutForgetsNextRound ==
  /\ fired > 0
  /\ fired' = fired - 1
  /\ state' = IF state = "Playing" THEN "RoundEnd" ELSE state
  /\ UNCHANGED <<players, claimed, round, roundTimer, starting, sleeping, advancing,
                 arming, finishing, strays, history, mode, hostID, conn, closing>>

\* The callback knows no round: it ends whichever one is being played.
OnRoundTimeout ==
  /\ fired > 0
  /\ fired' = fired - 1
  /\ IF state = "Playing"
       THEN state' = "RoundEnd" /\ advancing' = advancing + 1
       ELSE UNCHANGED <<state, advancing>>
  /\ UNCHANGED <<players, claimed, round, roundTimer, starting, sleeping,
                 arming, finishing, strays, history, mode, hostID, conn, closing>>

\* Seeded fault: ps.Answered is not looked at.
MayAnswerTwice(c) == c \in roster

MayAnswer(c) == c \in roster \ answered

\* Seeded faults: claims are looked at in duels only, or not in the grace period.
TargetFreeInDuel(t) == mode = "duel" => claimed[t] = NoUser
TargetFreeWhilePlaying(t) ==
  mode # "solo" /\ state = "Playing" => claimed[t] = NoUser

TargetFree(t) == mode # "solo" => claimed[t] = NoUser

\* Seeded fault: the claim names the connection instead of its user.
ClaimByConnection(c, t) == [claimed EXCEPT ![t] = c]

Claim(c, t) == [claimed EXCEPT ![t] = UserOf[c]]

EndsRound(isCorrect) ==
  IF mode = "battle" THEN roster \subseteq answered' ELSE isCorrect

\* Seeded fault: a hit that does not end the round stops its timer too.
StopTimerOnEveryHit(ends) ==
  /\ roundTimer' = "none"
  /\ state'      = IF ends THEN "RoundEnd" ELSE state
  /\ advancing'  = IF ends THEN advancing + 1 ELSE advancing

StopTimerWhen(ends) ==
  /\ roundTimer' = IF ends THEN "none" ELSE roundTimer
  /\ state'      = IF ends THEN "RoundEnd" ELSE state
  /\ advancing'  = IF ends THEN advancing + 1 ELSE advancing

HandleHit(c, t) ==
  /\ conn[c] = "in"
  /\ state \in {"Playing", "RoundEnd"}
  /\ MayAnswer(c)
  /\ TargetFree(t)
  /\ claimed' = IF mode = "solo" THEN claimed ELSE Claim(c, t)
  /\ answered' = answered \cup {c}
  /\ answers' = [answers EXCEPT ![c] = @ + 1]
  /\ correct' = IF t = CorrectTarget THEN [correct EXCEPT ![c] = @ + 1]
                ELSE correct
  /\ StopTimerWhen(EndsRound(t = CorrectTarget))
  /\ UNCHANGED <<roster, ready, round, starting, sleeping, arming, fired,
                 finishing, strays, history, mode, hostID, conn, closing>>

FinishGame ==
  /\ finishing > 0
  /\ finishing' = finishing - 1
  /\ state' = "Finished"
  /\ saves' = saves + 1
  /\ closing' = TRUE
  /\ UNCHANGED <<players, claimed, round, roundTimer, starting, sleeping,
                 advancing, arming, fired, strays, starts, opened, mode, hostID, conn>>

-----------------------------------------------------------------------------
(* Leaving, losing the connection and coming back. *)

\* Seeded fault: the host is not handed on.
HostStays(c) == UNCHANGED hostID

PassHostOn(c) ==
  IF UserOf[c] = hostID /\ roster' # {}
    THEN \E h \in roster' : hostID' = UserOf[h]
    ELSE UNCHANGED hostID

\* r.RemovePlayer(c), which does not ask whether c is a player.
RemovePlayer(c) ==
  /\ roster' = roster \ {c}
  /\ ready' = ready \ {c}
  /\ answered' = answered \ {c}
  /\ correct' = [correct EXCEPT ![c] = 0]
  /\ answers' = [answers EXCEPT ![c] = 0]
  /\ IF mode = "duel" /\ state # "Finished"
       THEN state' = "Finished" /\ roundTimer' = "none"
       ELSE UNCHANGED <<state, roundTimer>>
  /\ IF mode = "battle" /\ state # "Finished"
       THEN PassHostOn(c) /\ closing' = (closing \/ roster' = {})
       ELSE UNCHANGED <<hostID, closing>>
  /\ UNCHANGED <<mode, claimed, round, pending, history>>

LeaveRoom(c) ==
  /\ conn[c] = "in"
  /\ RemovePlayer(c)
  /\ conn' = [conn EXCEPT ![c] = IF mode = "battle" THEN "out" ELSE "gone"]

\* Unregister reads r.State, lets go of r.mu, then acts on what it read.  The
\* grace period is refused when the hub's table of disconnected players is full.
Unregister(c) ==
  /\ \/ conn[c] = "out" /\ conn' = [conn EXCEPT ![c] = "gone"]
     \/ /\ conn[c] = "in" /\ state \in Active
        /\ conn' = [conn EXCEPT ![c] = "dropped"]
     \/ conn[c] = "in" /\ conn' = [conn EXCEPT ![c] = "removing"]
  /\ UNCHANGED <<players, game, pending, history, mode, hostID, closing>>

GraceTimerFires(c) ==
  /\ conn[c] = "dropped"
  /\ conn' = [conn EXCEPT ![c] = "expired"]
  /\ UNCHANGED <<players, game, pending, history, mode, hostID, closing>>

RemoveDropped(c) ==
  /\ conn[c] \in {"expired", "removing"}
  /\ RemovePlayer(c)
  /\ conn' = [conn EXCEPT ![c] = "gone"]

\* tryReconnect(new) finds the dropped connection `old` of the same user.  Its
\* Stop() comes too late for a grace timer that has fired.
AfterTakeOver(old) == IF conn[old] = "expired" THEN "removing" ELSE "gone"

Lost(c) == conn[c] \in {"dropped", "expired"}

\* Seeded fault: the old connection's seat is deleted, the new one's not made.
LoseSeat(S, old, new) == S \ {old}

SwapSeat(S, old, new) == IF old \in S THEN (S \ {old}) \cup {new} ELSE S

\* Seeded fault: the returning player gets a fresh PlayerState.
StartOver(score, old, new) == [score EXCEPT ![new] = 0, ![old] = 0]

MoveScore(score, old, new) == [score EXCEPT ![new] = score[old], ![old] = 0]

ReconnectPlayer(old, new) ==
  /\ conn[new] = "idle"
  /\ Lost(old) /\ UserOf[old] = UserOf[new]
  /\ IF state # "Finished" /\ old \in roster
       THEN /\ roster'   = SwapSeat(roster, old, new)
            /\ ready'    = SwapSeat(ready, old, new)
            /\ answered' = SwapSeat(answered, old, new)
            /\ correct'  = MoveScore(correct, old, new)
            /\ answers'  = MoveScore(answers, old, new)
            /\ conn' = [conn EXCEPT ![new] = "in", ![old] = AfterTakeOver(old)]
       ELSE /\ conn' = [conn EXCEPT ![new] = "out", ![old] = AfterTakeOver(old)]
            /\ UNCHANGED players
  /\ UNCHANGED <<game, pending, history, mode, hostID, closing>>

\* A connection the hub does not take for a returning player.  The hub's table has
\* one entry per user, so a dropped connection of that user need not be in it.
Register(c) ==
  /\ conn[c] = "idle"
  /\ conn' = [conn EXCEPT ![c] = "out"]
  /\ UNCHANGED <<players, game, pending, history, mode, hostID, closing>>

-----------------------------------------------------------------------------

ClientStep(c) ==
  \/ AddPlayer(c) \/ SetReady(c) \/ StartByHost(c)
  \/ \E t \in Targets : HandleHit(c, t)
  \/ LeaveRoom(c) \/ Unregister(c) \/ Register(c)
  \/ GraceTimerFires(c) \/ RemoveDropped(c)
  \/ \E new \in Clients : ReconnectPlayer(c, new)

GameStep ==
  \/ StartGame \/ CountdownOver \/ DelayOver \/ ArmRoundTimer
  \/ RoundTimerFires \/ OnRoundTimeout \/ FinishGame

Next == (\E c \in Clients : ClientStep(c)) \/ GameStep

Spec == Init /\ [][Next]_vars

(***************************************************************************)
(* The Go runtime runs every goroutine and fires every timer eventually,   *)
(* and a mutex waiter gets its turn.  Nothing is assumed of the players.   *)
(***************************************************************************)
Fairness ==
  /\ WF_vars(StartGame)      /\ WF_vars(CountdownOver)
  /\ WF_vars(DelayOver)      /\ WF_vars(ArmRoundTimer)
  /\ WF_vars(RoundTimerFires) /\ WF_vars(OnRoundTimeout)
  /\ WF_vars(FinishGame)

FairSpec == Spec /\ Fairness
-----------------------------------------------------------------------------
(* Properties. *)

\* Every variable has its type; Ready and Answered belong to players only.
TypeOK ==
  /\ mode \in Modes
  /\ state \in States
  /\ hostID \in Users \cup {NoUser}
  /\ roster \subseteq Clients /\ ready \subseteq roster /\ answered \subseteq roster
  /\ correct \in [Clients -> Nat] /\ answers \in [Clients -> Nat]
  /\ claimed \in [Targets -> Users \cup {NoUser}]
  /\ round \in Nat
  /\ roundTimer \in {"none", "armed"}
  /\ conn \in [Clients -> ConnStates]
  /\ closing \in BOOLEAN
  /\ starting \in Nat /\ sleeping \in Nat /\ advancing \in Nat /\ arming \in Nat
  /\ fired \in Nat /\ finishing \in Nat /\ strays \in Nat
  /\ starts \in Nat /\ opened \in Nat /\ saves \in Nat

(***************************************************************************)
(* NoStall: a game that runs always has something pending that will move   *)
(* it.  The room has no supervisor: were the last timer of a round stopped *)
(* or overwritten by one of the concurrent nextRound chains without a      *)
(* successor, the room would hang for ever (room.go: nextRound, the timer  *)
(* callback, the two Stop() calls of HandleHit).                           *)
(***************************************************************************)
CountdownMoves == state = "Countdown" => sleeping > 0
PlayingMoves   == state = "Playing" =>
                    arming > 0 \/ roundTimer = "armed" \/ strays > 0 \/ fired > 0
RoundEndMoves  == state = "RoundEnd" => advancing > 0 \/ finishing > 0
NoStall == CountdownMoves /\ PlayingMoves /\ RoundEndMoves

(***************************************************************************)
(* RoundInRange: whenever a hit is judged there is a current question.     *)
(* With CurrentRound = 0 HandleHit would index r.Vocabs with -1 and panic, *)
(* and startGame resets CurrentRound under the chains of an earlier start; *)
(* past the last round only the moment before finishGame locks is allowed. *)
(***************************************************************************)
RoundInRange ==
  state \in {"Playing", "RoundEnd"} =>
    round >= 1 /\ (round > TotalRounds => finishing > 0)

(***************************************************************************)
(* AnswersWithinRounds: no player collects more answers than rounds were   *)
(* opened, nor keeps an unanswered round's credit: double clicks, grace    *)
(* hits, restarts and reconnections included (HandleHit's ps.Answered,     *)
(* nextRound's reset, ReconnectPlayer's swap of the PlayerState).          *)
(***************************************************************************)
AnswersWithinRounds ==
  \A c \in roster :
    /\ correct[c] <= answers[c]
    /\ answers[c] + (IF c \in answered \/ opened = 0 THEN 0 ELSE 1) <= opened

\* What the connections in S have scored together, one element per point.
Points(score, S) == UNION {{c} \X (1..score[c]) : c \in S}

(***************************************************************************)
(* SoleScorer: in a duel or battle the players together never hold more    *)
(* correct answers than nextRound was called: the first correct claim of a *)
(* question shuts the others out, whatever interleaves with it             *)
(* (ClaimedTargets in HandleHit against its reset in nextRound).           *)
(***************************************************************************)
SoleScorer ==
  mode # "solo" =>
    Cardinality(Points(correct, roster)) <= opened + finishing + saves

(***************************************************************************)
(* SeatKept: a player who is connected, or disconnected with its grace     *)
(* period still running, has a seat; swaps and late removals of an older   *)
(* connection never take it (RemovePlayer, ReconnectPlayer, startGrace-    *)
(* Period).                                                                *)
(***************************************************************************)
SeatKept == {c \in Clients : conn[c] \in {"in", "dropped", "expired"}} \subseteq roster

(***************************************************************************)
(* HostPresent: as long as nobody closed the room, a battle with players   *)
(* has its host among them, so somebody can start it (RemovePlayer's host  *)
(* transfer against joins, swaps and removals of absent connections).      *)
(***************************************************************************)
HostPresent ==
  mode = "battle" /\ roster # {} /\ ~closing => hostID \in UsersIn(roster)

(***************************************************************************)
(* RosterFrozen: once the room has left Waiting it never waits again and   *)
(* no new user gets in; a reconnection replaces a connection of the same   *)
(* user only (AddPlayer, ReconnectPlayer, startGame).                      *)
(***************************************************************************)
RosterFrozen ==
  [][state # "Waiting" => /\ state' # "Waiting"
                          /\ UsersIn(roster') \subseteq UsersIn(roster)]_vars

(***************************************************************************)
(* Implements: to the hub the room keeps its contract: its connections     *)
(* change by joins before the start, removals and one-for-one takeovers    *)
(* only, in every interleaving of hub, readers, timers and goroutines      *)
(* (AddPlayer, RemovePlayer, ReconnectPlayer and all writers of r.State).  *)
(***************************************************************************)
PhaseOfState == CASE state = "Waiting" -> "waiting"
                  [] state \in Active -> "active"
                  [] state = "Finished" -> "finished"
Contract == INSTANCE RoomContract WITH phase <- PhaseOfState, members <- roster
Implements == Contract!Spec

(***************************************************************************)
(* ScoreSurvives: a user who keeps as many connections in the room keeps   *)
(* its score while a game runs: no restart, round change, reconnection or  *)
(* removal of somebody else costs it an answer.                            *)
(***************************************************************************)
SeatsOf(u)   == {c \in roster : UserOf[c] = u}
AnswersOf(u) == Cardinality(Points(answers, SeatsOf(u)))
ScoreSurvives ==
  [][state # "Waiting" =>
       \A u \in Users : Cardinality(SeatsOf(u)') = Cardinality(SeatsOf(u))
                           => AnswersOf(u)' >= AnswersOf(u)]_vars

(***************************************************************************)
(* GameEnds: every countdown is followed by the end of a game, whatever    *)
(* the players do or stop doing, provided the runtime runs its goroutines  *)
(* and timers (README.md Flow 6: "After round 10: finishGame()").          *)
(***************************************************************************)
GameEnds == state = "Countdown" ~> state = "Finished"

(***************************************************************************)
(* RoomSettles: timers and goroutines run out: from some moment on nothing *)
(* is pending and no game is being played (the AfterFunc and go statements *)
(* of nextRound, HandleHit and finishGame feed each other).                *)
(***************************************************************************)
Quiet == starting + sleeping + advancing + arming + fired + finishing + strays = 0
RoomSettles == <>[](Quiet /\ state \in {"Waiting", "Finished"})
-----------------------------------------------------------------------------
(* What the documentation says of the loop, and the code does not do. *)

\* README.md Flow 6, "After round 10: finishGame()": once per game started.
SavedOncePerGame == finishing + saves <= starts - starting

\* README.md Flow 7, "[Duel] ... stop timer -> Finished": a duel that is over
\* stays over, unless a start launched before still has to take r.mu.
DuelOverIsFinal ==
  [][mode = "duel" /\ state = "Finished" /\ starting = 0
       => state' = "Finished"]_vars
=============================================================================
