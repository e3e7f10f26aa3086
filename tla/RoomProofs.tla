----------------------------- MODULE RoomProofs -----------------------------
(***************************************************************************)
(* Theorems about Room, for every number of connections, users, rounds,    *)
(* targets and starts.                                                     *)
(***************************************************************************)
EXTENDS Room, FiniteSetTheorems, FunctionTheorems, TLAPS

(***************************************************************************)
(* What the steps of every connection have in common: the cases a proof    *)
(* about Next has to look at.                                              *)
(***************************************************************************)
LEMMA NextCases ==
  ASSUME [Next]_vars
  PROVE  \/ \E c \in Clients : AddPlayer(c) \/ SetReady(c) \/ StartByHost(c)
         \/ \E c \in Clients, t \in Targets : HandleHit(c, t)
         \/ \E c \in Clients : LeaveRoom(c) \/ RemoveDropped(c)
         \/ \E c \in Clients : Unregister(c) \/ Register(c) \/ GraceTimerFires(c)
         \/ \E old, new \in Clients : ReconnectPlayer(old, new)
         \/ StartGame \/ CountdownOver \/ DelayOver \/ ArmRoundTimer
         \/ RoundTimerFires \/ OnRoundTimeout \/ FinishGame
         \/ UNCHANGED vars
  BY DEF Next, ClientStep, GameStep

-----------------------------------------------------------------------------
(***************************************************************************)
(* Room is type correct.                                                   *)
(***************************************************************************)
LEMMA TypeInit == Init => TypeOK
<1> SUFFICES ASSUME Init PROVE TypeOK
  OBVIOUS
<1> USE DEF Init
<1>1. hostID \in Users \cup {NoUser}
  BY UsersAssumption, CreatorAssumption
<1>2. conn \in [Clients -> ConnStates]
  BY DEF ConnStates
<1>3. roster \subseteq Clients /\ ready \subseteq roster /\ answered \subseteq roster
  BY CreatorAssumption
<1>4. claimed \in [Targets -> Users \cup {NoUser}]
  OBVIOUS
<1> QED
  BY <1>1, <1>2, <1>3, <1>4 DEF TypeOK, States

LEMMA TypeStep == TypeOK /\ [Next]_vars => TypeOK'
<1> SUFFICES ASSUME TypeOK, [Next]_vars PROVE TypeOK'
  OBVIOUS
<1> USE DEF TypeOK, players, game, pending, history
<1>1. ASSUME NEW c \in Clients, AddPlayer(c) PROVE TypeOK'
  BY <1>1 DEF AddPlayer, MayEnter, Joinable, ConnStates
<1>2. ASSUME NEW c \in Clients, SetReady(c) PROVE TypeOK'
  BY <1>2 DEF SetReady, LaunchStart
<1>3. ASSUME NEW c \in Clients, StartByHost(c) PROVE TypeOK'
  BY <1>3 DEF StartByHost, LaunchStart
<1>4. ASSUME NEW c \in Clients, NEW t \in Targets, HandleHit(c, t) PROVE TypeOK'
  <2>1. claimed' \in [Targets -> Users \cup {NoUser}]
    BY <1>4, UsersAssumption DEF HandleHit, Claim
  <2>2. /\ roundTimer' \in {"none", "armed"} /\ state' \in States
        /\ advancing' \in Nat
    BY <1>4 DEF HandleHit, StopTimerWhen, States
  <2>3. correct' \in [Clients -> Nat] /\ answers' \in [Clients -> Nat]
    BY <1>4 DEF HandleHit
  <2> QED
    BY <1>4, <2>1, <2>2, <2>3 DEF HandleHit, MayAnswer
<1>5. ASSUME NEW c \in Clients, LeaveRoom(c) \/ RemoveDropped(c) PROVE TypeOK'
  <2>1. RemovePlayer(c)
    BY <1>5 DEF LeaveRoom, RemoveDropped
  <2>2. conn' \in [Clients -> ConnStates]
    BY <1>5 DEF LeaveRoom, RemoveDropped, ConnStates
  <2>3. hostID' \in Users \cup {NoUser}
    BY <2>1, UsersAssumption DEF RemovePlayer, PassHostOn
  <2>4. roster' \subseteq Clients /\ ready' \subseteq roster' /\ answered' \subseteq roster'
    BY <2>1 DEF RemovePlayer
  <2>5. closing' \in BOOLEAN
    BY <2>1 DEF RemovePlayer
  <2> QED
    BY <2>1, <2>2, <2>3, <2>4, <2>5 DEF RemovePlayer, States
<1>6. ASSUME NEW c \in Clients, Unregister(c) \/ Register(c) \/ GraceTimerFires(c)
      PROVE  TypeOK'
  <2>1. conn' \in [Clients -> ConnStates]
    BY <1>6 DEF Unregister, Register, GraceTimerFires, ConnStates
  <2> QED
    BY <1>6, <2>1 DEF Unregister, Register, GraceTimerFires
<1>7. ASSUME NEW old \in Clients, NEW new \in Clients, ReconnectPlayer(old, new)
      PROVE  TypeOK'
  <2>1. conn' \in [Clients -> ConnStates]
    BY <1>7 DEF ReconnectPlayer, AfterTakeOver, ConnStates
  <2>2. CASE state # "Finished" /\ old \in roster
    BY <1>7, <2>1, <2>2 DEF ReconnectPlayer, SwapSeat, MoveScore
  <2>3. CASE ~(state # "Finished" /\ old \in roster)
    BY <1>7, <2>1, <2>3 DEF ReconnectPlayer
  <2> QED
    BY <2>2, <2>3
<1>8. CASE StartGame
  BY <1>8 DEF StartGame, States
<1>9. CASE CountdownOver \/ DelayOver
  BY <1>9 DEF CountdownOver, DelayOver, NextRound, PastLast, States
<1>10. CASE ArmRoundTimer
  BY <1>10 DEF ArmRoundTimer
<1>11. CASE RoundTimerFires
  BY <1>11 DEF RoundTimerFires
<1>12. CASE OnRoundTimeout
  BY <1>12 DEF OnRoundTimeout, States
<1>13. CASE FinishGame
  BY <1>13 DEF FinishGame, States
<1>14. CASE UNCHANGED vars
  BY <1>14 DEF vars
<1> QED
  BY <1>1, <1>2, <1>3, <1>4, <1>5, <1>6, <1>7, <1>8, <1>9, <1>10, <1>11, <1>12,
     <1>13, <1>14, NextCases

THEOREM TypeCorrect == Spec => []TypeOK
  BY TypeInit, TypeStep, PTL DEF Spec

-----------------------------------------------------------------------------
(***************************************************************************)
(* A running game never stalls.  The inductive invariant adds to NoStall   *)
(* that a countdown is at round 0: the nextRound that ends it therefore    *)
(* opens a round (there is at least one), so it never leaves a countdown   *)
(* behind with nobody sleeping on it.                                      *)
(***************************************************************************)
CountdownAtZero == state = "Countdown" => round = 0

StallInv == NoStall /\ CountdownAtZero

LEMMA StallInit == Init => StallInv
  BY DEF Init, StallInv, NoStall, CountdownMoves, PlayingMoves, RoundEndMoves,
         CountdownAtZero

\* Steps that touch neither the state nor what is pending, or end a duel.
LEMMA StallClients ==
  ASSUME NEW c \in Clients, TypeOK, StallInv,
         \/ AddPlayer(c) \/ SetReady(c) \/ StartByHost(c)
         \/ LeaveRoom(c) \/ RemoveDropped(c)
         \/ Unregister(c) \/ Register(c) \/ GraceTimerFires(c)
         \/ \E new \in Clients : ReconnectPlayer(c, new)
  PROVE  StallInv'
<1> USE DEF StallInv, NoStall, CountdownMoves, PlayingMoves, RoundEndMoves,
            CountdownAtZero, game, pending, history
<1>1. CASE \/ AddPlayer(c) \/ Unregister(c) \/ Register(c) \/ GraceTimerFires(c)
           \/ \E new \in Clients : ReconnectPlayer(c, new)
  BY <1>1 DEF AddPlayer, Unregister, Register, GraceTimerFires, ReconnectPlayer
<1>2. CASE SetReady(c) \/ StartByHost(c)
  BY <1>2 DEF SetReady, StartByHost, LaunchStart
<1>3. CASE LeaveRoom(c) \/ RemoveDropped(c)
  BY <1>3 DEF LeaveRoom, RemoveDropped, RemovePlayer
<1> QED
  BY <1>1, <1>2, <1>3

LEMMA StallStep == TypeOK /\ StallInv /\ [Next]_vars => StallInv'
<1> SUFFICES ASSUME TypeOK, StallInv, [Next]_vars PROVE StallInv'
  OBVIOUS
<1> USE DEF StallInv, NoStall, CountdownMoves, PlayingMoves, RoundEndMoves,
            CountdownAtZero
<1>1. ASSUME NEW c \in Clients, NEW t \in Targets, HandleHit(c, t)
      PROVE  StallInv'
  <2>1. CASE EndsRound(t = CorrectTarget)
    BY <1>1, <2>1 DEF HandleHit, StopTimerWhen, TypeOK
  <2>2. CASE ~EndsRound(t = CorrectTarget)
    BY <1>1, <2>2 DEF HandleHit, StopTimerWhen
  <2> QED
    BY <2>1, <2>2
<1>2. CASE StartGame
  BY <1>2 DEF StartGame, TypeOK
<1>3. CASE CountdownOver \/ DelayOver
  <2>1. NextRound /\ round \in Nat /\ finishing \in Nat /\ arming \in Nat
    BY <1>3 DEF CountdownOver, DelayOver, TypeOK
  <2>2. CASE round + 1 > TotalRounds
    <3>1. state' = state /\ state # "Countdown" /\ finishing' > 0
      BY <2>1, <2>2, RoundsAssumption DEF NextRound, PastLast
    <3>2. UNCHANGED <<arming, roundTimer, strays, fired>>
      BY <2>1, <2>2 DEF NextRound, PastLast
    <3> QED
      BY <3>1, <3>2
  <2>3. CASE ~(round + 1 > TotalRounds)
    BY <2>1, <2>3 DEF NextRound, PastLast
  <2> QED
    BY <2>2, <2>3
<1>4. CASE ArmRoundTimer
  BY <1>4 DEF ArmRoundTimer
<1>5. CASE RoundTimerFires
  BY <1>5 DEF RoundTimerFires, TypeOK
<1>6. CASE OnRoundTimeout
  BY <1>6 DEF OnRoundTimeout, TypeOK
<1>7. CASE FinishGame
  BY <1>7 DEF FinishGame
<1>8. CASE UNCHANGED vars
  BY <1>8 DEF vars, game, pending
<1>9. ASSUME NEW c \in Clients,
             \/ AddPlayer(c) \/ SetReady(c) \/ StartByHost(c)
             \/ LeaveRoom(c) \/ RemoveDropped(c)
             \/ Unregister(c) \/ Register(c) \/ GraceTimerFires(c)
             \/ \E new \in Clients : ReconnectPlayer(c, new)
      PROVE  StallInv'
  BY <1>9, StallClients DEF StallInv
<1> QED
  BY <1>1, <1>2, <1>3, <1>4, <1>5, <1>6, <1>7, <1>8, <1>9, NextCases

\* The room never hangs: every running game has a step pending that moves it.
THEOREM NeverStalls == Spec => []NoStall
<1>1. StallInv => NoStall
  BY DEF StallInv
<1> QED
  BY <1>1, TypeCorrect, StallInit, StallStep, PTL DEF Spec

-----------------------------------------------------------------------------
(***************************************************************************)
(* RoundInRange is inductive by itself.                                    *)
(***************************************************************************)
LEMMA RangeStep == TypeOK /\ RoundInRange /\ [Next]_vars => RoundInRange'
<1> SUFFICES ASSUME TypeOK, RoundInRange, [Next]_vars PROVE RoundInRange'
  OBVIOUS
<1> USE DEF RoundInRange, game, pending, history
<1>1. ASSUME NEW c \in Clients, AddPlayer(c) \/ SetReady(c) \/ StartByHost(c)
      PROVE  RoundInRange'
  BY <1>1 DEF AddPlayer, SetReady, StartByHost, LaunchStart
<1>2. ASSUME NEW c \in Clients, NEW t \in Targets, HandleHit(c, t)
      PROVE  RoundInRange'
  BY <1>2 DEF HandleHit, StopTimerWhen
<1>3. ASSUME NEW c \in Clients, LeaveRoom(c) \/ RemoveDropped(c)
      PROVE  RoundInRange'
  BY <1>3 DEF LeaveRoom, RemoveDropped, RemovePlayer
<1>4. ASSUME NEW c \in Clients, Unregister(c) \/ Register(c) \/ GraceTimerFires(c)
      PROVE  RoundInRange'
  BY <1>4 DEF Unregister, Register, GraceTimerFires
<1>5. ASSUME NEW old \in Clients, NEW new \in Clients, ReconnectPlayer(old, new)
      PROVE  RoundInRange'
  BY <1>5 DEF ReconnectPlayer
<1>6. CASE CountdownOver \/ DelayOver
  BY <1>6 DEF CountdownOver, DelayOver, NextRound, PastLast, TypeOK
<1>7. CASE StartGame \/ ArmRoundTimer \/ RoundTimerFires
  BY <1>7 DEF StartGame, ArmRoundTimer, RoundTimerFires
<1>8. CASE OnRoundTimeout \/ FinishGame
  BY <1>8 DEF OnRoundTimeout, FinishGame
<1>9. CASE UNCHANGED vars
  BY <1>9 DEF vars
<1> QED
  BY <1>1, <1>2, <1>3, <1>4, <1>5, <1>6, <1>7, <1>8, <1>9, NextCases

\* No hit is ever judged without a question: r.Vocabs is never indexed with -1.
THEOREM RoundAlwaysInRange == Spec => []RoundInRange
<1>1. Init => RoundInRange
  BY DEF Init, RoundInRange
<1> QED
  BY <1>1, TypeCorrect, RangeStep, PTL DEF Spec

-----------------------------------------------------------------------------
(***************************************************************************)
(* Answers never outrun rounds.  Three facts make it inductive: nobody is  *)
(* let in once a round was opened, a hit is accepted only after one was,   *)
(* and the history counts rounds, so an unanswered player is one behind.   *)
(***************************************************************************)
NoRoundWhileWaiting == state = "Waiting" => opened = 0
RoundWhilePlaying   == state \in {"Playing", "RoundEnd"} => opened > 0

AnswerInv == AnswersWithinRounds /\ NoRoundWhileWaiting /\ RoundWhilePlaying

LEMMA AnswerInit == Init => AnswerInv
  BY CreatorAssumption
  DEF Init, AnswerInv, AnswersWithinRounds, NoRoundWhileWaiting, RoundWhilePlaying

LEMMA AnswerStep == TypeOK /\ AnswerInv /\ [Next]_vars => AnswerInv'
<1> SUFFICES ASSUME TypeOK, AnswerInv, [Next]_vars PROVE AnswerInv'
  OBVIOUS
<1> USE DEF AnswerInv, AnswersWithinRounds, NoRoundWhileWaiting, RoundWhilePlaying,
            players, game, pending, history
<1>1. ASSUME NEW c \in Clients, AddPlayer(c) PROVE AnswerInv'
  <2>1. opened = 0 /\ UNCHANGED <<state, opened>>
    BY <1>1 DEF AddPlayer, Joinable
  <2>2. /\ correct'[c] = 0 /\ answers'[c] = 0
        /\ \A d \in roster \ {c} : correct'[d] = correct[d] /\ answers'[d] = answers[d]
        /\ roster' = roster \cup {c}
    BY <1>1 DEF AddPlayer, TypeOK
  <2>3. \A d \in roster : answers[d] <= 0 /\ correct[d] <= answers[d] /\ answers[d] \in Nat
    BY <2>1 DEF TypeOK
  <2> QED
    BY <2>1, <2>2, <2>3
<1>2. ASSUME NEW c \in Clients, SetReady(c) \/ StartByHost(c) PROVE AnswerInv'
  BY <1>2 DEF SetReady, StartByHost, LaunchStart
<1>3. ASSUME NEW c \in Clients, NEW t \in Targets, HandleHit(c, t) PROVE AnswerInv'
  <2> USE <1>3 DEF HandleHit, MayAnswer
  <2>1. opened > 0 /\ state' \in {"Playing", "RoundEnd"} /\ opened' = opened
    BY DEF StopTimerWhen
  <2>2. ASSUME NEW d \in roster, d # c
        PROVE  /\ answers'[d] = answers[d] /\ correct'[d] = correct[d]
               /\ d \in answered' <=> d \in answered
    BY <2>2 DEF TypeOK
  <2>3. answers'[c] = answers[c] + 1 /\ c \in answered'
    BY DEF TypeOK
  <2>4. correct'[c] <= correct[c] + 1
    BY DEF TypeOK
  <2>5. /\ answers[c] + 1 <= opened /\ correct[c] <= answers[c]
        /\ answers[c] \in Nat /\ correct[c] \in Nat /\ correct'[c] \in Nat
        /\ opened \in Nat
    BY <2>1 DEF TypeOK
  <2>6. correct'[c] <= answers'[c] /\ answers'[c] + 0 <= opened'
    BY <2>1, <2>3, <2>4, <2>5
  <2> QED
    BY <2>1, <2>2, <2>3, <2>6
<1>4. ASSUME NEW c \in Clients, LeaveRoom(c) \/ RemoveDropped(c) PROVE AnswerInv'
  BY <1>4 DEF LeaveRoom, RemoveDropped, RemovePlayer, TypeOK
<1>5. ASSUME NEW c \in Clients, Unregister(c) \/ Register(c) \/ GraceTimerFires(c)
      PROVE  AnswerInv'
  BY <1>5 DEF Unregister, Register, GraceTimerFires
<1>6. ASSUME NEW old \in Clients, NEW new \in Clients, ReconnectPlayer(old, new)
      PROVE  AnswerInv'
  <2>1. CASE state # "Finished" /\ old \in roster
    <3>1. ASSUME NEW d \in roster'
          PROVE  \E e \in roster : /\ answers'[d] = answers[e] /\ correct'[d] = correct[e]
                                   /\ e \in answered => d \in answered'
      <4>1. CASE d = new
        BY <1>6, <2>1, <4>1 DEF ReconnectPlayer, SwapSeat, MoveScore, TypeOK, Lost
      <4>2. CASE d # new
        BY <1>6, <2>1, <3>1, <4>2 DEF ReconnectPlayer, SwapSeat, MoveScore, TypeOK
      <4> QED
        BY <4>1, <4>2
    <3>2. UNCHANGED <<state, opened>>
      BY <1>6 DEF ReconnectPlayer
    <3>3. \A e \in roster : answers[e] \in Nat /\ correct[e] \in Nat
      BY DEF TypeOK
    <3>4. ASSUME NEW d \in roster'
          PROVE  /\ correct'[d] <= answers'[d]
                 /\ answers'[d] + (IF d \in answered' \/ opened' = 0 THEN 0 ELSE 1) <= opened'
      <4>1. PICK e \in roster : /\ answers'[d] = answers[e] /\ correct'[d] = correct[e]
                                /\ e \in answered => d \in answered'
        BY <3>1
      <4> QED
        BY <4>1, <3>2, <3>3 DEF TypeOK
    <3> QED
      BY <3>2, <3>4
  <2>2. CASE ~(state # "Finished" /\ old \in roster)
    BY <1>6, <2>2 DEF ReconnectPlayer
  <2> QED
    BY <2>1, <2>2
<1>7. CASE CountdownOver \/ DelayOver
  <2>1. NextRound
    BY <1>7 DEF CountdownOver, DelayOver
  <2>2. CASE PastLast(round + 1)
    BY <2>1, <2>2 DEF NextRound
  <2>3. CASE ~PastLast(round + 1)
    BY <2>1, <2>3 DEF NextRound, TypeOK
  <2> QED
    BY <2>2, <2>3
<1>8. CASE StartGame \/ ArmRoundTimer \/ RoundTimerFires
  BY <1>8 DEF StartGame, ArmRoundTimer, RoundTimerFires
<1>9. CASE OnRoundTimeout \/ FinishGame
  BY <1>9 DEF OnRoundTimeout, FinishGame
<1>10. CASE UNCHANGED vars
  BY <1>10 DEF vars
<1> QED
  BY <1>1, <1>2, <1>3, <1>4, <1>5, <1>6, <1>7, <1>8, <1>9, <1>10, NextCases

\* At most one counted answer per player and opened round, through restarts,
\* grace hits and reconnections.
THEOREM OneAnswerPerRound == Spec => []AnswersWithinRounds
<1>1. AnswerInv => AnswersWithinRounds
  BY DEF AnswerInv
<1> QED
  BY <1>1, TypeCorrect, AnswerInit, AnswerStep, PTL DEF Spec

-----------------------------------------------------------------------------
(***************************************************************************)
(* Nobody who is connected, or away in its grace period, loses its seat.   *)
(***************************************************************************)
LEMMA SeatStep == TypeOK /\ SeatKept /\ [Next]_vars => SeatKept'
<1> SUFFICES ASSUME TypeOK, SeatKept, [Next]_vars PROVE SeatKept'
  OBVIOUS
<1> USE DEF SeatKept, players, TypeOK
<1>1. ASSUME NEW c \in Clients, AddPlayer(c) \/ SetReady(c) \/ StartByHost(c)
      PROVE  SeatKept'
  BY <1>1 DEF AddPlayer, SetReady, StartByHost
<1>2. ASSUME NEW c \in Clients, NEW t \in Targets, HandleHit(c, t) PROVE SeatKept'
  BY <1>2 DEF HandleHit
<1>3. ASSUME NEW c \in Clients, LeaveRoom(c) \/ RemoveDropped(c) PROVE SeatKept'
  <2>1. roster' = roster \ {c} /\ conn'[c] \in {"out", "gone"}
    BY <1>3 DEF LeaveRoom, RemoveDropped, RemovePlayer
  <2>2. \A d \in Clients \ {c} : conn'[d] = conn[d]
    BY <1>3 DEF LeaveRoom, RemoveDropped
  <2> QED
    BY <2>1, <2>2
<1>4. ASSUME NEW c \in Clients, Unregister(c) \/ Register(c) \/ GraceTimerFires(c)
      PROVE  SeatKept'
  <2>1. roster' = roster /\ \A d \in Clients \ {c} : conn'[d] = conn[d]
    BY <1>4 DEF Unregister, Register, GraceTimerFires
  <2>2. conn'[c] \in {"in", "dropped", "expired"} => conn[c] \in {"in", "dropped", "expired"}
    BY <1>4 DEF Unregister, Register, GraceTimerFires
  <2> QED
    BY <2>1, <2>2
<1>5. ASSUME NEW old \in Clients, NEW new \in Clients, ReconnectPlayer(old, new)
      PROVE  SeatKept'
  <2>1. old # new /\ conn'[old] \in {"removing", "gone"}
    BY <1>5 DEF ReconnectPlayer, Lost, AfterTakeOver
  <2>2. \A d \in Clients \ {old, new} : conn'[d] = conn[d]
    BY <1>5 DEF ReconnectPlayer
  <2>3. CASE state # "Finished" /\ old \in roster
    <3>1. roster' = (roster \ {old}) \cup {new}
      BY <1>5, <2>3 DEF ReconnectPlayer, SwapSeat
    <3> QED
      BY <2>1, <2>2, <3>1
  <2>4. CASE ~(state # "Finished" /\ old \in roster)
    BY <1>5, <2>1, <2>2, <2>4 DEF ReconnectPlayer
  <2> QED
    BY <2>3, <2>4
<1>6. CASE \/ StartGame \/ CountdownOver \/ DelayOver \/ ArmRoundTimer
           \/ RoundTimerFires \/ OnRoundTimeout \/ FinishGame \/ UNCHANGED vars
  BY <1>6 DEF StartGame, CountdownOver, DelayOver, NextRound, ArmRoundTimer,
              RoundTimerFires, OnRoundTimeout, FinishGame, vars
<1> QED
  BY <1>1, <1>2, <1>3, <1>4, <1>5, <1>6, NextCases

\* A connected or returning player has a seat, whatever late removals follow.
THEOREM SeatsAreKept == Spec => []SeatKept
<1>1. Init => SeatKept
  BY CreatorAssumption DEF Init, SeatKept
<1> QED
  BY <1>1, TypeCorrect, SeatStep, PTL DEF Spec

-----------------------------------------------------------------------------
(***************************************************************************)
(* An open battle room with players has its host among them.  Finishing    *)
(* closes a battle, so the states in which the host is no longer handed on *)
(* are closed ones; so are the empty ones, into which a player who looked  *)
(* the room up earlier may still come without becoming its host.           *)
(***************************************************************************)
FinishedIsClosed == mode = "battle" /\ state = "Finished" => closing

EmptyIsClosed    == mode = "battle" /\ roster = {} => closing

HostInv == HostPresent /\ FinishedIsClosed /\ EmptyIsClosed

LEMMA HostStep == TypeOK /\ HostInv /\ [Next]_vars => HostInv'
<1> SUFFICES ASSUME TypeOK, HostInv, [Next]_vars PROVE HostInv'
  OBVIOUS
<1> USE DEF HostInv, HostPresent, FinishedIsClosed, EmptyIsClosed, UsersIn,
            players, game, pending, history
<1>1. ASSUME NEW c \in Clients, AddPlayer(c) \/ SetReady(c) \/ StartByHost(c)
      PROVE  HostInv'
  <2>1. roster \subseteq roster' /\ UNCHANGED <<mode, state, hostID, closing>>
    BY <1>1 DEF AddPlayer, SetReady, StartByHost
  <2> QED
    BY <2>1
<1>2. ASSUME NEW c \in Clients, NEW t \in Targets, HandleHit(c, t) PROVE HostInv'
  BY <1>2 DEF HandleHit, StopTimerWhen
<1>3. ASSUME NEW c \in Clients, LeaveRoom(c) \/ RemoveDropped(c) PROVE HostInv'
  <2>1. RemovePlayer(c)
    BY <1>3 DEF LeaveRoom, RemoveDropped
  <2>2. CASE mode = "battle" /\ state # "Finished"
    <3>1. PassHostOn(c) /\ closing' = (closing \/ roster' = {}) /\ roster' = roster \ {c}
      BY <2>1, <2>2 DEF RemovePlayer
    <3>2. CASE UserOf[c] = hostID /\ roster' # {}
      <4>1. \E h \in roster' : hostID' = UserOf[h]
        BY <3>1, <3>2 DEF PassHostOn
      <4> QED
        BY <4>1, <2>1, <2>2 DEF RemovePlayer
    <3>3. CASE ~(UserOf[c] = hostID /\ roster' # {})
      <4>1. hostID' = hostID
        BY <3>1, <3>3 DEF PassHostOn
      <4> QED
        BY <4>1, <3>1, <3>3, <2>1, <2>2 DEF RemovePlayer
    <3> QED
      BY <3>2, <3>3
  <2>3. CASE ~(mode = "battle" /\ state # "Finished")
    BY <2>1, <2>3 DEF RemovePlayer
  <2> QED
    BY <2>2, <2>3
<1>4. ASSUME NEW c \in Clients, Unregister(c) \/ Register(c) \/ GraceTimerFires(c)
      PROVE  HostInv'
  BY <1>4 DEF Unregister, Register, GraceTimerFires
<1>5. ASSUME NEW old \in Clients, NEW new \in Clients, ReconnectPlayer(old, new)
      PROVE  HostInv'
  <2>1. CASE state # "Finished" /\ old \in roster
    <3>1. roster' = (roster \ {old}) \cup {new} /\ UserOf[old] = UserOf[new]
      BY <1>5, <2>1 DEF ReconnectPlayer, SwapSeat
    <3>2. UsersIn(roster') = UsersIn(roster)
      BY <2>1, <3>1
    <3>3. UNCHANGED <<mode, state, hostID, closing>>
      BY <1>5 DEF ReconnectPlayer
    <3> QED
      BY <2>1, <3>2, <3>3
  <2>2. CASE ~(state # "Finished" /\ old \in roster)
    BY <1>5, <2>2 DEF ReconnectPlayer
  <2> QED
    BY <2>1, <2>2
<1>6. CASE StartGame \/ ArmRoundTimer \/ RoundTimerFires \/ OnRoundTimeout
  BY <1>6 DEF StartGame, ArmRoundTimer, RoundTimerFires, OnRoundTimeout
<1>7. CASE CountdownOver \/ DelayOver
  BY <1>7 DEF CountdownOver, DelayOver, NextRound
<1>8. CASE FinishGame \/ UNCHANGED vars
  BY <1>8 DEF FinishGame, vars
<1> QED
  BY <1>1, <1>2, <1>3, <1>4, <1>5, <1>6, <1>7, <1>8, NextCases

\* An open battle room that has players has a host who can start it.
THEOREM HostIsPresent == Spec => []HostPresent
<1>1. Init => HostInv
  BY DEF Init, HostInv, HostPresent, FinishedIsClosed, EmptyIsClosed, UsersIn
<1>2. HostInv => HostPresent
  BY DEF HostInv
<1> QED
  BY <1>1, <1>2, TypeCorrect, HostStep, PTL DEF Spec

-----------------------------------------------------------------------------
(***************************************************************************)
(* Once the room has left Waiting, its set of users only shrinks.          *)
(***************************************************************************)
LEMMA FrozenStep ==
  TypeOK /\ [Next]_vars =>
    [state # "Waiting" => /\ state' # "Waiting"
                          /\ UsersIn(roster') \subseteq UsersIn(roster)]_vars
<1> SUFFICES ASSUME TypeOK, [Next]_vars, state # "Waiting"
             PROVE  state' # "Waiting" /\ UsersIn(roster') \subseteq UsersIn(roster)
  OBVIOUS
<1> USE DEF UsersIn, players, game, pending, history
<1>1. ASSUME NEW c \in Clients, AddPlayer(c) \/ SetReady(c) \/ StartByHost(c)
      PROVE  state' # "Waiting" /\ roster' \subseteq roster
  BY <1>1 DEF AddPlayer, Joinable, SetReady, StartByHost
<1>2. ASSUME NEW c \in Clients, NEW t \in Targets, HandleHit(c, t)
      PROVE  state' # "Waiting" /\ roster' \subseteq roster
  BY <1>2 DEF HandleHit, StopTimerWhen
<1>3. ASSUME NEW c \in Clients, LeaveRoom(c) \/ RemoveDropped(c)
      PROVE  state' # "Waiting" /\ roster' \subseteq roster
  BY <1>3 DEF LeaveRoom, RemoveDropped, RemovePlayer
<1>4. ASSUME NEW c \in Clients, Unregister(c) \/ Register(c) \/ GraceTimerFires(c)
      PROVE  state' # "Waiting" /\ roster' \subseteq roster
  BY <1>4 DEF Unregister, Register, GraceTimerFires
<1>5. ASSUME NEW old \in Clients, NEW new \in Clients, ReconnectPlayer(old, new)
      PROVE  state' # "Waiting" /\ UsersIn(roster') \subseteq UsersIn(roster)
  <2>1. CASE state # "Finished" /\ old \in roster
    BY <1>5, <2>1 DEF ReconnectPlayer, SwapSeat
  <2>2. CASE ~(state # "Finished" /\ old \in roster)
    BY <1>5, <2>2 DEF ReconnectPlayer
  <2> QED
    BY <2>1, <2>2
<1>6. CASE CountdownOver \/ DelayOver
  BY <1>6 DEF CountdownOver, DelayOver, NextRound
<1>7. CASE \/ StartGame \/ ArmRoundTimer \/ RoundTimerFires \/ OnRoundTimeout
           \/ FinishGame \/ UNCHANGED vars
  BY <1>7 DEF StartGame, ArmRoundTimer, RoundTimerFires, OnRoundTimeout, FinishGame,
              vars
<1> QED
  BY <1>1, <1>2, <1>3, <1>4, <1>5, <1>6, <1>7, NextCases

\* Nobody enters a game that has started.
THEOREM RosterIsFrozen == Spec => RosterFrozen
  BY TypeCorrect, FrozenStep, PTL DEF Spec, RosterFrozen
-----------------------------------------------------------------------------
(***************************************************************************)
(* Room implements RoomContract.  A step of Room is a step of the contract *)
(* or changes neither phase nor members; that needs to know that a waiting *)
(* room has no game on its way, so that no finishGame comes before a       *)
(* start, and that a connection in the room has connected, so that a       *)
(* takeover brings in a new one.                                           *)
(***************************************************************************)
NothingWhileWaiting ==
  state = "Waiting" => sleeping = 0 /\ advancing = 0 /\ finishing = 0
MembersConnected == \A c \in roster : conn[c] # "idle"

ContractInv == NothingWhileWaiting /\ MembersConnected

LEMMA ContractInvStep == TypeOK /\ ContractInv /\ [Next]_vars => ContractInv'
<1> SUFFICES ASSUME TypeOK, ContractInv, [Next]_vars PROVE ContractInv'
  OBVIOUS
<1> USE DEF TypeOK, ContractInv, NothingWhileWaiting, MembersConnected,
            players, game, pending, history
<1>1. ASSUME NEW c \in Clients, AddPlayer(c) \/ SetReady(c) \/ StartByHost(c)
      PROVE  ContractInv'
  BY <1>1 DEF AddPlayer, SetReady, StartByHost, LaunchStart
<1>2. ASSUME NEW c \in Clients, NEW t \in Targets, HandleHit(c, t)
      PROVE  ContractInv'
  BY <1>2 DEF HandleHit, StopTimerWhen
<1>3. ASSUME NEW c \in Clients, LeaveRoom(c) \/ RemoveDropped(c)
      PROVE  ContractInv'
  BY <1>3 DEF LeaveRoom, RemoveDropped, RemovePlayer
<1>4. ASSUME NEW c \in Clients, Unregister(c) \/ Register(c) \/ GraceTimerFires(c)
      PROVE  ContractInv'
  BY <1>4 DEF Unregister, Register, GraceTimerFires
<1>5. ASSUME NEW old \in Clients, NEW new \in Clients, ReconnectPlayer(old, new)
      PROVE  ContractInv'
  <2>1. \A c \in Clients : conn[c] # "idle" => conn'[c] # "idle"
    BY <1>5 DEF ReconnectPlayer, AfterTakeOver, ConnStates
  <2>2. conn'[new] # "idle"
    BY <1>5 DEF ReconnectPlayer, Lost
  <2>3. roster' \subseteq roster \cup {new}
    BY <1>5 DEF ReconnectPlayer, SwapSeat
  <2>4. NothingWhileWaiting'
    BY <1>5 DEF ReconnectPlayer
  <2> QED
    BY <2>1, <2>2, <2>3, <2>4
<1>6. CASE StartGame \/ ArmRoundTimer \/ RoundTimerFires \/ OnRoundTimeout
  BY <1>6 DEF StartGame, ArmRoundTimer, RoundTimerFires, OnRoundTimeout
<1>7. CASE CountdownOver \/ DelayOver
  BY <1>7 DEF CountdownOver, DelayOver, NextRound
<1>8. CASE FinishGame \/ UNCHANGED vars
  BY <1>8 DEF FinishGame, vars
<1> QED
  BY <1>1, <1>2, <1>3, <1>4, <1>5, <1>6, <1>7, <1>8, NextCases

LEMMA ContractStep ==
  TypeOK /\ ContractInv /\ [Next]_vars
    => [Contract!Next]_<<PhaseOfState, roster>>
<1> SUFFICES ASSUME TypeOK, ContractInv, [Next]_vars
             PROVE  [Contract!Next]_<<PhaseOfState, roster>>
  OBVIOUS
<1> USE DEF TypeOK, States, Active, PhaseOfState, players, game, pending, history
<1>1. ASSUME NEW c \in Clients, AddPlayer(c) PROVE Contract!Join(c)
  BY <1>1 DEF AddPlayer, Joinable, Contract!Join
<1>2. ASSUME NEW c \in Clients, SetReady(c) \/ StartByHost(c)
      PROVE  UNCHANGED <<PhaseOfState, roster>>
  BY <1>2 DEF SetReady, StartByHost
<1>3. ASSUME NEW c \in Clients, NEW t \in Targets, HandleHit(c, t)
      PROVE  UNCHANGED <<PhaseOfState, roster>>
  BY <1>3 DEF HandleHit, StopTimerWhen
<1>4. ASSUME NEW c \in Clients, LeaveRoom(c) \/ RemoveDropped(c)
      PROVE  Contract!Leave(c)
  BY <1>4 DEF LeaveRoom, RemoveDropped, RemovePlayer, Contract!Leave
<1>5. ASSUME NEW c \in Clients, Unregister(c) \/ Register(c) \/ GraceTimerFires(c)
      PROVE  UNCHANGED <<PhaseOfState, roster>>
  BY <1>5 DEF Unregister, Register, GraceTimerFires
<1>6. ASSUME NEW old \in Clients, NEW new \in Clients, ReconnectPlayer(old, new)
      PROVE  \/ Contract!Swap(old, new)
             \/ UNCHANGED <<PhaseOfState, roster>>
  <2>1. new \notin roster
    BY <1>6 DEF ReconnectPlayer, ContractInv, MembersConnected
  <2>2. CASE state # "Finished" /\ old \in roster
    BY <1>6, <2>1, <2>2 DEF ReconnectPlayer, SwapSeat, Contract!Swap
  <2>3. CASE ~(state # "Finished" /\ old \in roster)
    BY <1>6, <2>3 DEF ReconnectPlayer
  <2> QED
    BY <2>2, <2>3
<1>7. StartGame => Contract!Play
  BY DEF StartGame, Contract!Play
<1>8. CountdownOver \/ DelayOver =>
        Contract!Play \/ UNCHANGED <<PhaseOfState, roster>>
  BY DEF CountdownOver, DelayOver, NextRound, Contract!Play
<1>9. OnRoundTimeout => UNCHANGED <<PhaseOfState, roster>>
  BY DEF OnRoundTimeout
<1>10. FinishGame => Contract!End
  BY DEF FinishGame, Contract!End, ContractInv, NothingWhileWaiting
<1>11. ArmRoundTimer \/ RoundTimerFires \/ UNCHANGED vars =>
         UNCHANGED <<PhaseOfState, roster>>
  BY DEF ArmRoundTimer, RoundTimerFires, vars
<1>12. \/ Contract!Next
       \/ UNCHANGED <<PhaseOfState, roster>>
  <2> HIDE DEF TypeOK, States, Active, PhaseOfState, players, game, pending, history
  <2> QED
    BY <1>1, <1>2, <1>3, <1>4, <1>5, <1>6, <1>7, <1>8, <1>9, <1>10, <1>11, NextCases
    DEF Contract!Next
<1> QED
  BY <1>12

\* A room keeps the contract the hub relies on.
THEOREM RoomKeepsContract == Spec => Implements
<1>1. Init => ContractInv
  BY CreatorAssumption DEF Init, ContractInv, NothingWhileWaiting, MembersConnected
<1>2. Init => Contract!Init
  BY CreatorAssumption DEF Init, Contract!Init, PhaseOfState, Active
<1> QED
  BY <1>1, <1>2, TypeCorrect, ContractInvStep, ContractStep, PTL
  DEF Spec, Implements, Contract!Spec
-----------------------------------------------------------------------------
(***************************************************************************)
(* Counting points: Points puts a sum of scores as the cardinality of a    *)
(* set, so the library's facts about finite sets count it.                 *)
(***************************************************************************)
\* A point belongs to a connection and has a number of its own.
LEMMA PointsMembers ==
  ASSUME NEW f, NEW S, NEW p
  PROVE  p \in Points(f, S) <=> \E c \in S : \E k \in 1..f[c] : p = <<c, k>>
<1>1. p \in Points(f, S) <=> \E c \in S : p \in {c} \X (1..f[c])
  BY DEF Points
<1>2. \A c : p \in {c} \X (1..f[c]) <=> \E k \in 1..f[c] : p = <<c, k>>
  OBVIOUS
<1> QED
  BY <1>1, <1>2

LEMMA PointsFinite ==
  ASSUME NEW S, IsFiniteSet(S), NEW f, \A c \in S : f[c] \in Nat
  PROVE  IsFiniteSet(Points(f, S)) /\ Cardinality(Points(f, S)) \in Nat
<1> DEFINE shares == {{c} \X (1..f[c]) : c \in S}
           share  == [c \in S |-> {c} \X (1..f[c])]
<1>1. share \in Surjection(S, shares)
  <2>1. share \in [S -> shares] /\ \A s \in shares : \E c \in S : share[c] = s
    OBVIOUS
  <2> QED
    BY <2>1, Fun_IsSurj
<1>2. IsFiniteSet(shares)
  BY <1>1, FS_Surjection
<1>3. \A s \in shares : IsFiniteSet(s)
  <2>1. ASSUME NEW c \in S PROVE IsFiniteSet({c} \X (1..f[c]))
    <3>1. f[c] \in Int /\ 1 \in Int
      OBVIOUS
    <3>2. IsFiniteSet(1..f[c])
      BY <3>1, FS_Interval
    <3>3. IsFiniteSet({c})
      BY FS_Singleton
    <3> QED
      BY <3>2, <3>3, FS_Product
  <2> QED
    BY <2>1
<1>4. IsFiniteSet(UNION shares)
  BY <1>2, <1>3, FS_UNION
<1> QED
  BY <1>4, FS_CardinalityType DEF Points

\* Fewer seats, or fewer points on them, are no more points.
LEMMA PointsShrink ==
  ASSUME NEW S, IsFiniteSet(S), NEW f, \A c \in S : f[c] \in Nat,
         NEW T, NEW g, \A c \in T : g[c] \in Nat /\ (g[c] = 0 \/ (c \in S /\ g[c] <= f[c]))
  PROVE  Cardinality(Points(g, T)) <= Cardinality(Points(f, S))
<1>1. ASSUME NEW p \in Points(g, T) PROVE p \in Points(f, S)
  <2>1. PICK c \in T : \E k \in 1..g[c] : p = <<c, k>>
    BY PointsMembers
  <2>2. c \in S /\ \E k \in 1..f[c] : p = <<c, k>>
    BY <2>1
  <2> QED
    BY <2>2, PointsMembers
<1>2. Points(g, T) \in SUBSET Points(f, S)
  BY <1>1
<1> QED
  BY <1>2, PointsFinite, FS_Subset

\* A point more for one of the seats is a point more.
LEMMA PointsGain ==
  ASSUME NEW D, NEW S \in SUBSET D, IsFiniteSet(S), NEW f \in [D -> Nat], NEW c \in S
  PROVE  Cardinality(Points([f EXCEPT ![c] = @ + 1], S)) = Cardinality(Points(f, S)) + 1
<1> DEFINE g == [f EXCEPT ![c] = @ + 1]
           last == <<c, f[c] + 1>>
<1>0. g[c] = f[c] + 1 /\ f[c] \in Nat /\ \A d \in S : d # c => g[d] = f[d]
  OBVIOUS
<1> HIDE DEF g
<1>1. last \notin Points(f, S)
  <2> SUFFICES ASSUME NEW d \in S, NEW k \in 1..f[d], last = <<d, k>> PROVE FALSE
    BY PointsMembers
  <2> QED
    BY <1>0
<1>2. ASSUME NEW p PROVE p \in Points(g, S) <=> p \in Points(f, S) \cup {last}
  <2>1. ASSUME NEW d \in S, NEW k \in 1..g[d], p = <<d, k>> PROVE p \in Points(f, S) \cup {last}
    <3>1. CASE d = c /\ k = f[c] + 1
      BY <2>1, <3>1
    <3>2. CASE ~(d = c /\ k = f[c] + 1)
      <4>1. k \in 1..f[d]
        BY <3>2, <1>0
      <4> QED
        BY <4>1, <2>1, PointsMembers
    <3> QED
      BY <3>1, <3>2
  <2>2. ASSUME NEW d \in S, NEW k \in 1..f[d], p = <<d, k>> PROVE p \in Points(g, S)
    <3>1. k \in 1..g[d]
      BY <1>0, f[d] \in Nat
    <3> QED
      BY <3>1, <2>2, PointsMembers
  <2>3. last \in Points(g, S)
    <3>1. f[c] + 1 \in 1..g[c]
      BY <1>0
    <3> QED
      BY <3>1, PointsMembers
  <2> QED
    BY <2>1, <2>2, <2>3, PointsMembers
<1>3. Points(g, S) = Points(f, S) \cup {last}
  BY <1>2
<1>4. IsFiniteSet(Points(f, S))
  BY PointsFinite
<1> QED
  BY <1>1, <1>3, <1>4, FS_AddElement DEF g

\* A seat that changes hands keeps its points.
LEMMA PointsMove ==
  ASSUME NEW D, NEW S \in SUBSET D, IsFiniteSet(S), NEW f \in [D -> Nat],
         NEW old \in S, NEW new \in D \ S
  PROVE  Cardinality(Points(MoveScore(f, old, new), SwapSeat(S, old, new)))
           = Cardinality(Points(f, S))
<1> DEFINE g == MoveScore(f, old, new)
           T == SwapSeat(S, old, new)
           heir(c) == IF c = old THEN new ELSE c
           move == [p \in Points(f, S) |-> <<heir(p[1]), p[2]>>]
<1>1. T = (S \ {old}) \cup {new} /\ g[new] = f[old] /\ \A c \in S \ {old} : g[c] = f[c]
  BY DEF MoveScore, SwapSeat
<1> HIDE DEF g, T
<1>2. ASSUME NEW p \in Points(f, S) PROVE move[p] \in Points(g, T)
  <2>1. PICK c \in S : \E k \in 1..f[c] : p = <<c, k>>
    BY PointsMembers
  <2>2. PICK k \in 1..f[c] : p = <<c, k>>
    BY <2>1
  <2>3. heir(c) \in T /\ k \in 1..g[heir(c)] /\ move[p] = <<heir(c), k>>
    BY <1>1, <2>2
  <2> QED
    BY <2>3, PointsMembers
<1>3. ASSUME NEW p \in Points(f, S), NEW q \in Points(f, S), move[p] = move[q] PROVE p = q
  <2>1. PICK c \in S : \E k \in 1..f[c] : p = <<c, k>>
    BY PointsMembers
  <2>2. PICK d \in S : \E k \in 1..f[d] : q = <<d, k>>
    BY PointsMembers
  <2>3. PICK k : p = <<c, k>>
    BY <2>1
  <2>4. PICK l : q = <<d, l>>
    BY <2>2
  <2>5. heir(c) = heir(d) /\ k = l
    BY <1>3, <2>3, <2>4
  <2> QED
    BY <2>3, <2>4, <2>5
<1>4. ASSUME NEW p \in Points(g, T) PROVE \E q \in Points(f, S) : move[q] = p
  <2>1. PICK c \in T : \E k \in 1..g[c] : p = <<c, k>>
    BY PointsMembers
  <2>2. PICK k \in 1..g[c] : p = <<c, k>>
    BY <2>1
  <2>3. PICK d \in S : heir(d) = c /\ g[c] = f[d]
    BY <1>1
  <2>4. <<d, k>> \in Points(f, S)
    BY <2>2, <2>3, PointsMembers
  <2>5. move[<<d, k>>] = p
    BY <2>2, <2>3, <2>4
  <2> QED
    BY <2>4, <2>5
<1>5. move \in [Points(f, S) -> Points(g, T)]
  BY <1>2
<1>6. ExistsBijection(Points(f, S), Points(g, T))
  <2> HIDE DEF move
  <2>1. move \in Bijection(Points(f, S), Points(g, T))
    BY <1>3, <1>4, <1>5, Fun_IsBij
  <2> QED
    BY <2>1 DEF ExistsBijection
<1>7. IsFiniteSet(Points(f, S))
  BY PointsFinite
<1> QED
  BY <1>6, <1>7, FS_Bijection DEF g, T

-----------------------------------------------------------------------------
(***************************************************************************)
(* All points of a duel or a battle.  The roster is a finite set, the one  *)
(* creator and those who came one by one.  SoleScorer is made inductive by *)
(* what it leaves in reserve: while the question that a hit would be       *)
(* judged against is not claimed, a point less was scored than rounds were *)
(* asked for, so that the one hit that claims it still fits.               *)
(***************************************************************************)
FiniteRoster == IsFiniteSet(roster)

Scored == Cardinality(Points(correct, roster))
Asked  == opened + finishing + saves

QuestionOpen == state \in {"Playing", "RoundEnd"} /\ claimed[CorrectTarget] = NoUser

PointLeft == mode # "solo" /\ QuestionOpen => Scored + 1 <= Asked

ScorerInv == SoleScorer /\ PointLeft

LEMMA FiniteStep == TypeOK /\ FiniteRoster /\ [Next]_vars => FiniteRoster'
<1> SUFFICES ASSUME TypeOK, FiniteRoster, [Next]_vars PROVE FiniteRoster'
  OBVIOUS
<1>1. \/ roster' = roster
      \/ \E c \in Clients : roster' = roster \cup {c} \/ roster' = roster \ {c}
      \/ \E old, new \in Clients : roster' = (roster \ {old}) \cup {new}
  <2>1. ASSUME NEW c \in Clients, AddPlayer(c) PROVE roster' = roster \cup {c}
    BY <2>1 DEF AddPlayer
  <2>2. ASSUME NEW c \in Clients, LeaveRoom(c) \/ RemoveDropped(c)
        PROVE  roster' = roster \ {c}
    BY <2>2 DEF LeaveRoom, RemoveDropped, RemovePlayer
  <2>3. ASSUME NEW old \in Clients, NEW new \in Clients, ReconnectPlayer(old, new)
        PROVE  roster' = roster \/ roster' = (roster \ {old}) \cup {new}
    BY <2>3 DEF ReconnectPlayer, SwapSeat, players
  <2> QED
    BY <2>1, <2>2, <2>3, NextCases
    DEF SetReady, StartByHost, HandleHit, Unregister, Register, GraceTimerFires, StartGame,
        CountdownOver, DelayOver, NextRound, ArmRoundTimer, RoundTimerFires, OnRoundTimeout,
        FinishGame, players, vars
<1>2. ASSUME NEW c, roster' = roster \cup {c} \/ roster' = roster \ {c} PROVE FiniteRoster'
  BY <1>2, FS_AddElement, FS_RemoveElement DEF FiniteRoster
<1>3. ASSUME NEW old, NEW new, roster' = (roster \ {old}) \cup {new} PROVE FiniteRoster'
  <2>1. IsFiniteSet(roster \ {old})
    BY FS_RemoveElement DEF FiniteRoster
  <2> QED
    BY <1>3, <2>1, FS_AddElement DEF FiniteRoster
<1>4. CASE roster' = roster
  BY <1>4 DEF FiniteRoster
<1> QED
  BY <1>1, <1>2, <1>3, <1>4

\* A step that asks for no round and lets nobody score keeps the reserve.
LEMMA ScorerKept ==
  ASSUME TypeOK, TypeOK', FiniteRoster, FiniteRoster', ScorerInv, mode' = mode,
         Asked' = Asked, Scored' <= Scored, QuestionOpen' => QuestionOpen
  PROVE  ScorerInv'
<1>1. Scored \in Nat /\ Scored' \in Nat
  BY PointsFinite DEF Scored, TypeOK, FiniteRoster
<1>2. Asked \in Nat
  BY DEF Asked, TypeOK
<1>3. CASE mode = "solo"
  BY <1>3 DEF ScorerInv, SoleScorer, PointLeft
<1>4. CASE mode # "solo"
  <2>1. Scored <= Asked /\ (QuestionOpen => Scored + 1 <= Asked)
    BY <1>4 DEF ScorerInv, SoleScorer, PointLeft, Scored, Asked
  <2>2. Scored' <= Asked
    BY <2>1, <1>1, <1>2
  <2>3. ASSUME QuestionOpen' PROVE Scored' + 1 <= Asked
    <3>1. Scored + 1 <= Asked
      BY <2>1, <2>3, Zenon
    <3>2. \A a, b, n \in Nat : b <= a /\ a + 1 <= n => b + 1 <= n
      OBVIOUS
    <3> QED
      BY <3>1, <3>2, <1>1, <1>2, Zenon
  <2>4. SoleScorer'
    BY <2>2, Zenon DEF SoleScorer, Scored, Asked
  <2>5. PointLeft'
    BY <2>3, Zenon DEF PointLeft
  <2> QED
    BY <2>4, <2>5, Zenon DEF ScorerInv
<1> QED
  BY <1>3, <1>4

LEMMA ScorerStep ==
  TypeOK /\ TypeOK' /\ FiniteRoster /\ FiniteRoster' /\ ContractInv /\ ScorerInv /\ [Next]_vars
    => ScorerInv'
<1> SUFFICES ASSUME TypeOK, TypeOK', FiniteRoster, FiniteRoster', ContractInv, ScorerInv,
                    [Next]_vars
             PROVE  ScorerInv'
  OBVIOUS
<1>n. Scored \in Nat /\ Scored' \in Nat /\ Asked \in Nat
  BY PointsFinite DEF Scored, Asked, TypeOK, FiniteRoster
<1>t. /\ SoleScorer = (mode # "solo" => Scored <= Asked)
      /\ SoleScorer' = (mode' # "solo" => Scored' <= Asked')
  BY Zenon DEF Scored, Asked, SoleScorer
<1>s. UNCHANGED <<correct, roster>> => Scored' = Scored
  BY DEF Scored
<1>q. UNCHANGED <<state, claimed, round>> => QuestionOpen' = QuestionOpen
  BY DEF QuestionOpen, CorrectTarget
<1> USE DEF players, game, pending, history
<1>1. ASSUME NEW c \in Clients, AddPlayer(c) PROVE ScorerInv'
  <2>1. /\ roster' = roster \cup {c} /\ correct' = [correct EXCEPT ![c] = 0]
        /\ UNCHANGED <<state, claimed, round, mode, opened, finishing, saves>>
    BY <1>1 DEF AddPlayer
  <2>2. \A d \in roster' : correct'[d] \in Nat
                           /\ (correct'[d] = 0 \/ (d \in roster /\ correct'[d] <= correct[d]))
    BY <2>1 DEF TypeOK
  <2>3. Scored' <= Scored
    BY <2>2, PointsShrink DEF Scored, FiniteRoster, TypeOK
  <2> QED
    BY <2>1, <2>3, <1>q, ScorerKept DEF Asked
<1>2. ASSUME NEW c \in Clients, SetReady(c) \/ StartByHost(c) PROVE ScorerInv'
  <2>1. UNCHANGED <<correct, roster, state, claimed, round, mode, opened, finishing, saves>>
    BY <1>2 DEF SetReady, StartByHost, LaunchStart
  <2> QED
    BY <2>1, <1>s, <1>q, <1>n, <1>t, ScorerKept DEF Asked
<1>3. ASSUME NEW c \in Clients, NEW t \in Targets, HandleHit(c, t) PROVE ScorerInv'
  <2>1. /\ c \in roster /\ roster' = roster /\ round' = round /\ mode' = mode
        /\ state \in {"Playing", "RoundEnd"} /\ Asked' = Asked
    BY <1>3 DEF HandleHit, MayAnswer, Asked
  <2>2. CorrectTarget' = CorrectTarget
    BY <2>1 DEF CorrectTarget
  <2>3. CASE mode = "solo"
    BY <2>1, <2>3, <1>n, <1>t DEF ScorerInv, PointLeft
  <2>4. CASE mode # "solo" /\ t = CorrectTarget
    <3>1. QuestionOpen
      BY <1>3, <2>1, <2>4 DEF HandleHit, TargetFree, QuestionOpen
    <3>2. ~QuestionOpen'
      <4>1. claimed'[t] = UserOf[c]
        BY <1>3, <2>4 DEF HandleHit, Claim, TypeOK
      <4>2. claimed'[CorrectTarget'] # NoUser
        BY <4>1, <2>2, <2>4, UsersAssumption
      <4> QED
        BY <4>2 DEF QuestionOpen
    <3>3. correct' = [correct EXCEPT ![c] = @ + 1]
      BY <1>3, <2>4 DEF HandleHit
    <3>4. Scored' = Scored + 1
      BY <2>1, <3>3, PointsGain DEF Scored, FiniteRoster, TypeOK
    <3> QED
      BY <2>1, <2>4, <3>1, <3>2, <3>4, <1>n, <1>t DEF ScorerInv, PointLeft
  <2>5. CASE mode # "solo" /\ t # CorrectTarget
    <3>1. correct' = correct
      BY <1>3, <2>5 DEF HandleHit
    <3>2. QuestionOpen' => QuestionOpen
      <4>1. claimed' = [claimed EXCEPT ![t] = UserOf[c]]
        BY <1>3, <2>5 DEF HandleHit, Claim
      <4>2. claimed'[CorrectTarget] = claimed[CorrectTarget]
        BY <4>1, <2>5 DEF TypeOK
      <4> QED
        BY <2>1, <2>2, <4>2 DEF QuestionOpen
    <3> QED
      BY <2>1, <3>1, <3>2, <1>s, <1>n, <1>t, ScorerKept
  <2> QED
    BY <2>3, <2>4, <2>5
<1>4. ASSUME NEW c \in Clients, LeaveRoom(c) \/ RemoveDropped(c) PROVE ScorerInv'
  <2>1. /\ roster' = roster \ {c} /\ correct' = [correct EXCEPT ![c] = 0]
        /\ UNCHANGED <<claimed, round, mode, opened, finishing, saves>>
        /\ state' \in {state, "Finished"}
    BY <1>4 DEF LeaveRoom, RemoveDropped, RemovePlayer
  <2>2. \A d \in roster' : correct'[d] \in Nat
                           /\ (correct'[d] = 0 \/ (d \in roster /\ correct'[d] <= correct[d]))
    BY <2>1 DEF TypeOK
  <2>3. Scored' <= Scored
    BY <2>2, PointsShrink DEF Scored, FiniteRoster, TypeOK
  <2>4. QuestionOpen' => QuestionOpen
    BY <2>1 DEF QuestionOpen, CorrectTarget
  <2> QED
    BY <2>1, <2>3, <2>4, ScorerKept DEF Asked
<1>5. ASSUME NEW c \in Clients, Unregister(c) \/ Register(c) \/ GraceTimerFires(c)
      PROVE  ScorerInv'
  <2>1. UNCHANGED <<correct, roster, state, claimed, round, mode, opened, finishing, saves>>
    BY <1>5 DEF Unregister, Register, GraceTimerFires
  <2> QED
    BY <2>1, <1>s, <1>q, <1>n, <1>t, ScorerKept DEF Asked
<1>6. ASSUME NEW old \in Clients, NEW new \in Clients, ReconnectPlayer(old, new)
      PROVE  ScorerInv'
  <2>1. UNCHANGED <<state, claimed, round, mode, opened, finishing, saves>>
    BY <1>6 DEF ReconnectPlayer
  <2>2. CASE state # "Finished" /\ old \in roster
    <3>1. roster' = SwapSeat(roster, old, new) /\ correct' = MoveScore(correct, old, new)
      BY <1>6, <2>2 DEF ReconnectPlayer
    <3>2. new \notin roster
      BY <1>6 DEF ReconnectPlayer, ContractInv, MembersConnected
    <3>3. Scored' = Scored
      BY <2>2, <3>1, <3>2, PointsMove DEF Scored, FiniteRoster, TypeOK
    <3> QED
      BY <2>1, <3>3, <1>q, <1>n, <1>t, ScorerKept DEF Asked
  <2>3. CASE ~(state # "Finished" /\ old \in roster)
    <3>1. UNCHANGED <<correct, roster>>
      BY <1>6, <2>3 DEF ReconnectPlayer
    <3> QED
      BY <2>1, <3>1, <1>s, <1>q, <1>n, <1>t, ScorerKept DEF Asked
  <2> QED
    BY <2>2, <2>3
<1>7. CASE CountdownOver \/ DelayOver
  <2>1. /\ UNCHANGED <<correct, roster, mode>>
        /\ Asked' = Asked + 1
    <3>1. NextRound /\ UNCHANGED saves
      BY <1>7 DEF CountdownOver, DelayOver, NextRound
    <3>2. opened \in Nat /\ finishing \in Nat /\ saves \in Nat
      BY DEF TypeOK
    <3>3. \/ opened' = opened + 1 /\ finishing' = finishing
          \/ opened' = opened /\ finishing' = finishing + 1
      BY <3>1 DEF NextRound
    <3> QED
      BY <3>1, <3>2, <3>3 DEF NextRound, Asked
  <2>2. mode # "solo" => Scored' + 1 <= Asked'
    <3>1. Scored' = Scored
      BY <2>1, <1>s
    <3>2. mode # "solo" => Scored <= Asked
      BY <1>t, Zenon DEF ScorerInv
    <3> QED
      BY <2>1, <3>1, <3>2, <1>n
  <2>3. Asked' \in Nat
    BY <2>1, <1>n
  <2>4. mode # "solo" => Scored' <= Asked'
    <3>1. \A b, n \in Nat : b + 1 <= n => b <= n
      OBVIOUS
    <3> QED
      BY <2>2, <2>3, <3>1, <1>n, Zenon
  <2>5. SoleScorer'
    BY <2>1, <2>4, Zenon DEF SoleScorer, Scored, Asked
  <2>6. PointLeft'
    BY <2>1, <2>2, Zenon DEF PointLeft
  <2> QED
    BY <2>5, <2>6, Zenon DEF ScorerInv
<1>8. CASE StartGame
  <2>1. state' = "Countdown" /\ UNCHANGED <<correct, roster, mode, opened, finishing, saves>>
    BY <1>8 DEF StartGame
  <2>2. ~QuestionOpen'
    BY <2>1 DEF QuestionOpen
  <2> QED
    BY <2>1, <2>2, <1>s, <1>n, <1>t, ScorerKept DEF Asked
<1>9. CASE OnRoundTimeout
  <2>1. UNCHANGED <<correct, roster, mode, opened, finishing, saves, claimed, round>>
    BY <1>9 DEF OnRoundTimeout
  <2>2. state' = state \/ state = "Playing"
    BY <1>9 DEF OnRoundTimeout
  <2>3. QuestionOpen' => QuestionOpen
    BY <2>1, <2>2 DEF QuestionOpen, CorrectTarget
  <2> QED
    BY <2>1, <2>3, <1>s, <1>n, <1>t, ScorerKept DEF Asked
<1>10. CASE FinishGame
  <2>1. /\ state' = "Finished" /\ UNCHANGED <<correct, roster, mode, opened>>
        /\ finishing > 0 /\ finishing' = finishing - 1 /\ saves' = saves + 1
    BY <1>10 DEF FinishGame
  <2>2. ~QuestionOpen'
    BY <2>1 DEF QuestionOpen
  <2>3. opened \in Nat /\ finishing \in Nat /\ saves \in Nat
    BY DEF TypeOK
  <2>4. Asked' = Asked
    BY <2>1, <2>3 DEF Asked
  <2> QED
    BY <2>1, <2>2, <2>4, <1>s, <1>n, <1>t, ScorerKept
<1>11. CASE ArmRoundTimer \/ RoundTimerFires \/ UNCHANGED vars
  <2>1. UNCHANGED <<correct, roster, state, claimed, round, mode, opened, finishing, saves>>
    BY <1>11 DEF ArmRoundTimer, RoundTimerFires, vars
  <2> QED
    BY <2>1, <1>s, <1>q, <1>n, <1>t, ScorerKept DEF Asked
<1> QED
  BY <1>1, <1>2, <1>3, <1>4, <1>5, <1>6, <1>7, <1>8, <1>9, <1>10, <1>11, NextCases

\* The roster is finite and what the contract needs holds, in every state.
LEMMA RosterFacts == Spec => [](FiniteRoster /\ ContractInv)
<1>1. Init => FiniteRoster /\ ContractInv
  BY CreatorAssumption, FS_Singleton
  DEF Init, FiniteRoster, ContractInv, NothingWhileWaiting, MembersConnected
<1> QED
  BY <1>1, TypeCorrect, FiniteStep, ContractInvStep, PTL DEF Spec

\* One player at most scores each question of a duel or a battle, in every interleaving of hits,
\* rounds and reconnections.
THEOREM OneScorerPerQuestion == Spec => []SoleScorer
<1>1. Init => ScorerInv
  <2> SUFFICES ASSUME Init PROVE ScorerInv
    OBVIOUS
  <2>1. Points(correct, roster) = {}
    <3> SUFFICES ASSUME NEW p \in Points(correct, roster) PROVE FALSE
      OBVIOUS
    <3>1. PICK c \in roster : \E k \in 1..correct[c] : p = <<c, k>>
      BY PointsMembers
    <3>2. correct[c] = 0
      BY CreatorAssumption DEF Init
    <3> QED
      BY <3>1, <3>2
  <2>2. Scored = 0
    BY <2>1, FS_EmptySet DEF Scored
  <2>3. opened + finishing + saves = 0 /\ state = "Waiting"
    BY DEF Init
  <2>4. SoleScorer
    BY <2>2, <2>3 DEF SoleScorer, Scored
  <2> QED
    BY <2>3, <2>4 DEF ScorerInv, PointLeft, QuestionOpen
<1>2. ScorerInv => SoleScorer
  BY DEF ScorerInv
<1> QED
  BY <1>1, <1>2, TypeCorrect, RosterFacts, ScorerStep, PTL DEF Spec

-----------------------------------------------------------------------------
(***************************************************************************)
(* Nobody loses an answer.  After Waiting a step adds an answer to a seat, *)
(* hands a seat with its answers to another connection of the same user,   *)
(* or takes a seat away, and then its user has fewer.                      *)
(***************************************************************************)
LEMMA SeatsFinite ==
  ASSUME TypeOK, FiniteRoster, NEW u
  PROVE  /\ IsFiniteSet(SeatsOf(u)) /\ Cardinality(SeatsOf(u)) \in Nat
         /\ AnswersOf(u) \in Nat /\ SeatsOf(u) \in SUBSET Clients
<1>1. SeatsOf(u) \in SUBSET roster
  BY DEF SeatsOf
<1>2. IsFiniteSet(SeatsOf(u))
  BY <1>1, FS_Subset DEF FiniteRoster
<1>3. \A c \in SeatsOf(u) : answers[c] \in Nat
  BY <1>1 DEF TypeOK
<1> QED
  BY <1>1, <1>2, <1>3, FS_CardinalityType, PointsFinite DEF AnswersOf, TypeOK

\* The same seats with no fewer answers.
LEMMA AnswersGrow ==
  ASSUME TypeOK, TypeOK', FiniteRoster, FiniteRoster', NEW u, SeatsOf(u)' = SeatsOf(u),
         \A c \in SeatsOf(u) : answers[c] <= answers'[c]
  PROVE  AnswersOf(u)' >= AnswersOf(u)
<1>1. IsFiniteSet(SeatsOf(u)) /\ SeatsOf(u) \in SUBSET Clients
  BY SeatsFinite
<1>2. \A c \in SeatsOf(u) : answers[c] \in Nat /\ answers'[c] \in Nat
  BY <1>1 DEF TypeOK
<1>3. Cardinality(Points(answers, SeatsOf(u))) <= Cardinality(Points(answers', SeatsOf(u)))
  BY <1>1, <1>2, PointsShrink
<1>4. /\ AnswersOf(u) = Cardinality(Points(answers, SeatsOf(u)))
      /\ AnswersOf(u)' = Cardinality(Points(answers', SeatsOf(u)))
  BY DEF AnswersOf
<1>5. /\ Cardinality(Points(answers, SeatsOf(u))) \in Nat
      /\ Cardinality(Points(answers', SeatsOf(u))) \in Nat
  BY <1>1, <1>2, PointsFinite
<1> QED
  BY <1>3, <1>4, <1>5

LEMMA SurvivesStep ==
  ASSUME TypeOK, TypeOK', FiniteRoster, FiniteRoster', ContractInv, [Next]_vars,
         state # "Waiting", NEW u \in Users,
         Cardinality(SeatsOf(u)') = Cardinality(SeatsOf(u))
  PROVE  AnswersOf(u)' >= AnswersOf(u)
<1> USE DEF players, game, pending, history
<1>s. roster' = roster => SeatsOf(u)' = SeatsOf(u)
  BY DEF SeatsOf
<1>a. answers' = answers => \A c \in SeatsOf(u) : answers[c] <= answers'[c]
  BY DEF SeatsOf, TypeOK
<1>1. ASSUME NEW c \in Clients, AddPlayer(c) PROVE FALSE
  BY <1>1 DEF AddPlayer, Joinable
<1>2. CASE UNCHANGED <<roster, answers>>
  BY <1>2, <1>s, <1>a, AnswersGrow
<1>3. ASSUME NEW c \in Clients, NEW t \in Targets, HandleHit(c, t)
      PROVE  AnswersOf(u)' >= AnswersOf(u)
  <2>1. roster' = roster /\ answers' = [answers EXCEPT ![c] = @ + 1]
    BY <1>3 DEF HandleHit
  <2>2. \A d \in SeatsOf(u) : answers[d] <= answers'[d]
    BY <2>1 DEF SeatsOf, TypeOK
  <2> QED
    BY <2>1, <2>2, <1>s, AnswersGrow
<1>4. ASSUME NEW c \in Clients, LeaveRoom(c) \/ RemoveDropped(c)
      PROVE  AnswersOf(u)' >= AnswersOf(u)
  <2>1. roster' = roster \ {c} /\ answers' = [answers EXCEPT ![c] = 0]
    BY <1>4 DEF LeaveRoom, RemoveDropped, RemovePlayer
  <2>2. SeatsOf(u)' = SeatsOf(u) \ {c}
    BY <2>1 DEF SeatsOf
  <2>3. c \notin SeatsOf(u)
    BY <2>2, SeatsFinite, FS_RemoveElement
  <2>4. SeatsOf(u)' = SeatsOf(u) /\ \A d \in SeatsOf(u) : answers[d] <= answers'[d]
    BY <2>1, <2>2, <2>3 DEF SeatsOf, TypeOK
  <2> QED
    BY <2>4, AnswersGrow
<1>5. ASSUME NEW old \in Clients, NEW new \in Clients, ReconnectPlayer(old, new),
             state # "Finished", old \in roster
      PROVE  AnswersOf(u)' >= AnswersOf(u)
  <2>1. /\ roster' = (roster \ {old}) \cup {new} /\ answers' = MoveScore(answers, old, new)
        /\ UserOf[old] = UserOf[new]
    BY <1>5 DEF ReconnectPlayer, SwapSeat
  <2>2. new \notin roster
    BY <1>5 DEF ReconnectPlayer, ContractInv, MembersConnected
  <2>3. CASE UserOf[old] = u
    <3>1. SeatsOf(u)' = SwapSeat(SeatsOf(u), old, new) /\ old \in SeatsOf(u)
          /\ new \in Clients \ SeatsOf(u)
      BY <1>5, <2>1, <2>2, <2>3 DEF SeatsOf, SwapSeat
    <3>2. AnswersOf(u)' = Cardinality(Points(MoveScore(answers, old, new),
                                             SwapSeat(SeatsOf(u), old, new)))
      BY <2>1, <3>1 DEF AnswersOf
    <3>3. IsFiniteSet(SeatsOf(u)) /\ SeatsOf(u) \in SUBSET Clients /\ AnswersOf(u) \in Nat
      BY SeatsFinite
    <3>4. AnswersOf(u)' = AnswersOf(u)
      BY <3>1, <3>2, <3>3, PointsMove DEF AnswersOf, TypeOK
    <3> QED
      BY <3>3, <3>4
  <2>4. CASE UserOf[old] # u
    <3>1. SeatsOf(u)' = SeatsOf(u)
      BY <2>1, <2>4 DEF SeatsOf
    <3>2. \A d \in SeatsOf(u) : answers[d] <= answers'[d]
      BY <2>1, <2>2, <2>4 DEF SeatsOf, MoveScore, TypeOK
    <3> QED
      BY <3>1, <3>2, AnswersGrow
  <2> QED
    BY <2>3, <2>4
<1>6. ASSUME NEW old \in Clients, NEW new \in Clients, ReconnectPlayer(old, new),
             ~(state # "Finished" /\ old \in roster)
      PROVE  UNCHANGED <<roster, answers>>
  BY <1>6 DEF ReconnectPlayer
<1>7. ASSUME NEW c \in Clients, \/ SetReady(c) \/ StartByHost(c) \/ Unregister(c)
                                \/ Register(c) \/ GraceTimerFires(c)
      PROVE  UNCHANGED <<roster, answers>>
  BY <1>7 DEF SetReady, StartByHost, Unregister, Register, GraceTimerFires
<1>8. CASE \/ StartGame \/ CountdownOver \/ DelayOver \/ ArmRoundTimer
           \/ RoundTimerFires \/ OnRoundTimeout \/ FinishGame \/ UNCHANGED vars
  <2>1. UNCHANGED <<roster, answers>>
    BY <1>8 DEF StartGame, CountdownOver, DelayOver, NextRound, ArmRoundTimer, RoundTimerFires,
                OnRoundTimeout, FinishGame, vars
  <2> QED
    BY <2>1, <1>2
<1> QED
  BY <1>1, <1>2, <1>3, <1>4, <1>5, <1>6, <1>7, <1>8, NextCases

\* A user who keeps its seats keeps its answers while a game runs.
THEOREM ScoresSurvive == Spec => ScoreSurvives
<1>1. TypeOK /\ TypeOK' /\ FiniteRoster /\ FiniteRoster' /\ ContractInv /\ [Next]_vars =>
        [state # "Waiting" =>
           \A u \in Users : Cardinality(SeatsOf(u)') = Cardinality(SeatsOf(u))
                               => AnswersOf(u)' >= AnswersOf(u)]_vars
  BY SurvivesStep
<1> QED
  BY <1>1, TypeCorrect, RosterFacts, PTL DEF Spec, ScoreSurvives
=============================================================================
