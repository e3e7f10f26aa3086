----------------------------- MODULE GameProofs -----------------------------
(***************************************************************************)
(* Theorems about the page of one player: it uses its connection only by   *)
(* the calls and events of WsClient, so that all that is proved there      *)
(* holds of it, and it answers a round at most once.                       *)
(***************************************************************************)
EXTENDS GameClient, WsProofs

\* The cases a proof about Next has to look at.
LEMMA GameCases ==
  ASSUME [Next]_vars
  PROVE  \/ \E kind \in Kinds : Start(kind)
         \/ Leave \/ PlayAgain \/ AgainFires \/ Ready \/ StartGame \/ Hit
         \/ Deliver \/ \E j \in delayed : SendJoin(j)
         \/ Link \/ Take \/ RoomMoves
         \/ UNCHANGED vars
  BY DEF Next, Player, Page

-----------------------------------------------------------------------------
(***************************************************************************)
(* The page uses the hook as the hook is meant to be used.  What its       *)
(* pending joins ask for is one of the messages of the hook.               *)
(***************************************************************************)
JoinsAreKnown == game \in 0..MaxGames /\ delayed \subseteq {Join(g, k) : g \in 1..MaxGames, k \in Kinds}

LEMMA KnownRequest == ASSUME JoinsAreKnown, NEW kind \in Kinds, Request(kind) PROVE JoinsAreKnown'
  BY GameAssumption DEF JoinsAreKnown, Request

LEMMA KnownStep == JoinsAreKnown /\ [Next]_vars => JoinsAreKnown'
<1> SUFFICES ASSUME JoinsAreKnown, [Next]_vars PROVE JoinsAreKnown'
  OBVIOUS
<1>1. ASSUME NEW kind \in Kinds, Start(kind) PROVE JoinsAreKnown'
  BY <1>1, KnownRequest DEF Start
<1>2. CASE AgainFires
  BY <1>2, KnownRequest DEF AgainFires
<1>3. ASSUME NEW j \in delayed, SendJoin(j) PROVE JoinsAreKnown'
  BY <1>3 DEF SendJoin, JoinsAreKnown
<1>4. CASE UNCHANGED <<game, delayed>>
  BY <1>4 DEF JoinsAreKnown
<1>5. UNCHANGED <<game, delayed>> \/ (\E kind \in Kinds : Start(kind)) \/ AgainFires
      \/ \E j \in delayed : SendJoin(j)
  BY GameCases DEF Leave, PlayAgain, LeaveGame, Ready, StartGame, Hit, Deliver, Link, Take,
                   RoomMoves, ServerStep, vars, gameVars
<1> QED
  BY <1>1, <1>2, <1>3, <1>4, <1>5

LEMMA EachStepIsOfTheHook == JoinsAreKnown /\ [Next]_vars => [WsNext]_wsVars
<1> SUFFICES ASSUME JoinsAreKnown, [Next]_vars PROVE [WsNext]_wsVars
  OBVIOUS
<1> USE DEF WsNext
<1>1. ASSUME NEW kind \in Kinds, Start(kind) PROVE Connect
  BY <1>1 DEF Start, Request
<1>2. CASE AgainFires
  BY <1>2 DEF AgainFires, Request
<1>3. CASE Leave \/ PlayAgain
  BY <1>3 DEF Leave, PlayAgain, LeaveGame
<1>4. CASE Ready \/ StartGame \/ Hit
  <2>1. \E m \in Sendable : Send(m)
    BY <1>4 DEF Ready, StartGame, Hit, Sendable
  <2> QED
    BY <2>1, MessagesAssumption
<1>5. ASSUME NEW j \in delayed, SendJoin(j) PROVE WsNext
  BY <1>5, MessagesAssumption DEF SendJoin, Sendable, JoinsAreKnown
<1>6. CASE Deliver \/ RoomMoves \/ UNCHANGED vars
  BY <1>6 DEF Deliver, RoomMoves, vars
<1>7. CASE Link
  BY <1>7 DEF Link
<1>8. CASE Take
  BY <1>8 DEF Take
<1> QED
  BY <1>1, <1>2, <1>3, <1>4, <1>5, <1>6, <1>7, <1>8, GameCases

LEMMA InitIsKnown == Init => JoinsAreKnown
  BY GameAssumption DEF Init, JoinsAreKnown

\* Whatever the player does and the server says, the hook is only used as WsClient has it.
THEOREM PageUsesHook == Spec => WsSpec
<1>1. Init => WsInit
  BY DEF Init
<1> QED
  BY <1>1, InitIsKnown, KnownStep, EachStepIsOfTheHook, PTL DEF Spec, WsSpec

\* The hook is type correct under the page.
THEOREM PageTypeCorrect == Spec => []TypeOK
  BY PageUsesHook, TypeCorrect, PTL

\* The page is never connected twice by its hook.
THEOREM PageNeverTwice == Spec => []NoStray
  BY PageUsesHook, NeverTwice, PTL

\* What the page asks for reaches the server in order and once.
THEOREM PageNothingOvertakes == Spec => []InOrder
  BY PageUsesHook, NothingOvertakes, PTL

\* A game that was left stays left.
THEOREM PageHangingUpIsFinal == Spec => []HungUpIsQuiet
  BY PageUsesHook, HangingUpIsFinal, PTL

-----------------------------------------------------------------------------
(***************************************************************************)
(* A round is answered once.  The canvas belongs to the round the store    *)
(* shows, and once a hit was sent for that round it is marked as answered, *)
(* also when game_state_sync restores the same round.                      *)
(***************************************************************************)
CanvasInv ==
  /\ shots \in {0, 1}
  /\ canvas = [round |-> canvas.round, answered |-> canvas.answered]
  /\ OnCanvas(store) => canvas.round = store.round
  /\ shots = 1 => OnCanvas(store) /\ canvas.answered

LEMMA ShowKeepsCanvas ==
  ASSUME CanvasInv, NEW s, Show(s) PROVE CanvasInv'
<1> USE DEF CanvasInv, Show
<1>1. CASE ~OnCanvas(s)
  BY <1>1 DEF CanvasOf, NoCanvas
<1>2. CASE OnCanvas(s) /\ canvas.round = s.round
  BY <1>2 DEF CanvasOf
<1>3. CASE OnCanvas(s) /\ canvas.round # s.round
  <2>1. canvas' = [round |-> s.round, answered |-> FALSE]
    BY <1>3 DEF CanvasOf, NoCanvas
  <2>2. shots' = 0
    BY <1>3
  <2>3. store' = s
    OBVIOUS
  <2> QED
    BY <2>1, <2>2, <2>3
<1> QED
  BY <1>1, <1>2, <1>3

LEMMA CanvasStep == CanvasInv /\ [Next]_vars => CanvasInv'
<1> SUFFICES ASSUME CanvasInv, [Next]_vars PROVE CanvasInv'
  OBVIOUS
<1>1. CASE \E s : Show(s)
  BY <1>1, ShowKeepsCanvas
<1>2. CASE Hit
  <2>1. OnCanvas(store) /\ ~canvas.answered /\ store' = store
    BY <1>2 DEF Hit
  <2>2. shots = 0
    BY <2>1 DEF CanvasInv
  <2>3. shots' = shots + 1 /\ canvas' = [canvas EXCEPT !.answered = TRUE]
    BY <1>2, Zenon DEF Hit
  <2>4. canvas' = [round |-> canvas.round, answered |-> TRUE]
    BY <2>3 DEF CanvasInv
  <2>5. OnCanvas(store)' /\ store' = store
    BY <2>1 DEF OnCanvas
  <2>6. canvas.round = store.round
    BY <2>1 DEF CanvasInv
  <2>7. canvas'.round = store'.round /\ canvas'.answered
    BY <2>4, <2>5, <2>6
  <2>8. canvas' = [round |-> canvas'.round, answered |-> canvas'.answered]
    BY <2>4
  <2>9. shots' \in {0, 1}
    BY <2>2, <2>3
  <2> QED
    BY <2>5, <2>7, <2>8, <2>9, Zenon DEF CanvasInv
<1>3. CASE UNCHANGED <<store, canvas, shots>>
  BY <1>3 DEF CanvasInv, OnCanvas
<1>4. (\E s : Show(s)) \/ Hit \/ UNCHANGED <<store, canvas, shots>>
  <2>1. ASSUME Deliver PROVE \E s : Show(s)
    BY <2>1 DEF Deliver
  <2>2. ASSUME Leave \/ PlayAgain PROVE \E s : Show(s)
    BY <2>2 DEF Leave, PlayAgain, LeaveGame
  <2>3. ASSUME NEW kind, Request(kind) PROVE \E s : Show(s)
    BY <2>3 DEF Request
  <2>4. ASSUME (\E kind \in Kinds : Start(kind)) \/ AgainFires PROVE \E s : Show(s)
    BY <2>3, <2>4 DEF Start, AgainFires
  <2> QED
    BY <2>1, <2>2, <2>4, GameCases
       DEF SendJoin, Ready, StartGame, Link, Take, RoomMoves, ServerStep, vars, gameVars
<1> QED
  BY <1>1, <1>2, <1>3, <1>4

\* No round is answered twice from this page, through lost connections and restored rounds.
THEOREM RoundsAreAnsweredOnce == Spec => []OneHitPerRound
<1>1. Init => CanvasInv
  BY DEF Init, CanvasInv, NoCanvas, OnCanvas, initialStore
<1>2. CanvasInv => OneHitPerRound
  BY DEF CanvasInv, OneHitPerRound
<1> QED
  BY <1>1, <1>2, CanvasStep, PTL DEF Spec
=============================================================================
