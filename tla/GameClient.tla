----------------------------- MODULE GameClient -----------------------------
(***************************************************************************)
(* One player's page: the game hook (useGame), the play page and its       *)
(* screens, over the connection of WsClient, against the player's seat as  *)
(* the server keeps it.  The seat is an abstraction of Hub and Room to     *)
(* what one connection of one player sees of them.                         *)
(***************************************************************************)
EXTENDS WsClient

CONSTANTS
  Kinds,        \* what the idle screen offers: "solo", "duel", "create", "enter"
  TotalRounds,
  MaxGames,     \* bound: games the player asks for
  MaxBehind     \* bound: messages on their way to the page when the server goes on

ASSUME GameAssumption ==
  /\ Kinds \subseteq {"solo", "duel", "create", "enter"}
  /\ TotalRounds \in Nat \ {0} /\ MaxGames \in Nat /\ MaxBehind \in Nat \ {0}

VARIABLES
  store,      \* the game hook's store
  selected,   \* what is selected on the idle screen
  readySent,  \* the play page's flag that disables the Ready button
  delayed,    \* joins that wait their half second before they are sent
  again,      \* the game Play Again was pressed in while its timer is pending, else 0
  canvas,     \* GameCanvas: round it was reset for (0: not mounted), answered
  seat,       \* the player's place at the server
  down,       \* messages of the server on their way over the open connection
  game,       \* history: number of the player's last request
  hasty,      \* history: requests given up, or overtaken, before their half second was over
  crossed,    \* history: the server still had a seat when the player left, or took a join that
              \*          was given up or came from a player with a seat
  shots       \* history: hits sent for the round on the canvas

gameVars == <<store, selected, readySent, delayed, again, canvas, seat, down,
              game, hasty, crossed, shots>>
vars == <<wsVars, gameVars>>

-----------------------------------------------------------------------------
(* The store and the screens. *)

Modes   == {"solo", "duel", "battle"}
Screens == {"idle", "queuing", "creating_room", "in_lobby", "matched", "countdown",
            "playing", "round_end", "game_over"}

initialStore ==
  [state |-> "idle", mode |-> "solo", round |-> 0, correct |-> 0, count |-> 0,
   isHost |-> FALSE, hostIsMe |-> FALSE, over |-> FALSE, error |-> FALSE]

ModeOf(kind) == IF kind \in {"create", "enter"} THEN "battle" ELSE kind

\* The lobby offers Start to whom it takes for the host.
AmIHost == store.isHost \/ store.hostIsMe

OnCanvas(s) == s.state \in {"playing", "round_end"}

NoCanvas == [round |-> 0, answered |-> FALSE]

\* Seeded fault: the canvas starts anew with every message.
CanvasAnew(s) == IF ~OnCanvas(s) THEN NoCanvas ELSE [NoCanvas EXCEPT !.round = s.round]

\* GameCanvas is unmounted by the other screens and starts anew with each round it is shown.
CanvasOf(s) ==
  IF ~OnCanvas(s) THEN NoCanvas
  ELSE IF canvas.round = s.round THEN canvas
  ELSE [NoCanvas EXCEPT !.round = s.round]

Show(s) ==
  /\ store' = s
  /\ canvas' = CanvasOf(s)
  /\ shots' = IF OnCanvas(s) /\ s.round = store.round THEN shots ELSE 0

-----------------------------------------------------------------------------
(* The server's messages. *)

NoSeat == [phase |-> "none", mode |-> "solo", round |-> 0, correct |-> 0, others |-> 0,
           host |-> FALSE, ready |-> FALSE, answered |-> FALSE]

\* A duel that was left is over, though a round that is under way may still come.
Active  == {"countdown", "playing", "round_end"}
InRoom  == Active \cup {"waiting", "left"}
Say(type) == [type |-> type, seat |-> seat']     \* what a message tells of the seat

ScreenOf(phase) == IF phase = "waiting" THEN "in_lobby" ELSE phase

\* Seeded fault: the answers given before the connection was lost are forgotten.
SyncedWithoutScore(st, s) ==
  [st EXCEPT !.state = ScreenOf(s.phase), !.mode = s.mode, !.round = s.round,
                !.correct = 0, !.count = s.others + 1]

\* Seeded fault: the round is not taken from the message.
SyncedWithoutRound(st, s) ==
  [st EXCEPT !.state = ScreenOf(s.phase), !.mode = s.mode, !.round = 0,
                !.correct = s.correct, !.count = s.others + 1]

\* game_state_sync restores all but who the host is.
Synced(st, s) ==
  [st EXCEPT !.state = ScreenOf(s.phase), !.mode = s.mode, !.round = s.round,
                !.correct = s.correct, !.count = s.others + 1]

\* What a store st becomes by a message: the switch of the game hook.
Handled(st, m) ==
  LET s == m.seat IN
  CASE m.type = "queue_joined"   -> [st EXCEPT !.state = "queuing"]
    [] m.type = "room_created"   -> [st EXCEPT !.state = "in_lobby", !.count = 1, !.isHost = TRUE]
    [] m.type \in {"player_joined", "player_left"} ->
         [st EXCEPT !.count = s.others + 1, !.hostIsMe = s.host]
    [] m.type = "match_found"    ->
         [st EXCEPT !.state = IF s.mode = "battle" THEN "in_lobby" ELSE "matched",
                       !.count = IF s.mode = "battle" THEN s.others + 1 ELSE 2,
                       !.isHost = s.host, !.hostIsMe = s.host]
    [] m.type = "countdown"      -> [st EXCEPT !.state = "countdown"]
    [] m.type = "round_start"    -> [st EXCEPT !.state = "playing", !.round = s.round]
    [] m.type = "score_update"   -> [st EXCEPT !.correct = s.correct]
    [] m.type = "round_end"      -> [st EXCEPT !.state = "round_end"]
    [] m.type = "game_over"      -> [st EXCEPT !.state = "game_over", !.over = TRUE]
    [] m.type = "opponent_left"  -> [st EXCEPT !.state = "game_over", !.over = FALSE]
    [] m.type = "host_changed"   -> [st EXCEPT !.hostIsMe = s.host]
    [] m.type = "game_state_sync" -> Synced(st, s)
    [] m.type = "error"          -> [st EXCEPT !.state = "idle", !.error = TRUE]

\* The requests whose half second is not over.
Waiting == {j.game : j \in delayed}

\* An error takes the page back to the idle screen, which gives up what it waits for.
Deliver ==
  /\ down # <<>>
  /\ down' = Tail(down)
  /\ Show(Handled(store, Head(down)))
  /\ hasty' = IF store'.state = "idle" THEN hasty \cup Waiting ELSE hasty
  /\ UNCHANGED <<wsVars, selected, readySent, delayed, again, seat, game, crossed>>

-----------------------------------------------------------------------------
(* The player. *)

Join(g, kind) == [type |-> "join", game |-> g, kind |-> kind]
Plain(type)   == [type |-> type]
Sendable      == {Plain("ready"), Plain("start"), Plain("hit")}
                 \cup {Join(g, k) : g \in 1..MaxGames, k \in Kinds}

ASSUME MessagesAssumption == Sendable \subseteq Messages

\* joinGame, createRoom and joinRoom: connect now, ask in half a second.
Request(kind) ==
  /\ game < MaxGames
  /\ Connect
  /\ Show([initialStore EXCEPT !.mode = ModeOf(kind),
                               !.state = IF kind = "create" THEN "creating_room" ELSE "queuing"])
  /\ game' = game + 1
  /\ delayed' = delayed \cup {Join(game + 1, kind)}
  /\ hasty' = hasty \cup Waiting
  /\ UNCHANGED <<readySent, seat, down, crossed>>

\* A mode button, and then Start or a room code: handleStart, handleJoinByCode.
Start(kind) ==
  /\ store.state = "idle"
  /\ selected' = ModeOf(kind)
  /\ Request(kind)
  /\ UNCHANGED again

\* The half second is over; nothing has cancelled it.  Timers fire in their order: Play Again's
\* three tenths are over before the half second of what was asked for after it was pressed.
SendJoin(j) ==
  /\ j \in delayed
  /\ again > 0 => j.game <= again
  /\ delayed' = delayed \ {j}
  /\ Send(j)
  /\ UNCHANGED <<store, selected, readySent, again, canvas, seat, down, game, hasty,
                 crossed, shots>>

\* leaveGame: leave_room, which reaches the server only over an open connection, and disconnect.
LeaveGame ==
  /\ Disconnect
  /\ seat' = IF wsRef = "open" \/ seat.phase \notin InRoom THEN NoSeat ELSE seat
  /\ down' = <<>>
  /\ Show(initialStore)
  /\ hasty' = hasty \cup Waiting
  /\ crossed' = (seat' # NoSeat)
  /\ UNCHANGED <<selected, delayed, game>>

\* Cancel, Leave and Back to Lobby: handleLeave leaves the ready flag alone.
Leave ==
  /\ store.state \in {"queuing", "creating_room", "in_lobby", "game_over"}
  /\ LeaveGame
  /\ UNCHANGED <<readySent, again>>

\* handlePlayAgain: leave, and ask for the selected mode in three tenths of a second.
PlayAgain ==
  /\ store.state = "game_over" /\ store.over
  /\ again = 0
  /\ LeaveGame
  /\ readySent' = FALSE
  /\ again' = game

AgainFires ==
  /\ again > 0
  /\ again' = 0
  /\ \E kind \in Kinds \ {"enter"} : ModeOf(kind) = selected /\ Request(kind)
  /\ UNCHANGED selected

Ready ==
  /\ store.state = "matched" /\ ~readySent
  /\ Send(Plain("ready"))
  /\ readySent' = TRUE
  /\ UNCHANGED <<store, selected, delayed, again, canvas, seat, down, game, hasty,
                 crossed, shots>>

StartGame ==
  /\ store.state = "in_lobby" /\ AmIHost /\ store.count >= 2
  /\ Send(Plain("start"))
  /\ UNCHANGED <<store, selected, readySent, delayed, again, canvas, seat, down, game,
                 hasty, crossed, shots>>

\* A click on a target: handleTargetClick and hitTarget.  That the canvas's own clock may forbid
\* it is left out: the player owes no click.
Hit ==
  /\ OnCanvas(store) /\ store.round > 0
  /\ ~canvas.answered
  /\ Send(Plain("hit"))
  /\ canvas' = [canvas EXCEPT !.answered = TRUE]
  /\ shots' = shots + 1
  /\ UNCHANGED <<store, selected, readySent, delayed, again, seat, down, game, hasty,
                 crossed>>

-----------------------------------------------------------------------------
(* The link.  The token stays valid here; Browser has what else becomes of it. *)

\* Steps of WsClient that are no call of the player's, with what they do to the seat.  A room keeps
\* the seat when the connection ends.  The next connection takes it over when the server has seen
\* the old one go by then, in a game under way; else it has no seat, and is told nothing.
Link ==
  /\ Events
  /\ IF wsRef = "open" /\ wsRef' # "open"
     THEN /\ seat' = IF seat.phase \in InRoom THEN seat ELSE NoSeat
          /\ down' = <<>>
     ELSE IF wsRef # "open" /\ wsRef' = "open"
     THEN \/ /\ seat.phase \in Active
             /\ down' = <<[type |-> "game_state_sync", seat |-> seat]>>
             /\ UNCHANGED seat
          \/ seat' = NoSeat /\ down' = <<>>
     ELSE UNCHANGED <<seat, down>>
  /\ UNCHANGED <<store, selected, readySent, delayed, again, canvas, game, hasty, crossed, shots>>

-----------------------------------------------------------------------------
(* The server. *)

Tell(msgs) == down' = IF wsRef = "open" THEN down \o msgs ELSE down

ServerStep ==
  UNCHANGED <<store, selected, readySent, delayed, again, canvas, game, hasty, shots>>

NewSeat(phase, mode) == [NoSeat EXCEPT !.phase = phase, !.mode = mode]

TakeJoin(m) ==
  /\ m.type = "join"
  /\ crossed' = (crossed \/ m.game # game \/ m.game \in hasty \/ seat.phase # "none")
  /\ \/ m.kind = "solo"   /\ seat' = NewSeat("waiting", "solo") /\ Tell(<<Say("match_found")>>)
     \/ m.kind = "duel"   /\ seat' = NewSeat("queued", "duel")  /\ Tell(<<Say("queue_joined")>>)
     \/ /\ m.kind = "duel"
        /\ seat' = [NewSeat("waiting", "duel") EXCEPT !.others = 1]
        /\ Tell(<<Say("match_found")>>)
     \/ /\ m.kind = "create"
        /\ seat' = [NewSeat("waiting", "battle") EXCEPT !.host = TRUE]
        /\ Tell(<<Say("room_created")>>)
     \/ /\ m.kind = "enter"
        /\ seat' = [NewSeat("waiting", "battle") EXCEPT !.others = 1]
        /\ Tell(<<Say("match_found"), Say("player_joined")>>)
     \/ m.kind = "enter"  /\ UNCHANGED seat /\ Tell(<<Say("error")>>)

TakeReady(m) ==
  /\ m.type = "ready"
  /\ seat' = [seat EXCEPT !.ready = @ \/ seat.phase = "waiting"]
  /\ UNCHANGED <<down, crossed>>

\* Bound: a game that a second start begins anew is followed no further.
TakeStart(m) ==
  /\ m.type = "start"
  /\ \/ /\ seat.host /\ seat.phase # "none"
        /\ seat' = [seat EXCEPT !.phase = "countdown", !.round = 0]
        /\ crossed' = (crossed \/ seat.phase # "waiting")
        /\ Tell(<<Say("countdown")>>)
     \/ /\ ~seat.host /\ seat.phase \in InRoom \cup {"finished"}
        /\ UNCHANGED <<seat, crossed>>
        /\ Tell(<<Say("error")>>)
     \/ seat.phase \in {"none", "queued"} /\ UNCHANGED <<seat, down, crossed>>

\* A hit counts in its round or shortly after, unless its target is taken.  A correct one ends the
\* round of a solo game or a duel.
TakeHit(m) ==
  /\ m.type = "hit"
  /\ \/ /\ seat.phase \in {"playing", "round_end"} /\ ~seat.answered
        /\ \E gain \in 0..1 :
             LET ends == gain = 1 /\ seat.mode # "battle" IN
             /\ seat' = [seat EXCEPT !.answered = TRUE, !.correct = @ + gain,
                                     !.phase = IF ends THEN "round_end" ELSE @]
             /\ Tell(<<Say("score_update")>> \o IF ends THEN <<Say("round_end")>> ELSE <<>>)
     \/ /\ ~(seat.mode = "solo" /\ seat.phase = "playing" /\ ~seat.answered)
        /\ UNCHANGED <<seat, down>>
  /\ UNCHANGED crossed

Take ==
  /\ Taken
  /\ Len(down) < MaxBehind
  /\ LET m == Head(wired) IN TakeJoin(m) \/ TakeReady(m) \/ TakeStart(m) \/ TakeHit(m)
  /\ ServerStep

Matched ==
  /\ seat.phase = "queued"
  /\ seat' = [seat EXCEPT !.phase = "waiting", !.others = 1]
  /\ Tell(<<Say("match_found")>>)

AllReady ==
  /\ seat.phase = "waiting" /\ seat.mode # "battle" /\ seat.ready
  /\ seat' = [seat EXCEPT !.phase = "countdown", !.round = 0]
  /\ Tell(<<Say("countdown")>>)

\* Another host may start the room the player is in.
OtherStarts ==
  /\ seat.phase = "waiting" /\ seat.mode = "battle" /\ ~seat.host
  /\ seat' = [seat EXCEPT !.phase = "countdown", !.round = 0]
  /\ Tell(<<Say("countdown")>>)

\* nextRound does not ask for the state: a second chain of rounds, which Room has, may cut a round
\* short, and a duel that was left goes on.
RoundStarts ==
  /\ \/ seat.phase = "countdown"
     \/ seat.phase \in {"playing", "round_end", "left"} /\ seat.round < TotalRounds
  /\ seat' = [seat EXCEPT !.phase = "playing", !.round = @ + 1, !.answered = FALSE]
  /\ Tell(<<Say("round_start")>>)

RoundEnds ==
  /\ seat.phase = "playing"
  /\ seat' = [seat EXCEPT !.phase = "round_end"]
  /\ Tell(<<Say("round_end")>>)

\* finishGame, once or, with two chains of rounds, again.
GameEnds ==
  /\ seat.phase \in {"playing", "round_end", "left", "finished"} /\ seat.round = TotalRounds
  /\ seat' = [seat EXCEPT !.phase = "finished"]
  /\ Tell(<<Say("game_over")>>)

OpponentLeft ==
  /\ seat.phase \in Active \cup {"waiting"} /\ seat.mode = "duel" /\ seat.others = 1
  /\ seat' = [seat EXCEPT !.phase = IF @ = "waiting" THEN "finished" ELSE "left", !.others = 0]
  /\ Tell(<<Say("opponent_left")>>)

OtherJoins ==
  /\ seat.phase = "waiting" /\ seat.mode = "battle" /\ seat.others = 0
  /\ seat' = [seat EXCEPT !.others = 1]
  /\ Tell(<<Say("player_joined")>>)

\* The other player leaves a battle: the host's place may fall to this one.
OtherLeaves ==
  /\ seat.phase \in InRoom /\ seat.mode = "battle" /\ seat.others = 1
  /\ seat' = [seat EXCEPT !.others = 0, !.host = TRUE]
  /\ Tell((IF seat.host THEN <<>> ELSE <<Say("host_changed")>>) \o <<Say("player_left")>>)

\* The place of a player who has not come back in time is given up.
GraceExpires ==
  /\ wsRef # "open" /\ seat.phase \in InRoom
  /\ seat' = NoSeat
  /\ UNCHANGED down

\* Bound: a room the page and the server disagree about is followed no further.
RoomMoves ==
  /\ ~crossed
  /\ Len(down) < MaxBehind
  /\ \/ Matched \/ AllReady \/ OtherStarts \/ RoundStarts \/ RoundEnds \/ GameEnds
     \/ OpponentLeft \/ OtherJoins \/ OtherLeaves \/ GraceExpires
  /\ UNCHANGED <<wsVars, crossed>>
  /\ ServerStep

-----------------------------------------------------------------------------
Init ==
  /\ WsInit
  /\ store = initialStore /\ selected = "solo" /\ readySent = FALSE
  /\ delayed = {} /\ again = 0 /\ canvas = NoCanvas
  /\ seat = NoSeat /\ down = <<>>
  /\ game = 0 /\ hasty = {} /\ crossed = FALSE /\ shots = 0

Player ==
  \/ \E kind \in Kinds : Start(kind)
  \/ Leave \/ PlayAgain \/ Ready \/ StartGame \/ Hit

Page == Deliver \/ AgainFires \/ \E j \in delayed : SendJoin(j)

Next == Player \/ Page \/ Link \/ Take \/ RoomMoves

Spec == Init /\ [][Next]_vars

-----------------------------------------------------------------------------
(* Properties. *)

\* The connection is up, nothing is under way to the page, and nothing is disputed.
Quiet == wsRef = "open" /\ down = <<>> /\ ~crossed

\* Once what the server said has arrived, the page shows what the room does, through any number of
\* lost connections, resumed rounds and games, and whatever the player has asked for since: the
\* same phase, round, score, players, and Start for the host alone.
ScreenFollowsRoom ==
  Quiet /\ seat.phase \in InRoom =>
    /\ store.state = CASE seat.phase = "waiting" -> IF seat.mode = "battle" THEN "in_lobby" ELSE "matched"
                       [] seat.phase = "left"    -> "game_over"
                       [] OTHER                  -> seat.phase
    /\ OnCanvas(store) => store.round = seat.round /\ store.correct = seat.correct
    /\ store.state = "in_lobby" /\ seat.mode = "battle" =>
         /\ store.count = seat.others + 1
         /\ AmIHost = seat.host

\* A round is answered once from this page, also when its connection is lost and the round is
\* restored by game_state_sync while the canvas stays.
OneHitPerRound == shots <= 1

\* A join that goes out is the player's last request, or one given up or overtaken within its half
\* second: what was queued for an earlier game never reaches the server.
LateJoinsWereHasty ==
  [][\A i \in Len(wired) + 1 .. Len(wired') : wired'[i].type = "join"
       => wired'[i].game \in hasty \cup {game}]_vars

\* The rounds of a game are shown in their order; a lower one comes only with another game, by
\* way of another screen.
RoundsInOrder ==
  [][~crossed /\ store'.round < store.round => store'.state # "playing"]_vars

\* The screen that says "Waiting for opponent to be ready..." is shown to a player who is ready.
ReadyIsMine ==
  Quiet /\ wired = <<>> /\ seat.phase = "waiting" /\ store.state = "matched" /\ readySent
    => seat.ready
=============================================================================
