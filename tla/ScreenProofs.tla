---------------------------- MODULE ScreenProofs ----------------------------
(***************************************************************************)
(* Theorems about what the page asks for and what it shows, for every      *)
(* number of games, rounds and messages under way: only the last request   *)
(* counts, the screen follows the room, and rounds come in their order.    *)
(***************************************************************************)
EXTENDS GameProofs

-----------------------------------------------------------------------------
(***************************************************************************)
(* The page keeps what is proved of the hook, and it holds a socket        *)
(* whenever the server's messages are under way.                           *)
(***************************************************************************)
DownIsOpen == down # <<>> => wsRef = "open"

PageInv == OrderInv /\ JoinsAreKnown /\ DownIsOpen

LEMMA PageStep == PageInv /\ [Next]_vars => PageInv'
<1> SUFFICES ASSUME PageInv, [Next]_vars PROVE PageInv'
  OBVIOUS
<1>1. OrderInv' /\ JoinsAreKnown'
  BY EachStepIsOfTheHook, OrderStep, KnownStep DEF PageInv
<1>2. DownIsOpen'
  <2> USE DEF PageInv, DownIsOpen
  <2>1. CASE Leave \/ PlayAgain
    BY <2>1 DEF Leave, PlayAgain, LeaveGame
  <2>2. ASSUME NEW kind, Request(kind) PROVE DownIsOpen'
    BY <2>2 DEF Request, Connect, Dial, Live
  <2>3. CASE (\E kind \in Kinds : Start(kind)) \/ AgainFires
    BY <2>2, <2>3 DEF Start, AgainFires
  <2>4. CASE \/ Ready \/ StartGame \/ Hit \/ \E j \in delayed : SendJoin(j)
    BY <2>4 DEF Ready, StartGame, Hit, SendJoin, Send
  <2>5. CASE Deliver
    BY <2>5 DEF Deliver, wsVars
  <2>6. CASE Link
    BY <2>6 DEF Link
  <2>7. CASE Take
    <3>1. wsRef' = "open"
      BY <2>7 DEF Take, Taken, sockets
    <3> QED
      BY <3>1
  <2>8. CASE RoomMoves
    <3>1. down' = down \/ wsRef = "open"
      BY <2>8 DEF RoomMoves, Tell, Matched, AllReady, OtherStarts, RoundStarts, RoundEnds, GameEnds,
                  OpponentLeft, OtherJoins, OtherLeaves, GraceExpires
    <3>2. wsRef' = wsRef
      BY <2>8 DEF RoomMoves, wsVars
    <3> QED
      BY <3>1, <3>2
  <2>9. CASE UNCHANGED vars
    BY <2>9 DEF vars, wsVars, gameVars
  <2> QED
    BY <2>1, <2>3, <2>4, <2>5, <2>6, <2>7, <2>8, <2>9, GameCases
<1> QED
  BY <1>1, <1>2 DEF PageInv

LEMMA PageInit == Init => PageInv
<1> SUFFICES ASSUME Init PROVE PageInv
  OBVIOUS
<1>1. WsInit /\ down = <<>>
  BY DEF Init
<1>2. OrderInv
  BY <1>1, TypeInit, ConcatEmptySeq, EmptySeq DEF OrderInv, WsInit, InOrder, OpenIsFlushed
<1> QED
  BY <1>1, <1>2, InitIsKnown DEF PageInv, DownIsOpen

-----------------------------------------------------------------------------
(***************************************************************************)
(* What a step does with the messages that were asked for: nothing, take   *)
(* them all away, add one, or let the wire go.                             *)
(***************************************************************************)
Items(q) == {q[i] : i \in 1..Len(q)}

JoinsIn(q) == {m \in Items(q) : m.type = "join"}

LEMMA NoItems == Items(<<>>) = {} /\ JoinsIn(<<>>) = {}
  BY EmptySeq DEF Items, JoinsIn

LEMMA ItemsOfAppend ==
  ASSUME NEW S, NEW q \in Seq(S), NEW m \in S PROVE Items(Append(q, m)) = Items(q) \cup {m}
<1>1. /\ Len(q) \in Nat /\ Len(Append(q, m)) = Len(q) + 1
      /\ Append(q, m)[Len(q) + 1] = m
      /\ \A i \in 1..Len(q) : Append(q, m)[i] = q[i]
  BY AppendProperties, LenProperties
<1>2. 1..Len(q) + 1 = 1..Len(q) \cup {Len(q) + 1}
  BY <1>1
<1> HIDE DEF Items
<1>3. Items(Append(q, m)) = {Append(q, m)[i] : i \in 1..Len(q) \cup {Len(q) + 1}}
  BY <1>1, <1>2 DEF Items
<1> QED
  BY <1>1, <1>3 DEF Items

LEMMA QueueIsAsked ==
  ASSUME PageInv
  PROVE  /\ Len(wired) \in Nat /\ Len(msgQueue) \in Nat
         /\ Len(asked) = Len(wired) + Len(msgQueue)
         /\ \A i \in 1..Len(wired) : asked[i] = wired[i]
         /\ \A i \in 1..Len(msgQueue) : asked[Len(wired) + i] = msgQueue[i]
<1>1. /\ wired \in Seq(Messages) /\ msgQueue \in Seq(Messages) /\ asked = wired \o msgQueue
  BY DEF PageInv, OrderInv, TypeOK, InOrder
<1>2. Len(wired) \in Nat /\ Len(msgQueue) \in Nat
  BY <1>1, LenProperties
<1> QED
  BY <1>1, <1>2, ConcatProperties

LEMMA LinkTraffic ==
  ASSUME PageInv, Link
  PROVE  \/ UNCHANGED <<asked, msgQueue, wired>>
         \/ asked' = msgQueue /\ msgQueue' = msgQueue /\ wired' = <<>>
         \/ asked' = asked /\ msgQueue' = <<>> /\ wired' = wired \o msgQueue
<1> USE DEF PageInv, OrderInv
<1>1. CASE Opened
  BY <1>1 DEF Opened
<1>2. CASE ConnectTimeout \/ TimerFires
  BY <1>2 DEF ConnectTimeout, TimerFires
<1>3. CASE PeerCloses
  BY <1>3, WireLostInOrder DEF PeerCloses
<1>4. ASSUME NEW code \in Codes, Closed(code)
      PROVE  asked' = msgQueue /\ msgQueue' = msgQueue /\ wired' = <<>>
  BY <1>4, WireLostInOrder DEF Closed, OnClose
<1>5. ASSUME NEW code \in Codes, StaleClosed(code) PROVE UNCHANGED <<asked, msgQueue, wired>>
  BY <1>5 DEF StaleClosed, OnClose
<1> QED
  BY <1>1, <1>2, <1>3, <1>4, <1>5 DEF Link, Events

-----------------------------------------------------------------------------
(***************************************************************************)
(* Only the last request counts.  What waits in a timer or in the queue is *)
(* the last request or was given up or overtaken within its half second;   *)
(* on the idle screen, and while Play Again waits, nothing else does, so   *)
(* that the next request finds nothing of the one before in the queue.     *)
(***************************************************************************)
LateInv ==
  /\ again \in 0..game
  /\ \A j \in delayed \cup JoinsIn(msgQueue) : j.game \in hasty \cup {game}
  /\ store.state = "idle" => \A j \in delayed \cup JoinsIn(msgQueue) : j.game \in hasty
  /\ again > 0 => /\ \A j \in JoinsIn(msgQueue) : j.game \in hasty
                  /\ \A j \in delayed : j.game <= again => j.game \in hasty

LEMMA LateRequest ==
  ASSUME PageInv, LateInv, NEW kind \in Kinds, Request(kind), again' \in {0, again},
         \A j \in JoinsIn(msgQueue) : j.game \in hasty
  PROVE  LateInv'
<1>1. /\ game' = game + 1 /\ delayed' = delayed \cup {Join(game + 1, kind)}
      /\ hasty' = hasty \cup Waiting /\ msgQueue' = msgQueue
      /\ store'.state \in {"creating_room", "queuing"}
  BY DEF Request, Connect, Show, initialStore
<1>2. /\ game \in Nat /\ again \in 0..game
      /\ \A j \in delayed : j.game \in hasty'
  BY <1>1 DEF PageInv, JoinsAreKnown, LateInv, Waiting
<1>3. Join(game + 1, kind).game = game'
  BY <1>1 DEF Join
<1>4. /\ \A j \in JoinsIn(msgQueue)' : j.game \in hasty'
      /\ \A j \in delayed' : j.game \in hasty' \/ j.game = game'
  BY <1>1, <1>2, <1>3
<1>5. again' \in 0..game' /\ ~(game' <= again')
  BY <1>1, <1>2
<1> QED
  BY <1>1, <1>4, <1>5 DEF LateInv

LEMMA LateLeave ==
  ASSUME PageInv, LeaveGame, again' \in 0..game PROVE LateInv'
<1>1. /\ msgQueue' = <<>> /\ hasty' = hasty \cup Waiting /\ UNCHANGED <<delayed, game>>
  BY DEF LeaveGame, Disconnect
<1>2. JoinsIn(msgQueue)' = {} /\ \A j \in delayed' : j.game \in hasty'
  BY <1>1, NoItems DEF Waiting
<1> QED
  BY <1>1, <1>2 DEF LateInv

LEMMA LateSame ==
  ASSUME LateInv, UNCHANGED <<delayed, game, again, hasty, store>>,
         JoinsIn(msgQueue)' \subseteq JoinsIn(msgQueue)
  PROVE  LateInv'
  BY DEF LateInv

LEMMA PlainQueue ==
  ASSUME PageInv, NEW m \in Sendable, Send(m)
  PROVE  /\ JoinsIn(msgQueue)' \subseteq JoinsIn(msgQueue) \cup {m}
         /\ m.type # "join" => JoinsIn(msgQueue)' = JoinsIn(msgQueue)
<1>1. CASE msgQueue' = msgQueue
  BY <1>1 DEF JoinsIn, Items
<1>2. CASE msgQueue' = Append(msgQueue, m)
  <2>1. msgQueue \in Seq(Messages) /\ m \in Messages
    BY MessagesAssumption DEF PageInv, OrderInv, TypeOK
  <2>2. Items(msgQueue)' = Items(msgQueue) \cup {m}
    BY <1>2, <2>1, ItemsOfAppend
  <2> QED
    BY <2>2 DEF JoinsIn
<1> QED
  BY <1>1, <1>2 DEF Send

LEMMA LateStep == PageInv /\ LateInv /\ [Next]_vars => LateInv'
<1> SUFFICES ASSUME PageInv, LateInv, [Next]_vars PROVE LateInv'
  OBVIOUS
<1>1. ASSUME NEW kind \in Kinds, Start(kind) PROVE LateInv'
  <2>1. \A j \in JoinsIn(msgQueue) : j.game \in hasty
    BY <1>1 DEF Start, LateInv
  <2> QED
    BY <1>1, <2>1, LateRequest DEF Start
<1>2. CASE AgainFires
  <2>1. \A j \in JoinsIn(msgQueue) : j.game \in hasty
    BY <1>2 DEF AgainFires, LateInv
  <2> QED
    BY <1>2, <2>1, LateRequest DEF AgainFires
<1>3. CASE Leave \/ PlayAgain
  <2>1. game \in Nat /\ again \in 0..game
    BY DEF PageInv, JoinsAreKnown, LateInv
  <2>2. again' \in 0..game
    BY <1>3, <2>1 DEF Leave, PlayAgain
  <2> QED
    BY <1>3, <2>2, LateLeave DEF Leave, PlayAgain
<1>4. CASE Ready \/ StartGame \/ Hit
  <2>1. PICK m \in {Plain("ready"), Plain("start"), Plain("hit")} : Send(m)
    BY <1>4 DEF Ready, StartGame, Hit
  <2>2. m \in Sendable /\ m.type # "join"
    BY DEF Sendable, Plain
  <2>3. UNCHANGED <<delayed, game, again, hasty, store>>
    BY <1>4 DEF Ready, StartGame, Hit
  <2> QED
    BY <2>1, <2>2, <2>3, PlainQueue, LateSame
<1>5. CASE Deliver
  <2>1. wsRef = "open" /\ msgQueue = <<>> /\ msgQueue' = <<>>
    BY <1>5 DEF Deliver, PageInv, DownIsOpen, OrderInv, OpenIsFlushed, wsVars
  <2>2. /\ UNCHANGED <<delayed, game, again>>
        /\ hasty' = IF store'.state = "idle" THEN hasty \cup Waiting ELSE hasty
    BY <1>5 DEF Deliver
  <2>3. JoinsIn(msgQueue) = {} /\ JoinsIn(msgQueue)' = {}
    BY <2>1, NoItems
  <2> QED
    BY <2>2, <2>3 DEF LateInv, Waiting
<1>6. ASSUME NEW j \in delayed, SendJoin(j) PROVE LateInv'
  <2>1. /\ UNCHANGED <<game, again, hasty, store>> /\ delayed' = delayed \ {j}
        /\ again > 0 => j.game <= again
    BY <1>6 DEF SendJoin
  <2>2. j \in Sendable
    BY DEF PageInv, JoinsAreKnown, Sendable
  <2>3. JoinsIn(msgQueue)' \subseteq JoinsIn(msgQueue) \cup {j}
    BY <1>6, <2>2, PlainQueue DEF SendJoin
  <2> QED
    BY <2>1, <2>3 DEF LateInv
<1>7. CASE Link
  <2>1. UNCHANGED <<delayed, game, again, hasty, store>>
    BY <1>7 DEF Link
  <2>2. msgQueue' = msgQueue \/ msgQueue' = <<>>
    BY <1>7, LinkTraffic
  <2>3. JoinsIn(msgQueue)' \subseteq JoinsIn(msgQueue)
    BY <2>2, NoItems DEF JoinsIn, Items
  <2> QED
    BY <2>1, <2>3, LateSame
<1>8. CASE Take \/ RoomMoves \/ UNCHANGED vars
  <2>1. UNCHANGED <<delayed, game, again, hasty, store, msgQueue>>
    BY <1>8 DEF Take, Taken, RoomMoves, ServerStep, vars, gameVars, wsVars
  <2> QED
    BY <2>1, LateSame DEF JoinsIn, Items
<1> QED
  BY <1>1, <1>2, <1>3, <1>4, <1>5, <1>6, <1>7, <1>8, GameCases

LEMMA LateAction ==
  PageInv /\ LateInv /\ [Next]_vars =>
    [\A i \in Len(wired) + 1 .. Len(wired') : wired'[i].type = "join"
       => wired'[i].game \in hasty \cup {game}]_vars
<1> SUFFICES ASSUME PageInv, LateInv, [Next]_vars,
                    NEW i \in Len(wired) + 1 .. Len(wired'), wired'[i].type = "join"
             PROVE  wired'[i].game \in hasty \cup {game}
  OBVIOUS
<1>q. Len(wired) \in Nat /\ wired \in Seq(Messages) /\ msgQueue \in Seq(Messages)
  BY QueueIsAsked DEF PageInv, OrderInv, TypeOK
<1>1. ASSUME NEW m \in Sendable, Send(m), m.type = "join" => m.game \in hasty \cup {game}
      PROVE  wired'[i].game \in hasty \cup {game}
  <2>1. CASE wired' = wired
    BY <2>1, <1>q
  <2>2. CASE wired' = Append(wired, m)
    <3>1. m \in Messages
      BY MessagesAssumption
    <3>2. i = Len(wired) + 1 /\ wired'[i] = m
      BY <1>q, <2>2, <3>1, AppendProperties
    <3> QED
      BY <1>1, <3>2
  <2> QED
    BY <1>1, <2>1, <2>2 DEF Send
<1>2. CASE Ready \/ StartGame \/ Hit
  <2>1. PICK m \in {Plain("ready"), Plain("start"), Plain("hit")} : Send(m)
    BY <1>2 DEF Ready, StartGame, Hit
  <2>2. m \in Sendable /\ m.type # "join"
    BY DEF Sendable, Plain
  <2> QED
    BY <1>1, <2>1, <2>2
<1>3. ASSUME NEW j \in delayed, SendJoin(j) PROVE wired'[i].game \in hasty \cup {game}
  <2>1. j \in Sendable /\ j.game \in hasty \cup {game}
    BY DEF PageInv, JoinsAreKnown, Sendable, LateInv
  <2> QED
    BY <1>1, <1>3, <2>1 DEF SendJoin
<1>4. CASE Link
  <2>1. CASE wired' = <<>> \/ wired' = wired
    BY <2>1, <1>q, EmptySeq
  <2>2. CASE wired' = wired \o msgQueue
    <3>1. /\ Len(msgQueue) \in Nat /\ Len(wired') = Len(wired) + Len(msgQueue)
          /\ i - Len(wired) \in 1..Len(msgQueue) /\ wired'[i] = msgQueue[i - Len(wired)]
      BY <1>q, <2>2, ConcatProperties, LenProperties
    <3>2. wired'[i] \in JoinsIn(msgQueue)
      BY <3>1 DEF JoinsIn, Items
    <3> QED
      BY <3>2 DEF LateInv
  <2> QED
    BY <1>4, <2>1, <2>2, LinkTraffic
<1>5. CASE wired' = wired \/ wired' = <<>>
  BY <1>5, <1>q, EmptySeq
<1>6. CASE Take
  <2>1. wired # <<>> /\ wired' = Tail(wired)
    BY <1>6 DEF Take, Taken
  <2>2. Len(wired') = Len(wired) - 1
    BY <1>q, <2>1, HeadTailProperties
  <2> QED
    BY <1>q, <2>2
<1>7. CASE \/ Leave \/ PlayAgain \/ AgainFires \/ \E kind \in Kinds : Start(kind)
           \/ Deliver \/ RoomMoves \/ UNCHANGED vars
  <2>1. wired' = wired \/ wired' = <<>>
    BY <1>7 DEF Leave, PlayAgain, LeaveGame, Disconnect, AgainFires, Start, Request, Connect, Deliver,
                RoomMoves, vars, wsVars
  <2> QED
    BY <2>1, <1>5
<1> QED
  BY <1>2, <1>3, <1>4, <1>6, <1>7, GameCases

LEMMA PageFacts == Spec => [](PageInv /\ LateInv)
<1>1. Init => LateInv
  <2> SUFFICES ASSUME Init PROVE LateInv
    OBVIOUS
  <2>1. delayed = {} /\ again = 0 /\ game = 0 /\ JoinsIn(msgQueue) = {}
    BY NoItems DEF Init, WsInit
  <2> QED
    BY <2>1 DEF LateInv
<1> QED
  BY <1>1, PageInit, PageStep, LateStep, PTL DEF Spec

\* What was queued for an earlier game never reaches the server.
THEOREM OnlyTheLastRequest == Spec => LateJoinsWereHasty
  BY PageFacts, LateAction, PTL DEF Spec, LateJoinsWereHasty

-----------------------------------------------------------------------------
(***************************************************************************)
(* The types of the page's store, of the seat and of what the server says. *)
(***************************************************************************)
Phases == {"none", "queued", "waiting", "countdown", "playing", "round_end", "left", "finished"}

Stores == [state : Screens, mode : Modes, round : Nat, correct : Nat, count : Nat,
           isHost : BOOLEAN, hostIsMe : BOOLEAN, over : BOOLEAN, error : BOOLEAN]

Seats == [phase : Phases, mode : Modes, round : Nat, correct : Nat, others : 0..1,
          host : BOOLEAN, ready : BOOLEAN, answered : BOOLEAN]

MessageTypes ==
  {"queue_joined", "room_created", "player_joined", "player_left", "match_found", "countdown",
   "round_start", "score_update", "round_end", "game_over", "opponent_left", "host_changed",
   "game_state_sync", "error"}

\* A game is restored while it is under way.
Said == {m \in [type : MessageTypes, seat : Seats] :
           m.type = "game_state_sync" => m.seat.phase \in Active}

GameTypeOK == store \in Stores /\ seat \in Seats /\ down \in Seq(Said)

Message(type, s) == [type |-> type, seat |-> s]

LEMMA MessageSaid ==
  ASSUME NEW type \in MessageTypes \ {"game_state_sync"}, NEW s \in Seats
  PROVE  Message(type, s) \in Said
  BY DEF Message, Said

LEMMA HandledType ==
  ASSUME NEW st \in Stores, NEW m \in Said PROVE Handled(st, m) \in Stores
<1> DEFINE s == m.seat
<1>1. m.type \in MessageTypes /\ s \in Seats /\ (m.type = "game_state_sync" => s.phase \in Active)
  BY DEF Said
<1>2. /\ s.others + 1 \in Nat /\ s.round \in Nat /\ s.correct \in Nat
      /\ s.host \in BOOLEAN /\ s.mode \in Modes /\ 1 \in Nat /\ 2 \in Nat /\ TRUE \in BOOLEAN
  BY <1>1 DEF Seats
<1>3. /\ "queuing" \in Screens /\ "in_lobby" \in Screens /\ "matched" \in Screens
      /\ "countdown" \in Screens /\ "playing" \in Screens /\ "round_end" \in Screens
      /\ "game_over" \in Screens /\ "idle" \in Screens
      /\ s.phase \in Active => ScreenOf(s.phase) \in Screens
  BY DEF Screens, Active, ScreenOf
<1> HIDE DEF s
<1>4. CASE m.type = "game_state_sync"
  <2>1. Handled(st, m) = Synced(st, s)
    BY <1>4, SMT DEF Handled, s
  <2> QED
    BY <1>1, <1>2, <1>3, <1>4, <2>1 DEF Synced, Stores
<1>5. CASE m.type \in {"queue_joined", "countdown", "round_end"}
  <2>1. Handled(st, m) = [st EXCEPT !.state = IF m.type = "queue_joined" THEN "queuing" ELSE m.type]
    BY <1>5, SMT DEF Handled
  <2> QED
    BY <1>3, <1>5, <2>1 DEF Stores
<1>6. CASE m.type \in {"player_joined", "player_left"}
  <2>1. Handled(st, m) = [st EXCEPT !.count = s.others + 1, !.hostIsMe = s.host]
    BY <1>6, SMT DEF Handled, s
  <2> QED
    BY <1>2, <2>1 DEF Stores
<1>7. CASE m.type = "host_changed"
  <2>1. Handled(st, m) = [st EXCEPT !.hostIsMe = s.host]
    BY <1>7, SMT DEF Handled, s
  <2> QED
    BY <1>2, <2>1 DEF Stores
<1>8. CASE m.type = "match_found"
  <2>1. CASE s.mode = "battle"
    <3>1. Handled(st, m) = [st EXCEPT !.state = "in_lobby", !.count = s.others + 1,
                                      !.isHost = s.host, !.hostIsMe = s.host]
      BY <1>8, <2>1, SMT DEF Handled, s
    <3> QED
      BY <1>2, <1>3, <3>1, Zenon DEF Stores
  <2>2. CASE s.mode # "battle"
    <3>1. Handled(st, m) = [st EXCEPT !.state = "matched", !.count = 2,
                                      !.isHost = s.host, !.hostIsMe = s.host]
      BY <1>8, <2>2, SMT DEF Handled, s
    <3> QED
      BY <1>2, <1>3, <3>1, Zenon DEF Stores
  <2> QED
    BY <2>1, <2>2
<1>9. CASE m.type = "room_created"
  <2>1. Handled(st, m) = [st EXCEPT !.state = "in_lobby", !.count = 1, !.isHost = TRUE]
    BY <1>9, SMT DEF Handled
  <2> QED
    BY <1>2, <1>3, <2>1, Zenon DEF Stores
<1>10. CASE m.type = "round_start"
  <2>1. Handled(st, m) = [st EXCEPT !.state = "playing", !.round = s.round]
    BY <1>10, SMT DEF Handled, s
  <2> QED
    BY <1>2, <1>3, <2>1 DEF Stores
<1>11. CASE m.type = "score_update"
  <2>1. Handled(st, m) = [st EXCEPT !.correct = s.correct]
    BY <1>11, SMT DEF Handled, s
  <2> QED
    BY <1>2, <2>1 DEF Stores
<1>12. CASE m.type = "game_over"
  <2>1. Handled(st, m) = [st EXCEPT !.state = "game_over", !.over = TRUE]
    BY <1>12, SMT DEF Handled
  <2> QED
    BY <1>3, <2>1 DEF Stores
<1>14. CASE m.type = "opponent_left"
  <2>1. Handled(st, m) = [st EXCEPT !.state = "game_over", !.over = FALSE]
    BY <1>14, SMT DEF Handled
  <2> QED
    BY <1>3, <2>1 DEF Stores
<1>13. CASE m.type = "error"
  <2>1. Handled(st, m) = [st EXCEPT !.state = "idle", !.error = TRUE]
    BY <1>13, SMT DEF Handled
  <2> QED
    BY <1>3, <2>1 DEF Stores
<1> QED
  BY <1>1, <1>4, <1>5, <1>6, <1>7, <1>8, <1>9, <1>10, <1>11, <1>12, <1>13, <1>14 DEF MessageTypes

-----------------------------------------------------------------------------
(***************************************************************************)
(* A request is made once: no two joins that wait or are under way belong  *)
(* to the same request.                                                    *)
(***************************************************************************)
\* No request twice in q.
OneEach(q) ==
  \A i, k \in 1..Len(q) : q[i].type = "join" /\ q[k].type = "join" /\ q[i].game = q[k].game => i = k

\* The last messages of q.
Suffix(r, q) == \E n \in 0..Len(q) : Len(r) = Len(q) - n /\ \A i \in 1..Len(r) : r[i] = q[n + i]

Once ==
  /\ \A j \in delayed \cup JoinsIn(asked) : j.game \in 1..game
  /\ \A j, k \in delayed : j.game = k.game => j = k
  /\ \A j \in delayed, k \in JoinsIn(asked) : j.game # k.game
  /\ OneEach(asked)

LEMMA SuffixProperties ==
  ASSUME NEW S, NEW q \in Seq(S), NEW r \in Seq(S), Suffix(r, q)
  PROVE  /\ Items(r) \subseteq Items(q) /\ JoinsIn(r) \subseteq JoinsIn(q)
         /\ OneEach(q) => OneEach(r)
<1>1. Len(q) \in Nat /\ Len(r) \in Nat
  BY LenProperties
<1>2. PICK n \in 0..Len(q) : Len(r) = Len(q) - n /\ \A i \in 1..Len(r) : r[i] = q[n + i]
  BY DEF Suffix
<1>3. \A i \in 1..Len(r) : n + i \in 1..Len(q)
  BY <1>1, <1>2
<1>4. Items(r) \subseteq Items(q)
  BY <1>2, <1>3 DEF Items
<1>5. ASSUME OneEach(q), NEW i \in 1..Len(r), NEW k \in 1..Len(r),
             r[i].type = "join" /\ r[k].type = "join" /\ r[i].game = r[k].game
      PROVE  i = k
  <2>1. r[i] = q[n + i] /\ r[k] = q[n + k]
    BY <1>2
  <2>2. n + i = n + k
    BY <1>3, <1>5, <2>1 DEF OneEach
  <2> QED
    BY <1>1, <2>2
<1> QED
  BY <1>4, <1>5 DEF OneEach, JoinsIn

LEMMA SuffixOfItself == ASSUME NEW S, NEW q \in Seq(S) PROVE Suffix(q, q)
<1>1. Len(q) \in Nat
  BY LenProperties
<1>2. 0 \in 0..Len(q) /\ Len(q) = Len(q) - 0 /\ \A i \in 1..Len(q) : q[i] = q[0 + i]
  BY <1>1
<1> QED
  BY <1>2 DEF Suffix

LEMMA EmptySuffix == ASSUME NEW S, NEW q \in Seq(S) PROVE Suffix(<<>>, q)
<1>1. Len(q) \in Nat /\ Len(<<>>) = 0
  BY LenProperties, EmptySeq
<1>2. Len(q) \in 0..Len(q) /\ Len(<<>>) = Len(q) - Len(q)
      /\ \A i \in 1..Len(<<>>) : <<>>[i] = q[Len(q) + i]
  BY <1>1
<1> QED
  BY <1>2 DEF Suffix

\* The server takes the first message off the wire.
LEMMA TakenFirst ==
  ASSUME PageInv, Taken
  PROVE  /\ Suffix(asked', asked) /\ asked # <<>>
         /\ Head(wired) = asked[1] /\ 1 \in 1..Len(asked)
         /\ \A i \in 1..Len(asked') : asked'[i] = asked[1 + i] /\ 1 + i \in 1..Len(asked)
<1>1. /\ wired \in Seq(Messages) /\ asked \in Seq(Messages)
      /\ wired # <<>> /\ asked' = SubSeq(asked, 2, Len(asked))
  BY DEF PageInv, OrderInv, TypeOK, Taken
<1>2. /\ Len(wired) \in Nat \ {0} /\ Len(msgQueue) \in Nat
      /\ Len(asked) = Len(wired) + Len(msgQueue)
      /\ \A i \in 1..Len(wired) : asked[i] = wired[i]
  BY <1>1, QueueIsAsked, EmptySeq
<1>3. Len(asked) \in Nat \ {0} /\ asked[1] = wired[1]
  BY <1>2
<1>4. asked # <<>>
  BY <1>3, EmptySeq
<1>5. asked' = Tail(asked)
  BY <1>1, <1>4, TailIsSubSeq
<1>6. Len(asked') = Len(asked) - 1 /\ \A i \in 1..Len(asked') : asked'[i] = asked[i + 1]
  BY <1>1, <1>4, <1>5, HeadTailProperties
<1>7. \A i \in 1..Len(asked') : asked'[i] = asked[1 + i] /\ 1 + i \in 1..Len(asked)
  BY <1>3, <1>6
<1>8. 1 \in 0..Len(asked) /\ Len(asked') = Len(asked) - 1
  BY <1>3, <1>6
<1>9. Suffix(asked', asked)
  BY <1>7, <1>8 DEF Suffix
<1>10. Head(wired) = wired[1]
  BY <1>1
<1> QED
  BY <1>3, <1>4, <1>7, <1>9, <1>10

\* The messages asked for when something goes with the connection are the last ones.
LEMMA LinkSuffix == ASSUME PageInv, Link PROVE Suffix(asked', asked)
<1>1. asked \in Seq(Messages)
  BY DEF PageInv, OrderInv, TypeOK
<1>2. CASE asked' = asked
  BY <1>1, <1>2, SuffixOfItself
<1>3. CASE asked' = msgQueue
  <2>1. /\ Len(wired) \in Nat /\ Len(msgQueue) \in Nat
        /\ Len(asked) = Len(wired) + Len(msgQueue)
        /\ \A i \in 1..Len(msgQueue) : asked[Len(wired) + i] = msgQueue[i]
    BY QueueIsAsked
  <2>2. Len(wired) \in 0..Len(asked) /\ Len(msgQueue) = Len(asked) - Len(wired)
    BY <2>1
  <2> QED
    BY <1>3, <2>1, <2>2 DEF Suffix
<1> QED
  BY <1>2, <1>3, LinkTraffic

LEMMA SuffixStep ==
  ASSUME PageInv, Link \/ Take \/ RoomMoves \/ Deliver \/ LeaveGame \/ UNCHANGED vars
  PROVE  Suffix(asked', asked) /\ UNCHANGED <<delayed, game>>
<1>1. asked \in Seq(Messages)
  BY DEF PageInv, OrderInv, TypeOK
<1>2. UNCHANGED <<delayed, game>>
  BY DEF Link, Take, RoomMoves, ServerStep, Deliver, LeaveGame, vars, gameVars
<1>3. CASE asked' = asked \/ asked' = <<>>
  BY <1>1, <1>2, <1>3, SuffixOfItself, EmptySuffix
<1>4. CASE Link
  BY <1>2, <1>4, LinkSuffix
<1>5. CASE Take
  <2>1. Taken
    BY <1>5 DEF Take
  <2> QED
    BY <1>2, <2>1, TakenFirst
<1>6. CASE RoomMoves \/ Deliver \/ LeaveGame \/ UNCHANGED vars
  BY <1>6, <1>3 DEF RoomMoves, Deliver, LeaveGame, Disconnect, vars, wsVars
<1> QED
  BY <1>2, <1>4, <1>5, <1>6, <1>3

\* Only sending adds to what was asked for.
LEMMA SendAdds ==
  ASSUME PageInv, NEW m \in Sendable, Send(m)
  PROVE  /\ asked' = Append(asked, m) /\ asked \in Seq(Messages) /\ m \in Messages
         /\ JoinsIn(asked)' = IF m.type = "join" THEN JoinsIn(asked) \cup {m} ELSE JoinsIn(asked)
<1>1. asked' = Append(asked, m) /\ asked \in Seq(Messages) /\ m \in Messages
  BY MessagesAssumption DEF Send, PageInv, OrderInv, TypeOK
<1>2. Items(asked)' = Items(asked) \cup {m}
  BY <1>1, ItemsOfAppend
<1> QED
  BY <1>1, <1>2 DEF JoinsIn

LEMMA OneEachAppend ==
  ASSUME NEW S, NEW q \in Seq(S), NEW m \in S, OneEach(q),
         m.type = "join" => \A k \in JoinsIn(q) : m.game # k.game
  PROVE  OneEach(Append(q, m))
<1>1. /\ Len(q) \in Nat /\ Len(Append(q, m)) = Len(q) + 1
      /\ Append(q, m)[Len(q) + 1] = m
      /\ \A i \in 1..Len(q) : Append(q, m)[i] = q[i]
  BY AppendProperties, LenProperties
<1> DEFINE r == Append(q, m)
<1> HIDE DEF r
<1>2. \A i \in 1..Len(r) : i = Len(q) + 1 \/ i \in 1..Len(q)
  BY <1>1 DEF r
<1>3. \A i \in 1..Len(q) : q[i].type = "join" => q[i] \in JoinsIn(q)
  BY DEF JoinsIn, Items
<1>4. /\ r[Len(q) + 1] = m /\ \A i \in 1..Len(q) : r[i] = q[i]
  BY <1>1 DEF r
<1>5. ASSUME NEW i \in 1..Len(r), NEW k \in 1..Len(r),
             r[i].type = "join", r[k].type = "join", r[i].game = r[k].game
      PROVE  i = k
  <2>1. CASE i \in 1..Len(q) /\ k \in 1..Len(q)
    BY <1>4, <1>5, <2>1 DEF OneEach
  <2>2. CASE i = Len(q) + 1 /\ k \in 1..Len(q)
    BY <1>3, <1>4, <1>5, <2>2
  <2>3. CASE i \in 1..Len(q) /\ k = Len(q) + 1
    BY <1>3, <1>4, <1>5, <2>3
  <2> QED
    BY <1>2, <2>1, <2>2, <2>3
<1>6. OneEach(r)
  BY <1>5 DEF OneEach
<1> QED
  BY <1>6 DEF r

LEMMA OnceStep == PageInv /\ Once /\ [Next]_vars => Once'
<1> SUFFICES ASSUME PageInv, Once, [Next]_vars PROVE Once'
  OBVIOUS
<1>t. asked \in Seq(Messages) /\ asked' \in Seq(Messages) /\ game \in Nat
  BY PageStep DEF PageInv, OrderInv, TypeOK, JoinsAreKnown
<1>1. ASSUME NEW kind \in Kinds, Request(kind) PROVE Once'
  <2>1. /\ delayed' = delayed \cup {Join(game + 1, kind)} /\ game' = game + 1 /\ asked' = asked
    BY <1>1 DEF Request, Connect
  <2>2. Join(game + 1, kind).game = game + 1
    BY DEF Join
  <2>3. \A j \in delayed \cup JoinsIn(asked) : j.game \in 1..game' /\ j.game # game + 1
    BY <1>t, <2>1 DEF Once
  <2>4. game + 1 \in 1..game'
    BY <1>t, <2>1
  <2> QED
    BY <2>1, <2>2, <2>3, <2>4 DEF Once
<1>2. CASE (\E kind \in Kinds : Start(kind)) \/ AgainFires
  BY <1>1, <1>2 DEF Start, AgainFires
<1>3. CASE Ready \/ StartGame \/ Hit
  <2>1. PICK m \in {Plain("ready"), Plain("start"), Plain("hit")} : Send(m)
    BY <1>3 DEF Ready, StartGame, Hit
  <2>2. m \in Sendable /\ m.type # "join"
    BY DEF Sendable, Plain
  <2>3. UNCHANGED <<delayed, game>>
    BY <1>3 DEF Ready, StartGame, Hit
  <2>4. OneEach(asked)'
    <3>1. asked' = Append(asked, m) /\ asked \in Seq(Messages) /\ m \in Messages
      BY <2>1, <2>2, SendAdds
    <3>2. OneEach(Append(asked, m))
      BY <2>2, <3>1, OneEachAppend DEF Once
    <3> QED
      BY <3>1, <3>2 DEF OneEach
  <2>5. JoinsIn(asked)' = JoinsIn(asked)
    BY <2>1, <2>2, SendAdds
  <2> QED
    BY <2>3, <2>4, <2>5 DEF Once
<1>4. ASSUME NEW j \in delayed, SendJoin(j) PROVE Once'
  <2>1. j \in Sendable /\ j.type = "join"
    BY DEF PageInv, JoinsAreKnown, Sendable, Join
  <2>2. delayed' = delayed \ {j} /\ game' = game
    BY <1>4 DEF SendJoin
  <2>3. \A k \in JoinsIn(asked) : j.game # k.game
    BY DEF Once
  <2>4. Send(j)
    BY <1>4 DEF SendJoin
  <2>5. OneEach(asked)'
    <3>1. asked' = Append(asked, j) /\ asked \in Seq(Messages) /\ j \in Messages
      BY <2>1, <2>4, SendAdds
    <3>2. OneEach(Append(asked, j))
      BY <2>1, <2>3, <3>1, OneEachAppend DEF Once
    <3> QED
      BY <3>1, <3>2 DEF OneEach
  <2>6. JoinsIn(asked)' = JoinsIn(asked) \cup {j}
    BY <2>1, <2>4, SendAdds
  <2> QED
    BY <2>2, <2>5, <2>6 DEF Once
<1>5. CASE Link \/ Take \/ RoomMoves \/ Deliver \/ Leave \/ PlayAgain \/ UNCHANGED vars
  <2>1. Suffix(asked', asked) /\ UNCHANGED <<delayed, game>>
    BY <1>5, SuffixStep DEF Leave, PlayAgain
  <2>2. JoinsIn(asked') \subseteq JoinsIn(asked) /\ OneEach(asked')
    BY <1>t, <2>1, SuffixProperties DEF Once
  <2> QED
    BY <2>1, <2>2 DEF Once
<1> QED
  BY <1>2, <1>3, <1>4, <1>5, GameCases

\* What the server takes is not asked for again.
LEMMA TakenOnce ==
  ASSUME PageInv, Once, Take, NEW m, m = Head(wired), m.type = "join"
  PROVE  m \in JoinsIn(asked) /\ \A j \in (delayed \cup JoinsIn(asked))' : j.game # m.game
<1>1. Taken /\ delayed' = delayed
  BY DEF Take, ServerStep
<1>2. /\ Suffix(asked', asked) /\ m = asked[1] /\ 1 \in 1..Len(asked)
      /\ \A i \in 1..Len(asked') : asked'[i] = asked[1 + i] /\ 1 + i \in 1..Len(asked)
  BY <1>1, TakenFirst
<1>3. m \in JoinsIn(asked)
  BY <1>2 DEF JoinsIn, Items
<1>4. ASSUME NEW i \in 1..Len(asked'), asked'[i].type = "join", asked'[i].game = m.game PROVE FALSE
  <2>1. 1 = 1 + i
    BY <1>2, <1>4 DEF Once, OneEach
  <2>2. i \in Nat \ {0}
    OBVIOUS
  <2> QED
    BY <2>1, <2>2
<1>5. \A j \in JoinsIn(asked') : j.game # m.game
  BY <1>4 DEF JoinsIn, Items
<1>6. \A j \in delayed : j.game # m.game
  BY <1>3 DEF Once
<1> QED
  BY <1>1, <1>3, <1>5, <1>6

-----------------------------------------------------------------------------
(***************************************************************************)
(* What the page will show.  The stores it goes through as it handles what *)
(* is under way to it are a chain, of which the last agrees with the seat. *)
(***************************************************************************)
IsHost(v) == v.isHost \/ v.hostIsMe

\* The stores v from st on, one for each message of d; no message takes a round back.
Chain(v, st, d) ==
  /\ v \in [1..Len(d) + 1 -> Stores]
  /\ v[1] = st
  /\ \A i \in 1..Len(d) : v[i + 1] = Handled(v[i], d[i]) /\ v[i].round <= v[i + 1].round

ScreenFor(s) ==
  CASE s.phase = "waiting" -> IF s.mode = "battle" THEN "in_lobby" ELSE "matched"
    [] s.phase \in {"left", "finished"} -> "game_over"
    [] OTHER -> s.phase

\* A store that is not ahead of the seat.
Held(v, s) == v.round <= s.round /\ (IsHost(v) => s.host)

\* A store that shows the seat as it is.
Agrees(v, s) ==
  /\ s.phase # "queued" => v.state = ScreenFor(s)
  /\ v.round = s.round /\ v.correct = s.correct
  /\ s.phase = "waiting" /\ s.mode = "battle" => v.count = s.others + 1 /\ IsHost(v) = s.host

\* A store that shows the seat and is not ahead of it.
Follows(v, s) == Held(v, s) /\ Agrees(v, s)

\* The page with store st goes with seat s while d is under way to it, over a live connection or
\* none: it is never ahead of the seat, and all of d will have brought it there.
View(st, d, s, live) ==
  \E v : /\ Chain(v, st, d)
         /\ s.phase # "none" => \A i \in 1..Len(d) + 1 : Held(v[i], s)
         /\ s.phase # "none" /\ live => Agrees(v[Len(d) + 1], s)

LEMMA EmptyChain ==
  ASSUME NEW st \in Stores PROVE Chain([i \in {1} |-> st], st, <<>>)
<1>1. Len(<<>>) = 0
  BY EmptySeq
<1>2. 1..0 + 1 = {1} /\ 1..0 = {}
  OBVIOUS
<1> QED
  BY <1>1, <1>2 DEF Chain

\* With nothing under way the page shows what its store holds.
LEMMA PlainView ==
  ASSUME NEW st \in Stores, NEW s \in Seats, NEW live,
         s.phase # "none" => Held(st, s) /\ (live => Agrees(st, s))
  PROVE  View(st, <<>>, s, live)
<1> DEFINE v == [i \in {1} |-> st]
<1>1. Chain(v, st, <<>>)
  BY EmptyChain
<1>2. Len(<<>>) = 0 /\ 1..0 + 1 = {1} /\ 0 + 1 = 1 /\ v[1] = st
  BY EmptySeq
<1>3. /\ s.phase # "none" => \A i \in 1..Len(<<>>) + 1 : Held(v[i], s)
      /\ s.phase # "none" /\ live => Agrees(v[Len(<<>>) + 1], s)
  BY <1>2
<1> HIDE DEF v
<1> QED
  BY <1>1, <1>3 DEF View

\* The chain of an empty queue is the store alone.
LEMMA ChainOfNothing ==
  ASSUME NEW v, NEW st, Chain(v, st, <<>>)
  PROVE  \A i \in 1..Len(<<>>) + 1 : v[i] = st
<1>1. Len(<<>>) = 0 /\ 1..0 + 1 = {1}
  BY EmptySeq
<1> QED
  BY <1>1 DEF Chain

\* One more message makes the chain one longer.
LEMMA ChainGrows ==
  ASSUME NEW st, NEW d \in Seq(Said), NEW v, Chain(v, st, d), NEW m \in Said,
         v[Len(d) + 1].round <= Handled(v[Len(d) + 1], m).round
  PROVE  \E u : /\ Chain(u, st, Append(d, m))
                /\ \A i \in 1..Len(d) + 1 : u[i] = v[i]
                /\ u[Len(Append(d, m)) + 1] = Handled(v[Len(d) + 1], m)
<1> DEFINE n == Len(d)
           w == Handled(v[n + 1], m)
           u == [i \in 1..n + 2 |-> IF i = n + 2 THEN w ELSE v[i]]
<1>1. /\ n \in Nat /\ Len(Append(d, m)) = n + 1 /\ Append(d, m)[n + 1] = m
      /\ \A i \in 1..n : Append(d, m)[i] = d[i]
  BY AppendProperties, LenProperties
<1>2. /\ v \in [1..n + 1 -> Stores] /\ v[1] = st
      /\ \A i \in 1..n : v[i + 1] = Handled(v[i], d[i]) /\ v[i].round <= v[i + 1].round
  BY DEF Chain
<1>3. w \in Stores
  <2>1. v[n + 1] \in Stores
    BY <1>1, <1>2
  <2> QED
    BY <2>1, HandledType
<1>w. v[n + 1].round <= w.round
  OBVIOUS
<1>d. w = Handled(v[n + 1], m)
  OBVIOUS
<1> HIDE DEF n, w
<1>4. /\ \A i \in 1..n + 1 : u[i] = v[i]
      /\ u[n + 2] = w /\ u[1] = st
  BY <1>1, <1>2
<1>5. u \in [1..n + 2 -> Stores]
  <2>1. \A i \in 1..n + 2 : i = n + 2 \/ i \in 1..n + 1
    BY <1>1
  <2> QED
    BY <1>2, <1>3, <2>1
<1> HIDE DEF u
<1>6. ASSUME NEW i \in 1..n + 1
      PROVE  u[i + 1] = Handled(u[i], Append(d, m)[i]) /\ u[i].round <= u[i + 1].round
  <2>1. CASE i = n + 1
    <3>1. u[i + 1] = w /\ u[i] = v[n + 1] /\ Append(d, m)[i] = m
      BY <1>1, <1>4, <2>1
    <3> QED
      BY <3>1, <1>w, <1>d
  <2>2. CASE i # n + 1
    <3>1. i \in 1..n /\ i + 1 \in 1..n + 1
      BY <1>1, <2>2
    <3>2. u[i + 1] = v[i + 1] /\ u[i] = v[i] /\ Append(d, m)[i] = d[i]
      BY <1>1, <1>4, <3>1
    <3> QED
      BY <1>2, <3>1, <3>2
  <2> QED
    BY <2>1, <2>2
<1>7. Len(Append(d, m)) = n + 1 /\ (n + 1) + 1 = n + 2
  BY <1>1
<1>8. Chain(u, st, Append(d, m))
  BY <1>4, <1>5, <1>6, <1>7 DEF Chain
<1>9. u[Len(Append(d, m)) + 1] = w
  BY <1>4, <1>7
<1> QED
  BY <1>4, <1>8, <1>9 DEF n, w

\* Handling the first message leaves the rest of the chain.
LEMMA ChainShrinks ==
  ASSUME NEW st, NEW d \in Seq(Said), d # <<>>, NEW v, Chain(v, st, d)
  PROVE  /\ v[2] = Handled(st, Head(d)) /\ st.round <= v[2].round
         /\ \E u : /\ Chain(u, v[2], Tail(d))
                   /\ u[Len(Tail(d)) + 1] = v[Len(d) + 1]
                   /\ \A i \in 1..Len(Tail(d)) + 1 : u[i] = v[i + 1] /\ i + 1 \in 1..Len(d) + 1
<1> DEFINE n == Len(d)
           u == [i \in 1..n |-> v[i + 1]]
<1>1. /\ n \in Nat \ {0} /\ Len(Tail(d)) = n - 1 /\ Head(d) = d[1]
      /\ \A i \in 1..n - 1 : Tail(d)[i] = d[i + 1]
  BY HeadTailProperties, EmptySeq
<1>2. /\ v \in [1..n + 1 -> Stores] /\ v[1] = st
      /\ \A i \in 1..n : v[i + 1] = Handled(v[i], d[i]) /\ v[i].round <= v[i + 1].round
  BY DEF Chain
<1> HIDE DEF n
<1>3. v[2] = Handled(st, Head(d)) /\ st.round <= v[2].round
  <2>1. 1 \in 1..n /\ 1 + 1 = 2
    BY <1>1
  <2> QED
    BY <1>1, <1>2, <2>1
<1>4. (n - 1) + 1 = n /\ 1 \in 1..n /\ 1 + 1 = 2 /\ n \in 1..n
  BY <1>1
<1>5. /\ \A i \in 1..n : i + 1 \in 1..n + 1
      /\ \A i \in 1..n - 1 : i \in 1..n /\ i + 1 \in 1..n
  BY <1>1
<1>6. u \in [1..n -> Stores] /\ u[1] = v[2] /\ \A i \in 1..n : u[i] = v[i + 1]
  BY <1>2, <1>4, <1>5
<1> HIDE DEF u
<1>7. ASSUME NEW i \in 1..n - 1
      PROVE  u[i + 1] = Handled(u[i], Tail(d)[i]) /\ u[i].round <= u[i + 1].round
  <2>1. u[i] = v[i + 1] /\ u[i + 1] = v[(i + 1) + 1] /\ Tail(d)[i] = d[i + 1] /\ i + 1 \in 1..n
    BY <1>1, <1>5, <1>6
  <2> QED
    BY <1>2, <2>1
<1>8. Chain(u, v[2], Tail(d))
  BY <1>1, <1>4, <1>6, <1>7 DEF Chain
<1>9. u[Len(Tail(d)) + 1] = v[n + 1]
  BY <1>1, <1>4, <1>6
<1>10. \A i \in 1..Len(Tail(d)) + 1 : u[i] = v[i + 1] /\ i + 1 \in 1..n + 1
  BY <1>1, <1>4, <1>5, <1>6
<1> QED
  BY <1>3, <1>8, <1>9, <1>10 DEF n

-----------------------------------------------------------------------------
(***************************************************************************)
(* What the messages of the server do with a store that follows the seat,  *)
(* when the seat goes from s to t.                                         *)
(***************************************************************************)
\* A seat that moves on, and messages that take the page along with it.
Grows(s, t) == t \in Seats /\ t.phase # "none" /\ s.round <= t.round /\ (s.host => t.host)

\* The message, or the two, take every store that follows s along to t.
Shows(type, s, t) ==
  \A w \in Stores : Follows(w, s) =>
    /\ w.round <= Handled(w, Message(type, t)).round
    /\ Follows(Handled(w, Message(type, t)), t)

ShowsTwo(type, next, s, t) ==
  \A w \in Stores : Follows(w, s) =>
    LET x == Handled(w, Message(type, t)) IN
    /\ w.round <= x.round /\ Held(x, t)
    /\ x.round <= Handled(x, Message(next, t)).round
    /\ Follows(Handled(x, Message(next, t)), t)

\* What a message does with the fields that have to agree with the seat.
Fields(x, state, round, correct, count, isHost, hostIsMe) ==
  /\ x.state = state /\ x.round = round /\ x.correct = correct
  /\ x.count = count /\ x.isHost = isHost /\ x.hostIsMe = hostIsMe

LEMMA HandledFields ==
  ASSUME NEW w \in Stores, NEW t
  PROVE  /\ Fields(Handled(w, Message("queue_joined", t)),
                   "queuing", w.round, w.correct, w.count, w.isHost, w.hostIsMe)
         /\ Fields(Handled(w, Message("room_created", t)),
                   "in_lobby", w.round, w.correct, 1, TRUE, w.hostIsMe)
         /\ Fields(Handled(w, Message("player_joined", t)),
                   w.state, w.round, w.correct, t.others + 1, w.isHost, t.host)
         /\ Fields(Handled(w, Message("player_left", t)),
                   w.state, w.round, w.correct, t.others + 1, w.isHost, t.host)
         /\ t.mode = "battle" =>
              Fields(Handled(w, Message("match_found", t)),
                     "in_lobby", w.round, w.correct, t.others + 1, t.host, t.host)
         /\ t.mode # "battle" =>
              Fields(Handled(w, Message("match_found", t)),
                     "matched", w.round, w.correct, 2, t.host, t.host)
         /\ Fields(Handled(w, Message("countdown", t)),
                   "countdown", w.round, w.correct, w.count, w.isHost, w.hostIsMe)
         /\ Fields(Handled(w, Message("round_start", t)),
                   "playing", t.round, w.correct, w.count, w.isHost, w.hostIsMe)
         /\ Fields(Handled(w, Message("score_update", t)),
                   w.state, w.round, t.correct, w.count, w.isHost, w.hostIsMe)
         /\ Fields(Handled(w, Message("round_end", t)),
                   "round_end", w.round, w.correct, w.count, w.isHost, w.hostIsMe)
         /\ Fields(Handled(w, Message("game_over", t)),
                   "game_over", w.round, w.correct, w.count, w.isHost, w.hostIsMe)
         /\ Fields(Handled(w, Message("opponent_left", t)),
                   "game_over", w.round, w.correct, w.count, w.isHost, w.hostIsMe)
         /\ Fields(Handled(w, Message("host_changed", t)),
                   w.state, w.round, w.correct, w.count, w.isHost, t.host)
         /\ Fields(Handled(w, Message("game_state_sync", t)),
                   ScreenOf(t.phase), t.round, t.correct, t.others + 1, w.isHost, w.hostIsMe)
         /\ Fields(Handled(w, Message("error", t)),
                   "idle", w.round, w.correct, w.count, w.isHost, w.hostIsMe)
<1>1. Fields(Handled(w, Message("queue_joined", t)),
            "queuing", w.round, w.correct, w.count, w.isHost, w.hostIsMe)
  <2>1. Handled(w, Message("queue_joined", t)) = [w EXCEPT !.state = "queuing"]
    BY SMT DEF Handled, Message
  <2> QED
    BY <2>1 DEF Fields, Stores
<1>2. Fields(Handled(w, Message("room_created", t)),
            "in_lobby", w.round, w.correct, 1, TRUE, w.hostIsMe)
  <2>1. Handled(w, Message("room_created", t))
         = [w EXCEPT !.state = "in_lobby", !.count = 1, !.isHost = TRUE]
    BY SMT DEF Handled, Message
  <2> QED
    BY <2>1 DEF Fields, Stores
<1>3. Fields(Handled(w, Message("player_joined", t)),
            w.state, w.round, w.correct, t.others + 1, w.isHost, t.host)
  <2>1. Handled(w, Message("player_joined", t)) = [w EXCEPT !.count = t.others + 1, !.hostIsMe = t.host]
    BY SMT DEF Handled, Message
  <2> QED
    BY <2>1 DEF Fields, Stores
<1>4. Fields(Handled(w, Message("player_left", t)),
            w.state, w.round, w.correct, t.others + 1, w.isHost, t.host)
  <2>1. Handled(w, Message("player_left", t)) = [w EXCEPT !.count = t.others + 1, !.hostIsMe = t.host]
    BY SMT DEF Handled, Message
  <2> QED
    BY <2>1 DEF Fields, Stores
<1>5. ASSUME t.mode = "battle"
      PROVE  Fields(Handled(w, Message("match_found", t)),
                    "in_lobby", w.round, w.correct, t.others + 1, t.host, t.host)
  <2>1. Handled(w, Message("match_found", t))
         = [w EXCEPT !.state = "in_lobby", !.count = t.others + 1, !.isHost = t.host,
                     !.hostIsMe = t.host]
    BY <1>5, Zenon DEF Handled, Message
  <2> QED
    BY <2>1 DEF Fields, Stores
<1>6. ASSUME t.mode # "battle"
      PROVE  Fields(Handled(w, Message("match_found", t)),
                    "matched", w.round, w.correct, 2, t.host, t.host)
  <2>1. Handled(w, Message("match_found", t))
         = [w EXCEPT !.state = "matched", !.count = 2, !.isHost = t.host, !.hostIsMe = t.host]
    BY <1>6, SMT DEF Handled, Message
  <2> QED
    BY <2>1 DEF Fields, Stores
<1>7. Fields(Handled(w, Message("countdown", t)),
            "countdown", w.round, w.correct, w.count, w.isHost, w.hostIsMe)
  <2>1. Handled(w, Message("countdown", t)) = [w EXCEPT !.state = "countdown"]
    BY SMT DEF Handled, Message
  <2> QED
    BY <2>1 DEF Fields, Stores
<1>8. Fields(Handled(w, Message("round_start", t)),
            "playing", t.round, w.correct, w.count, w.isHost, w.hostIsMe)
  <2>1. Handled(w, Message("round_start", t)) = [w EXCEPT !.state = "playing", !.round = t.round]
    BY SMT DEF Handled, Message
  <2> QED
    BY <2>1 DEF Fields, Stores
<1>9. Fields(Handled(w, Message("score_update", t)),
            w.state, w.round, t.correct, w.count, w.isHost, w.hostIsMe)
  <2>1. Handled(w, Message("score_update", t)) = [w EXCEPT !.correct = t.correct]
    BY SMT DEF Handled, Message
  <2> QED
    BY <2>1 DEF Fields, Stores
<1>10. Fields(Handled(w, Message("round_end", t)),
            "round_end", w.round, w.correct, w.count, w.isHost, w.hostIsMe)
  <2>1. Handled(w, Message("round_end", t)) = [w EXCEPT !.state = "round_end"]
    BY SMT DEF Handled, Message
  <2> QED
    BY <2>1 DEF Fields, Stores
<1>11. Fields(Handled(w, Message("game_over", t)),
            "game_over", w.round, w.correct, w.count, w.isHost, w.hostIsMe)
  <2>1. Handled(w, Message("game_over", t)) = [w EXCEPT !.state = "game_over", !.over = TRUE]
    BY SMT DEF Handled, Message
  <2> QED
    BY <2>1 DEF Fields, Stores
<1>12. Fields(Handled(w, Message("opponent_left", t)),
            "game_over", w.round, w.correct, w.count, w.isHost, w.hostIsMe)
  <2>1. Handled(w, Message("opponent_left", t)) = [w EXCEPT !.state = "game_over", !.over = FALSE]
    BY SMT DEF Handled, Message
  <2> QED
    BY <2>1 DEF Fields, Stores
<1>13. Fields(Handled(w, Message("host_changed", t)),
            w.state, w.round, w.correct, w.count, w.isHost, t.host)
  <2>1. Handled(w, Message("host_changed", t)) = [w EXCEPT !.hostIsMe = t.host]
    BY SMT DEF Handled, Message
  <2> QED
    BY <2>1 DEF Fields, Stores
<1>14. Fields(Handled(w, Message("game_state_sync", t)),
            ScreenOf(t.phase), t.round, t.correct, t.others + 1, w.isHost, w.hostIsMe)
  <2>1. Handled(w, Message("game_state_sync", t)) = Synced(w, t)
    BY SMT DEF Handled, Message
  <2> QED
    BY <2>1 DEF Fields, Stores, Synced
<1>15. Fields(Handled(w, Message("error", t)),
            "idle", w.round, w.correct, w.count, w.isHost, w.hostIsMe)
  <2>1. Handled(w, Message("error", t)) = [w EXCEPT !.state = "idle", !.error = TRUE]
    BY SMT DEF Handled, Message
  <2> QED
    BY <2>1 DEF Fields, Stores
<1> QED
  BY <1>1, <1>2, <1>3, <1>4, <1>5, <1>6, <1>7, <1>8, <1>9, <1>10, <1>11, <1>12, <1>13, <1>14,
     <1>15, Zenon


\* A game starts in the lobby, or when its players are ready.
LEMMA CountdownShows ==
  ASSUME NEW s \in Seats, s.phase = "waiting", s.round = 0,
         NEW t, t = [s EXCEPT !.phase = "countdown", !.round = 0]
  PROVE  Grows(s, t) /\ Shows("countdown", s, t)
<1>1. /\ s.phase \in Phases /\ s.mode \in Modes /\ s.round \in Nat /\ s.correct \in Nat
      /\ s.others \in 0..1 /\ s.host \in BOOLEAN /\ s.ready \in BOOLEAN /\ s.answered \in BOOLEAN
  BY DEF Seats
<1>2. /\ t.phase = "countdown" /\ t.mode = s.mode /\ t.round = 0 /\ t.correct = s.correct
      /\ t.others = s.others /\ t.host = s.host /\ t.ready = s.ready /\ t.answered = s.answered
  BY DEF Seats
<1>3. t.phase \in Phases /\ t.round \in Nat /\ t.correct \in Nat /\ t.others \in 0..1
  BY <1>1, <1>2 DEF Phases
<1>4. t \in Seats
  BY <1>1, <1>3, Zenon DEF Seats
<1>5. Grows(s, t)
  BY <1>1, <1>2, <1>4 DEF Grows
<1>6. ASSUME NEW w \in Stores, Follows(w, s)
      PROVE  /\ w.round <= Handled(w, Message("countdown", t)).round
             /\ Follows(Handled(w, Message("countdown", t)), t)
  <2> DEFINE x == Handled(w, Message("countdown", t))
  <2>1. Fields(x, "countdown", w.round, w.correct, w.count, w.isHost, w.hostIsMe)
    BY HandledFields, Zenon
  <2>2. w.round \in Nat /\ w.isHost \in BOOLEAN /\ w.hostIsMe \in BOOLEAN
    BY DEF Stores
  <2> HIDE DEF x
  <2>3. w.round <= x.round /\ Held(x, t)
    BY <1>1, <1>2, <1>6, <2>1, <2>2 DEF Fields, Follows, Held, Agrees, IsHost
  <2>4. Agrees(x, t)
    BY <1>1, <1>2, <1>6, <2>1, <2>2 DEF Fields, Follows, Held, Agrees, IsHost, ScreenFor
  <2> QED
    BY <2>3, <2>4 DEF Follows, x
<1> QED
  BY <1>5, <1>6 DEF Shows

\* A round starts.
LEMMA RoundStartShows ==
  ASSUME NEW s \in Seats, s.phase \notin {"none", "queued"},
         NEW t, t = [s EXCEPT !.phase = "playing", !.round = @ + 1, !.answered = FALSE]
  PROVE  Grows(s, t) /\ Shows("round_start", s, t)
<1>1. /\ s.phase \in Phases /\ s.mode \in Modes /\ s.round \in Nat /\ s.correct \in Nat
      /\ s.others \in 0..1 /\ s.host \in BOOLEAN /\ s.ready \in BOOLEAN /\ s.answered \in BOOLEAN
  BY DEF Seats
<1>2. /\ t.phase = "playing" /\ t.mode = s.mode /\ t.round = s.round + 1 /\ t.correct = s.correct
      /\ t.others = s.others /\ t.host = s.host /\ t.ready = s.ready /\ t.answered = FALSE
  BY DEF Seats
<1>3. t.phase \in Phases /\ t.round \in Nat /\ t.correct \in Nat /\ t.others \in 0..1
  BY <1>1, <1>2 DEF Phases
<1>4. t \in Seats
  BY <1>1, <1>3, Zenon DEF Seats
<1>5. Grows(s, t)
  BY <1>1, <1>2, <1>4 DEF Grows
<1>6. ASSUME NEW w \in Stores, Follows(w, s)
      PROVE  /\ w.round <= Handled(w, Message("round_start", t)).round
             /\ Follows(Handled(w, Message("round_start", t)), t)
  <2> DEFINE x == Handled(w, Message("round_start", t))
  <2>1. Fields(x, "playing", t.round, w.correct, w.count, w.isHost, w.hostIsMe)
    BY HandledFields, Zenon
  <2>2. w.round \in Nat /\ w.isHost \in BOOLEAN /\ w.hostIsMe \in BOOLEAN
    BY DEF Stores
  <2> HIDE DEF x
  <2>3. w.round <= x.round /\ Held(x, t)
    BY <1>1, <1>2, <1>6, <2>1, <2>2 DEF Fields, Follows, Held, Agrees, IsHost
  <2>4. Agrees(x, t)
    BY <1>1, <1>2, <1>6, <2>1, <2>2 DEF Fields, Follows, Held, Agrees, IsHost, ScreenFor
  <2> QED
    BY <2>3, <2>4 DEF Follows, x
<1> QED
  BY <1>5, <1>6 DEF Shows

\* A round ends.
LEMMA RoundEndShows ==
  ASSUME NEW s \in Seats, s.phase = "playing",
         NEW t, t = [s EXCEPT !.phase = "round_end"]
  PROVE  Grows(s, t) /\ Shows("round_end", s, t)
<1>1. /\ s.phase \in Phases /\ s.mode \in Modes /\ s.round \in Nat /\ s.correct \in Nat
      /\ s.others \in 0..1 /\ s.host \in BOOLEAN /\ s.ready \in BOOLEAN /\ s.answered \in BOOLEAN
  BY DEF Seats
<1>2. /\ t.phase = "round_end" /\ t.mode = s.mode /\ t.round = s.round /\ t.correct = s.correct
      /\ t.others = s.others /\ t.host = s.host /\ t.ready = s.ready /\ t.answered = s.answered
  BY DEF Seats
<1>3. t.phase \in Phases /\ t.round \in Nat /\ t.correct \in Nat /\ t.others \in 0..1
  BY <1>1, <1>2 DEF Phases
<1>4. t \in Seats
  BY <1>1, <1>3, Zenon DEF Seats
<1>5. Grows(s, t)
  BY <1>1, <1>2, <1>4 DEF Grows
<1>6. ASSUME NEW w \in Stores, Follows(w, s)
      PROVE  /\ w.round <= Handled(w, Message("round_end", t)).round
             /\ Follows(Handled(w, Message("round_end", t)), t)
  <2> DEFINE x == Handled(w, Message("round_end", t))
  <2>1. Fields(x, "round_end", w.round, w.correct, w.count, w.isHost, w.hostIsMe)
    BY HandledFields, Zenon
  <2>2. w.round \in Nat /\ w.isHost \in BOOLEAN /\ w.hostIsMe \in BOOLEAN
    BY DEF Stores
  <2> HIDE DEF x
  <2>3. w.round <= x.round /\ Held(x, t)
    BY <1>1, <1>2, <1>6, <2>1, <2>2 DEF Fields, Follows, Held, Agrees, IsHost
  <2>4. Agrees(x, t)
    BY <1>1, <1>2, <1>6, <2>1, <2>2 DEF Fields, Follows, Held, Agrees, IsHost, ScreenFor
  <2> QED
    BY <2>3, <2>4 DEF Follows, x
<1> QED
  BY <1>5, <1>6 DEF Shows

\* A game ends.
LEMMA GameOverShows ==
  ASSUME NEW s \in Seats, s.phase \notin {"none", "queued"},
         NEW t, t = [s EXCEPT !.phase = "finished"]
  PROVE  Grows(s, t) /\ Shows("game_over", s, t)
<1>1. /\ s.phase \in Phases /\ s.mode \in Modes /\ s.round \in Nat /\ s.correct \in Nat
      /\ s.others \in 0..1 /\ s.host \in BOOLEAN /\ s.ready \in BOOLEAN /\ s.answered \in BOOLEAN
  BY DEF Seats
<1>2. /\ t.phase = "finished" /\ t.mode = s.mode /\ t.round = s.round /\ t.correct = s.correct
      /\ t.others = s.others /\ t.host = s.host /\ t.ready = s.ready /\ t.answered = s.answered
  BY DEF Seats
<1>3. t.phase \in Phases /\ t.round \in Nat /\ t.correct \in Nat /\ t.others \in 0..1
  BY <1>1, <1>2 DEF Phases
<1>4. t \in Seats
  BY <1>1, <1>3, Zenon DEF Seats
<1>5. Grows(s, t)
  BY <1>1, <1>2, <1>4 DEF Grows
<1>6. ASSUME NEW w \in Stores, Follows(w, s)
      PROVE  /\ w.round <= Handled(w, Message("game_over", t)).round
             /\ Follows(Handled(w, Message("game_over", t)), t)
  <2> DEFINE x == Handled(w, Message("game_over", t))
  <2>1. Fields(x, "game_over", w.round, w.correct, w.count, w.isHost, w.hostIsMe)
    BY HandledFields, Zenon
  <2>2. w.round \in Nat /\ w.isHost \in BOOLEAN /\ w.hostIsMe \in BOOLEAN
    BY DEF Stores
  <2> HIDE DEF x
  <2>3. w.round <= x.round /\ Held(x, t)
    BY <1>1, <1>2, <1>6, <2>1, <2>2 DEF Fields, Follows, Held, Agrees, IsHost
  <2>4. Agrees(x, t)
    BY <1>1, <1>2, <1>6, <2>1, <2>2 DEF Fields, Follows, Held, Agrees, IsHost, ScreenFor
  <2> QED
    BY <2>3, <2>4 DEF Follows, x
<1> QED
  BY <1>5, <1>6 DEF Shows

\* The opponent leaves a duel.
LEMMA OpponentLeftShows ==
  ASSUME NEW s \in Seats, s.phase \notin {"none", "queued"},
         NEW t, t = [s EXCEPT !.phase = IF @ = "waiting" THEN "finished" ELSE "left", !.others = 0]
  PROVE  Grows(s, t) /\ Shows("opponent_left", s, t)
<1>1. /\ s.phase \in Phases /\ s.mode \in Modes /\ s.round \in Nat /\ s.correct \in Nat
      /\ s.others \in 0..1 /\ s.host \in BOOLEAN /\ s.ready \in BOOLEAN /\ s.answered \in BOOLEAN
  BY DEF Seats
<1>2. /\ t.phase = (IF s.phase = "waiting" THEN "finished" ELSE "left")
      /\ t.mode = s.mode /\ t.round = s.round /\ t.correct = s.correct
      /\ t.others = 0 /\ t.host = s.host /\ t.ready = s.ready /\ t.answered = s.answered
  BY DEF Seats
<1>3. t.phase \in Phases /\ t.round \in Nat /\ t.correct \in Nat /\ t.others \in 0..1
  BY <1>1, <1>2 DEF Phases
<1>4. t \in Seats
  BY <1>1, <1>3, Zenon DEF Seats
<1>5. Grows(s, t)
  BY <1>1, <1>2, <1>4 DEF Grows
<1>6. ASSUME NEW w \in Stores, Follows(w, s)
      PROVE  /\ w.round <= Handled(w, Message("opponent_left", t)).round
             /\ Follows(Handled(w, Message("opponent_left", t)), t)
  <2> DEFINE x == Handled(w, Message("opponent_left", t))
  <2>1. Fields(x, "game_over", w.round, w.correct, w.count, w.isHost, w.hostIsMe)
    BY HandledFields, Zenon
  <2>2. w.round \in Nat /\ w.isHost \in BOOLEAN /\ w.hostIsMe \in BOOLEAN
    BY DEF Stores
  <2> HIDE DEF x
  <2>3. w.round <= x.round /\ Held(x, t)
    BY <1>1, <1>2, <1>6, <2>1, <2>2 DEF Fields, Follows, Held, Agrees, IsHost
  <2>4. Agrees(x, t)
    BY <1>1, <1>2, <1>6, <2>1, <2>2 DEF Fields, Follows, Held, Agrees, IsHost, ScreenFor
  <2> QED
    BY <2>3, <2>4 DEF Follows, x
<1> QED
  BY <1>5, <1>6 DEF Shows

\* Another player joins a lobby.
LEMMA JoinShows ==
  ASSUME NEW s \in Seats, s.phase = "waiting",
         NEW t, t = [s EXCEPT !.others = 1]
  PROVE  Grows(s, t) /\ Shows("player_joined", s, t)
<1>1. /\ s.phase \in Phases /\ s.mode \in Modes /\ s.round \in Nat /\ s.correct \in Nat
      /\ s.others \in 0..1 /\ s.host \in BOOLEAN /\ s.ready \in BOOLEAN /\ s.answered \in BOOLEAN
  BY DEF Seats
<1>2. /\ t.phase = s.phase /\ t.mode = s.mode /\ t.round = s.round /\ t.correct = s.correct
      /\ t.others = 1 /\ t.host = s.host /\ t.ready = s.ready /\ t.answered = s.answered
  BY DEF Seats
<1>3. t.phase \in Phases /\ t.round \in Nat /\ t.correct \in Nat /\ t.others \in 0..1
  BY <1>1, <1>2 DEF Phases
<1>4. t \in Seats
  BY <1>1, <1>3, Zenon DEF Seats
<1>5. Grows(s, t)
  BY <1>1, <1>2, <1>4 DEF Grows
<1>6. ASSUME NEW w \in Stores, Follows(w, s)
      PROVE  /\ w.round <= Handled(w, Message("player_joined", t)).round
             /\ Follows(Handled(w, Message("player_joined", t)), t)
  <2> DEFINE x == Handled(w, Message("player_joined", t))
  <2>1. Fields(x, w.state, w.round, w.correct, t.others + 1, w.isHost, t.host)
    BY HandledFields, Zenon
  <2>2. w.round \in Nat /\ w.isHost \in BOOLEAN /\ w.hostIsMe \in BOOLEAN
    BY DEF Stores
  <2> HIDE DEF x
  <2>3. w.round <= x.round /\ Held(x, t)
    BY <1>1, <1>2, <1>6, <2>1, <2>2 DEF Fields, Follows, Held, Agrees, IsHost
  <2>4. Agrees(x, t)
    BY <1>1, <1>2, <1>6, <2>1, <2>2 DEF Fields, Follows, Held, Agrees, IsHost, ScreenFor
  <2> QED
    BY <2>3, <2>4 DEF Follows, x
<1> QED
  BY <1>5, <1>6 DEF Shows

\* Another player leaves the host alone.
LEMMA LeftShows ==
  ASSUME NEW s \in Seats, s.phase # "none", s.host,
         NEW t, t = [s EXCEPT !.others = 0, !.host = TRUE]
  PROVE  Grows(s, t) /\ Shows("player_left", s, t)
<1>1. /\ s.phase \in Phases /\ s.mode \in Modes /\ s.round \in Nat /\ s.correct \in Nat
      /\ s.others \in 0..1 /\ s.host \in BOOLEAN /\ s.ready \in BOOLEAN /\ s.answered \in BOOLEAN
  BY DEF Seats
<1>2. /\ t.phase = s.phase /\ t.mode = s.mode /\ t.round = s.round /\ t.correct = s.correct
      /\ t.others = 0 /\ t.host = TRUE /\ t.ready = s.ready /\ t.answered = s.answered
  BY DEF Seats
<1>3. t.phase \in Phases /\ t.round \in Nat /\ t.correct \in Nat /\ t.others \in 0..1
  BY <1>1, <1>2 DEF Phases
<1>4. t \in Seats
  BY <1>1, <1>3, Zenon DEF Seats
<1>5. Grows(s, t)
  BY <1>1, <1>2, <1>4 DEF Grows
<1>6. ASSUME NEW w \in Stores, Follows(w, s)
      PROVE  /\ w.round <= Handled(w, Message("player_left", t)).round
             /\ Follows(Handled(w, Message("player_left", t)), t)
  <2> DEFINE x == Handled(w, Message("player_left", t))
  <2>1. Fields(x, w.state, w.round, w.correct, t.others + 1, w.isHost, t.host)
    BY HandledFields, Zenon
  <2>2. w.round \in Nat /\ w.isHost \in BOOLEAN /\ w.hostIsMe \in BOOLEAN
    BY DEF Stores
  <2> HIDE DEF x
  <2>3. w.round <= x.round /\ Held(x, t)
    BY <1>1, <1>2, <1>6, <2>1, <2>2 DEF Fields, Follows, Held, Agrees, IsHost
  <2>4. Agrees(x, t)
    BY <1>1, <1>2, <1>6, <2>1, <2>2 DEF Fields, Follows, Held, Agrees, IsHost, ScreenFor
  <2> QED
    BY <2>3, <2>4 DEF Follows, x
<1> QED
  BY <1>5, <1>6 DEF Shows

\* A hit is judged.
LEMMA ScoreShows ==
  ASSUME NEW s \in Seats, s.phase \notin {"none", "waiting"}, NEW gain \in 0..1,
         NEW t, t = [s EXCEPT !.answered = TRUE, !.correct = @ + gain]
  PROVE  Grows(s, t) /\ Shows("score_update", s, t)
<1>1. /\ s.phase \in Phases /\ s.mode \in Modes /\ s.round \in Nat /\ s.correct \in Nat
      /\ s.others \in 0..1 /\ s.host \in BOOLEAN /\ s.ready \in BOOLEAN /\ s.answered \in BOOLEAN
  BY DEF Seats
<1>2. /\ t.phase = s.phase /\ t.mode = s.mode /\ t.round = s.round /\ t.correct = s.correct + gain
      /\ t.others = s.others /\ t.host = s.host /\ t.ready = s.ready /\ t.answered = TRUE
  BY DEF Seats
<1>3. t.phase \in Phases /\ t.round \in Nat /\ t.correct \in Nat /\ t.others \in 0..1
  BY <1>1, <1>2 DEF Phases
<1>4. t \in Seats
  BY <1>1, <1>3, Zenon DEF Seats
<1>5. Grows(s, t)
  BY <1>1, <1>2, <1>4 DEF Grows
<1>6. ASSUME NEW w \in Stores, Follows(w, s)
      PROVE  /\ w.round <= Handled(w, Message("score_update", t)).round
             /\ Follows(Handled(w, Message("score_update", t)), t)
  <2> DEFINE x == Handled(w, Message("score_update", t))
  <2>1. Fields(x, w.state, w.round, t.correct, w.count, w.isHost, w.hostIsMe)
    BY HandledFields, Zenon
  <2>2. w.round \in Nat /\ w.isHost \in BOOLEAN /\ w.hostIsMe \in BOOLEAN
    BY DEF Stores
  <2> HIDE DEF x
  <2>3. w.round <= x.round /\ Held(x, t)
    BY <1>1, <1>2, <1>6, <2>1, <2>2 DEF Fields, Follows, Held, Agrees, IsHost
  <2>4. Agrees(x, t)
    BY <1>1, <1>2, <1>6, <2>1, <2>2 DEF Fields, Follows, Held, Agrees, IsHost, ScreenFor
  <2> QED
    BY <2>3, <2>4 DEF Follows, x
<1> QED
  BY <1>5, <1>6 DEF Shows

LEMMA SeatFields ==
  ASSUME NEW s \in Seats
  PROVE  /\ s.phase \in Phases /\ s.mode \in Modes /\ s.round \in Nat /\ s.correct \in Nat
         /\ s.others \in 0..1 /\ s.host \in BOOLEAN /\ s.ready \in BOOLEAN /\ s.answered \in BOOLEAN
  BY DEF Seats

\* A player who has asked for a game gets a place; of what the page shows only the lobby differs.
LEMMA MatchShows ==
  ASSUME NEW s \in Seats, s.phase = "queued",
         NEW t \in Seats, t.phase = "waiting", t.round = s.round, t.correct = s.correct, s.host => t.host
  PROVE  Grows(s, t) /\ Shows("match_found", s, t)
<1>1. /\ s.round \in Nat /\ s.correct \in Nat /\ t.host \in BOOLEAN
  BY SeatFields
<1>2. Grows(s, t)
  BY <1>1 DEF Grows
<1>3. ASSUME NEW w \in Stores, Follows(w, s)
      PROVE  /\ w.round <= Handled(w, Message("match_found", t)).round
             /\ Follows(Handled(w, Message("match_found", t)), t)
  <2> DEFINE x == Handled(w, Message("match_found", t))
  <2>1. /\ t.mode = "battle" => Fields(x, "in_lobby", w.round, w.correct, t.others + 1, t.host, t.host)
        /\ t.mode # "battle" => Fields(x, "matched", w.round, w.correct, 2, t.host, t.host)
    BY HandledFields, Zenon
  <2>2. w.round \in Nat
    BY DEF Stores
  <2> HIDE DEF x
  <2>3. w.round <= x.round /\ Held(x, t)
    BY <1>1, <1>3, <2>1, <2>2 DEF Fields, Follows, Held, Agrees, IsHost
  <2>4. Agrees(x, t)
    BY <1>1, <1>3, <2>1, <2>2 DEF Fields, Follows, Held, Agrees, IsHost, ScreenFor
  <2> QED
    BY <2>3, <2>4 DEF Follows, x
<1> QED
  BY <1>2, <1>3 DEF Shows

LEMMA RoomShows ==
  ASSUME NEW s \in Seats, s.phase = "queued",
         NEW t \in Seats, t.phase = "waiting", t.round = s.round, t.correct = s.correct,
         t.host = TRUE, t.others = 0, t.mode = "battle"
  PROVE  Grows(s, t) /\ Shows("room_created", s, t)
<1>1. /\ s.round \in Nat /\ s.correct \in Nat
  BY SeatFields
<1>2. Grows(s, t)
  BY <1>1 DEF Grows
<1>3. ASSUME NEW w \in Stores, Follows(w, s)
      PROVE  /\ w.round <= Handled(w, Message("room_created", t)).round
             /\ Follows(Handled(w, Message("room_created", t)), t)
  <2> DEFINE x == Handled(w, Message("room_created", t))
  <2>1. Fields(x, "in_lobby", w.round, w.correct, 1, TRUE, w.hostIsMe)
    BY HandledFields, Zenon
  <2>2. w.round \in Nat
    BY DEF Stores
  <2> HIDE DEF x
  <2>3. w.round <= x.round /\ Held(x, t)
    BY <1>1, <1>3, <2>1, <2>2 DEF Fields, Follows, Held, Agrees, IsHost
  <2>h. IsHost(x) = t.host
    BY <2>1, Zenon DEF Fields, IsHost
  <2>4. Agrees(x, t)
    BY <1>1, <1>3, <2>1, <2>2, <2>h DEF Fields, Follows, Held, Agrees, ScreenFor
  <2> QED
    BY <2>3, <2>4 DEF Follows, x
<1> QED
  BY <1>2, <1>3 DEF Shows

LEMMA QueueShows ==
  ASSUME NEW s \in Seats, s.phase = "queued"
  PROVE  Grows(s, s) /\ Shows("queue_joined", s, s)
<1>1. /\ s.round \in Nat /\ s.correct \in Nat
  BY SeatFields
<1>2. Grows(s, s)
  BY <1>1 DEF Grows
<1>3. ASSUME NEW w \in Stores, Follows(w, s)
      PROVE  /\ w.round <= Handled(w, Message("queue_joined", s)).round
             /\ Follows(Handled(w, Message("queue_joined", s)), s)
  <2> DEFINE x == Handled(w, Message("queue_joined", s))
  <2>1. Fields(x, "queuing", w.round, w.correct, w.count, w.isHost, w.hostIsMe)
    BY HandledFields, Zenon
  <2>2. w.round \in Nat
    BY DEF Stores
  <2> HIDE DEF x
  <2>3. w.round <= x.round /\ Held(x, s)
    BY <1>1, <1>3, <2>1, <2>2 DEF Fields, Follows, Held, Agrees, IsHost
  <2>4. Agrees(x, s)
    BY <1>1, <1>3, <2>1, <2>2 DEF Fields, Follows, Held, Agrees, IsHost, ScreenFor
  <2> QED
    BY <2>3, <2>4 DEF Follows, x
<1> QED
  BY <1>2, <1>3 DEF Shows

\* Who enters a lobby by its code is told of the room and then of the players in it.
LEMMA EnterShows ==
  ASSUME NEW s \in Seats, s.phase = "queued",
         NEW t \in Seats, t.phase = "waiting", t.round = s.round, t.correct = s.correct, s.host => t.host,
         t.mode = "battle"
  PROVE  Grows(s, t) /\ ShowsTwo("match_found", "player_joined", s, t)
<1>1. /\ s.round \in Nat /\ s.correct \in Nat /\ t.host \in BOOLEAN
  BY SeatFields
<1>2. Grows(s, t)
  BY <1>1 DEF Grows
<1>3. ASSUME NEW w \in Stores, Follows(w, s), NEW x, x = Handled(w, Message("match_found", t))
      PROVE  /\ w.round <= x.round /\ Held(x, t)
             /\ x.round <= Handled(x, Message("player_joined", t)).round
             /\ Follows(Handled(x, Message("player_joined", t)), t)
  <2> DEFINE y == Handled(x, Message("player_joined", t))
  <2>1. Fields(x, "in_lobby", w.round, w.correct, t.others + 1, t.host, t.host)
    BY <1>3, HandledFields, Zenon
  <2>x. x \in Stores
    BY <1>3, HandledType, MessageSaid DEF MessageTypes
  <2>2. Fields(y, x.state, x.round, x.correct, t.others + 1, x.isHost, t.host)
    BY <2>x, HandledFields, Zenon
  <2>3. w.round \in Nat
    BY DEF Stores
  <2> HIDE DEF y
  <2>4. w.round <= x.round /\ Held(x, t) /\ x.round <= y.round /\ Held(y, t)
    BY <1>1, <1>3, <2>1, <2>2, <2>3 DEF Fields, Follows, Held, Agrees, IsHost
  <2>5. Agrees(y, t)
    BY <1>1, <1>3, <2>1, <2>2, <2>3 DEF Fields, Follows, Held, Agrees, IsHost, ScreenFor
  <2> QED
    BY <2>4, <2>5 DEF Follows, y
<1> QED
  BY <1>2, <1>3 DEF ShowsTwo

\* The host has left a battle: this player is told that it is host now, and then who is left.
LEMMA HostShows ==
  ASSUME NEW s \in Seats, s.phase # "none", NEW t, t = [s EXCEPT !.others = 0, !.host = TRUE]
  PROVE  Grows(s, t) /\ ShowsTwo("host_changed", "player_left", s, t)
<1>1. /\ s.phase \in Phases /\ s.mode \in Modes /\ s.round \in Nat /\ s.correct \in Nat
      /\ s.others \in 0..1 /\ s.host \in BOOLEAN /\ s.ready \in BOOLEAN /\ s.answered \in BOOLEAN
  BY SeatFields
<1>2. /\ t.phase = s.phase /\ t.mode = s.mode /\ t.round = s.round /\ t.correct = s.correct
      /\ t.others = 0 /\ t.host = TRUE /\ t.ready = s.ready /\ t.answered = s.answered
  BY DEF Seats
<1>t. t \in Seats
  <2>1. 0 \in 0..1
    OBVIOUS
  <2> QED
    BY <1>1, <2>1, Zenon DEF Seats
<1>3. Grows(s, t)
  BY <1>1, <1>2, <1>t DEF Grows
<1>4. ASSUME NEW w \in Stores, Follows(w, s), NEW x, x = Handled(w, Message("host_changed", t))
      PROVE  /\ w.round <= x.round /\ Held(x, t)
             /\ x.round <= Handled(x, Message("player_left", t)).round
             /\ Follows(Handled(x, Message("player_left", t)), t)
  <2> DEFINE y == Handled(x, Message("player_left", t))
  <2>1. Fields(x, w.state, w.round, w.correct, w.count, w.isHost, t.host)
    BY <1>4, HandledFields, Zenon
  <2>x. x \in Stores
    BY <1>4, <1>t, HandledType, MessageSaid DEF MessageTypes
  <2>2. Fields(y, x.state, x.round, x.correct, t.others + 1, x.isHost, t.host)
    BY <2>x, HandledFields, Zenon
  <2>3. w.round \in Nat
    BY DEF Stores
  <2> HIDE DEF y
  <2>4. w.round <= x.round /\ Held(x, t) /\ x.round <= y.round /\ Held(y, t)
    BY <1>1, <1>2, <1>4, <2>1, <2>2, <2>3 DEF Fields, Follows, Held, Agrees, IsHost
  <2>h. IsHost(y) = t.host
    BY <1>2, <2>2, Zenon DEF Fields, IsHost
  <2>5. Agrees(y, t)
    BY <1>1, <1>2, <1>4, <2>1, <2>2, <2>3, <2>h DEF Fields, Follows, Held, Agrees, ScreenFor
  <2> QED
    BY <2>4, <2>5 DEF Follows, y
<1> QED
  BY <1>3, <1>4 DEF ShowsTwo

\* A correct hit ends the round of a solo game or a duel.
LEMMA LastScoreShows ==
  ASSUME NEW s \in Seats, s.phase \notin {"none", "waiting"},
         NEW t, t = [s EXCEPT !.answered = TRUE, !.correct = @ + 1, !.phase = "round_end"]
  PROVE  Grows(s, t) /\ ShowsTwo("score_update", "round_end", s, t)
<1>1. /\ s.phase \in Phases /\ s.mode \in Modes /\ s.round \in Nat /\ s.correct \in Nat
      /\ s.others \in 0..1 /\ s.host \in BOOLEAN /\ s.ready \in BOOLEAN /\ s.answered \in BOOLEAN
  BY SeatFields
<1>2. /\ t.phase = "round_end" /\ t.mode = s.mode /\ t.round = s.round /\ t.correct = s.correct + 1
      /\ t.others = s.others /\ t.host = s.host /\ t.ready = s.ready /\ t.answered = TRUE
  BY DEF Seats
<1>t. t \in Seats
  <2>1. s.correct + 1 \in Nat /\ "round_end" \in Phases
    BY <1>1 DEF Phases
  <2> QED
    BY <1>1, <2>1, Zenon DEF Seats
<1>3. Grows(s, t)
  BY <1>1, <1>2, <1>t DEF Grows
<1>4. ASSUME NEW w \in Stores, Follows(w, s), NEW x, x = Handled(w, Message("score_update", t))
      PROVE  /\ w.round <= x.round /\ Held(x, t)
             /\ x.round <= Handled(x, Message("round_end", t)).round
             /\ Follows(Handled(x, Message("round_end", t)), t)
  <2> DEFINE y == Handled(x, Message("round_end", t))
  <2>1. Fields(x, w.state, w.round, t.correct, w.count, w.isHost, w.hostIsMe)
    BY <1>4, HandledFields, Zenon
  <2>x. x \in Stores
    BY <1>4, <1>t, HandledType, MessageSaid DEF MessageTypes
  <2>2. Fields(y, "round_end", x.round, x.correct, x.count, x.isHost, x.hostIsMe)
    BY <2>x, HandledFields, Zenon
  <2>3. w.round \in Nat
    BY DEF Stores
  <2> HIDE DEF y
  <2>4. w.round <= x.round /\ Held(x, t) /\ x.round <= y.round /\ Held(y, t)
    BY <1>1, <1>2, <1>4, <2>1, <2>2, <2>3 DEF Fields, Follows, Held, Agrees, IsHost
  <2>5. Agrees(y, t)
    BY <1>1, <1>2, <1>4, <2>1, <2>2, <2>3 DEF Fields, Follows, Held, Agrees, IsHost, ScreenFor
  <2> QED
    BY <2>4, <2>5 DEF Follows, y
<1> QED
  BY <1>3, <1>4 DEF ShowsTwo

\* A game that is restored is shown as it is.
LEMMA SyncShows ==
  ASSUME NEW s \in Seats, s.phase \in Active, NEW w \in Stores, Held(w, s)
  PROVE  LET m == Message("game_state_sync", s) IN
         w.round <= Handled(w, m).round /\ Follows(Handled(w, m), s) /\ m \in Said
<1> DEFINE x == Handled(w, Message("game_state_sync", s))
<1>1. s.round \in Nat /\ s.correct \in Nat
  BY SeatFields
<1>2. Fields(x, ScreenOf(s.phase), s.round, s.correct, s.others + 1, w.isHost, w.hostIsMe)
  BY HandledFields, Zenon
<1>3. w.round \in Nat
  BY DEF Stores
<1> HIDE DEF x
<1>4. w.round <= x.round /\ Held(x, s)
  BY <1>1, <1>2, <1>3 DEF Fields, Held, IsHost
<1>5. Agrees(x, s)
  BY <1>1, <1>2, <1>3 DEF Fields, Agrees, IsHost, ScreenFor, ScreenOf, Active
<1>6. Message("game_state_sync", s) \in Said
  BY DEF Message, Said, MessageTypes
<1> QED
  BY <1>4, <1>5, <1>6 DEF Follows, x

LEMMA ToldOne ==
  ASSUME NEW st, NEW d \in Seq(Said), NEW t \in Seats, NEW m \in Said, NEW v, Chain(v, st, d),
         \A i \in 1..Len(d) + 1 : Held(v[i], t),
         v[Len(d) + 1].round <= Handled(v[Len(d) + 1], m).round,
         Follows(Handled(v[Len(d) + 1], m), t)
  PROVE  View(st, Append(d, m), t, TRUE)
<1>1. PICK u : /\ Chain(u, st, Append(d, m))
               /\ \A i \in 1..Len(d) + 1 : u[i] = v[i]
               /\ u[Len(Append(d, m)) + 1] = Handled(v[Len(d) + 1], m)
  BY ChainGrows
<1>2. Len(d) \in Nat /\ Len(Append(d, m)) = Len(d) + 1
  BY AppendProperties, LenProperties
<1>3. \A i \in 1..Len(Append(d, m)) + 1 : i \in 1..Len(d) + 1 \/ i = Len(Append(d, m)) + 1
  BY <1>2
<1>4. \A i \in 1..Len(Append(d, m)) + 1 : Held(u[i], t)
  BY <1>1, <1>3 DEF Follows
<1>5. Agrees(u[Len(Append(d, m)) + 1], t)
  BY <1>1 DEF Follows
<1> QED
  BY <1>1, <1>4, <1>5 DEF View

LEMMA ToldTwo ==
  ASSUME NEW st, NEW d \in Seq(Said), NEW t \in Seats, NEW m \in Said, NEW n \in Said,
         NEW v, Chain(v, st, d),
         \A i \in 1..Len(d) + 1 : Held(v[i], t),
         NEW w, w = Handled(v[Len(d) + 1], m),
         v[Len(d) + 1].round <= w.round, Held(w, t),
         w.round <= Handled(w, n).round, Follows(Handled(w, n), t)
  PROVE  View(st, Append(Append(d, m), n), t, TRUE)
<1>1. PICK u : /\ Chain(u, st, Append(d, m))
               /\ \A i \in 1..Len(d) + 1 : u[i] = v[i]
               /\ u[Len(Append(d, m)) + 1] = w
  BY ChainGrows
<1>2. Len(d) \in Nat /\ Len(Append(d, m)) = Len(d) + 1 /\ Append(d, m) \in Seq(Said)
  BY AppendProperties, LenProperties
<1>3. \A i \in 1..Len(Append(d, m)) + 1 : i \in 1..Len(d) + 1 \/ i = Len(Append(d, m)) + 1
  BY <1>2
<1>4. \A i \in 1..Len(Append(d, m)) + 1 : Held(u[i], t)
  BY <1>1, <1>3
<1> QED
  BY <1>1, <1>2, <1>4, ToldOne

LEMMA TellOne ==
  ASSUME GameTypeOK, NEW m \in Said, Tell(<<m>>)
  PROVE  down' = IF wsRef = "open" THEN Append(down, m) ELSE down
<1>1. Append(down, m) = down \o <<m>>
  BY AppendIsConcat DEF GameTypeOK
<1> QED
  BY <1>1 DEF Tell

LEMMA TellTwo ==
  ASSUME GameTypeOK, NEW m \in Said, NEW n \in Said, NEW msgs,
         msgs = <<m, n>> \/ msgs = <<m>> \o <<n>>, Tell(msgs)
  PROVE  down' = IF wsRef = "open" THEN Append(Append(down, m), n) ELSE down
<1>1. <<m>> \in Seq(Said) /\ <<n>> \in Seq(Said) /\ <<m, n>> \in Seq(Said)
  OBVIOUS
<1>2. /\ Len(<<m, n>>) = 2 /\ <<m, n>>[1] = m /\ <<m, n>>[2] = n
      /\ Len(<<m>>) = 1 /\ <<m>>[1] = m /\ Len(<<n>>) = 1 /\ <<n>>[1] = n
  OBVIOUS
<1>3. msgs = <<m>> \o <<n>>
  <2>1. /\ <<m>> \o <<n>> \in Seq(Said) /\ Len(<<m>> \o <<n>>) = 2
        /\ (<<m>> \o <<n>>)[1] = m /\ (<<m>> \o <<n>>)[2] = n
    BY <1>1, <1>2, ConcatProperties
  <2>2. \A i \in 1..2 : (<<m>> \o <<n>>)[i] = <<m, n>>[i]
    <3>1. \A i \in 1..2 : i = 1 \/ i = 2
      OBVIOUS
    <3> QED
      BY <1>2, <2>1, <3>1, Zenon
  <2>3. <<m>> \o <<n>> = <<m, n>>
    BY <1>1, <1>2, <2>1, <2>2, SeqEqual
  <2> QED
    BY <2>3
<1>4. down \o msgs = (down \o <<m>>) \o <<n>>
  BY <1>1, <1>3, ConcatAssociative DEF GameTypeOK
<1>5. down \o <<m>> = Append(down, m) /\ Append(down, m) \in Seq(Said)
  BY AppendIsConcat, AppendProperties DEF GameTypeOK
<1>6. Append(down, m) \o <<n>> = Append(Append(down, m), n)
  BY <1>5, AppendIsConcat
<1> QED
  BY <1>4, <1>5, <1>6 DEF Tell

-----------------------------------------------------------------------------
(***************************************************************************)
(* A step of the server that tells the page what it does keeps the view.   *)
(***************************************************************************)
ViewInv == ~crossed => View(store, down, seat, wsRef = "open")

LEMMA HeldGrows ==
  ASSUME NEW s \in Seats, NEW t, Grows(s, t), NEW w \in Stores, Held(w, s) PROVE Held(w, t)
<1>1. w.round \in Nat /\ s.round \in Nat /\ t.round \in Nat
  BY SeatFields DEF Stores, Grows
<1> QED
  BY <1>1 DEF Held, Grows

LEMMA ServerTellsOne ==
  ASSUME PageInv, GameTypeOK, UNCHANGED <<store, wsRef>>, seat' \in Seats,
         NEW s \in Seats, s.phase # "none", ~crossed' => View(store, down, s, wsRef = "open"),
         NEW type \in MessageTypes \ {"game_state_sync"}, Tell(<<Say(type)>>),
         ~crossed' => Grows(s, seat') /\ Shows(type, s, seat')
  PROVE  GameTypeOK' /\ ViewInv'
<1> DEFINE m == Message(type, seat')
<1>1. m \in Said /\ Say(type) = m
  BY MessageSaid DEF Say, Message
<1> HIDE DEF m
<1>2. down' = IF wsRef = "open" THEN Append(down, m) ELSE down
  BY <1>1, TellOne
<1>3. down \in Seq(Said) /\ store \in Stores /\ (wsRef # "open" => down = <<>>)
  BY DEF GameTypeOK, PageInv, DownIsOpen
<1>4. down' \in Seq(Said)
  BY <1>1, <1>2, <1>3, AppendProperties
<1>5. ASSUME ~crossed' PROVE View(store, down', seat', wsRef = "open")
  <2>1. PICK v : /\ Chain(v, store, down)
                 /\ \A i \in 1..Len(down) + 1 : Held(v[i], s)
                 /\ wsRef = "open" => Agrees(v[Len(down) + 1], s)
    BY <1>5 DEF View
  <2>2. \A i \in 1..Len(down) + 1 : v[i] \in Stores
    BY <2>1 DEF Chain
  <2>3. \A i \in 1..Len(down) + 1 : Held(v[i], seat')
    BY <1>5, <2>1, <2>2, HeldGrows
  <2>4. CASE wsRef = "open"
    <3>1. Len(down) + 1 \in 1..Len(down) + 1
      BY <1>3, LenProperties
    <3>2. Follows(v[Len(down) + 1], s)
      BY <2>1, <2>4, <3>1 DEF Follows
    <3>3. /\ v[Len(down) + 1].round <= Handled(v[Len(down) + 1], m).round
          /\ Follows(Handled(v[Len(down) + 1], m), seat')
      BY <1>5, <2>2, <3>1, <3>2 DEF m, Shows
    <3>4. View(store, Append(down, m), seat', TRUE)
      BY <1>1, <1>3, <2>1, <2>3, <3>3, ToldOne
    <3> QED
      BY <1>2, <2>4, <3>4
  <2>5. CASE wsRef # "open"
    <3>1. down' = down
      BY <1>2, <2>5
    <3> QED
      BY <2>1, <2>3, <2>5, <3>1 DEF View
  <2> QED
    BY <2>4, <2>5
<1> QED
  BY <1>3, <1>4, <1>5 DEF GameTypeOK, ViewInv

LEMMA ServerTellsTwo ==
  ASSUME PageInv, GameTypeOK, UNCHANGED <<store, wsRef>>, seat' \in Seats,
         NEW s \in Seats, s.phase # "none", ~crossed' => View(store, down, s, wsRef = "open"),
         NEW type \in MessageTypes \ {"game_state_sync"}, NEW next \in MessageTypes \ {"game_state_sync"},
         NEW msgs, msgs = <<Say(type), Say(next)>> \/ msgs = <<Say(type)>> \o <<Say(next)>>,
         Tell(msgs),
         ~crossed' => Grows(s, seat') /\ ShowsTwo(type, next, s, seat')
  PROVE  GameTypeOK' /\ ViewInv'
<1> DEFINE m == Message(type, seat')
           n == Message(next, seat')
<1>1. m \in Said /\ Say(type) = m /\ n \in Said /\ Say(next) = n
  BY MessageSaid DEF Say, Message
<1> HIDE DEF m, n
<1>2. down' = IF wsRef = "open" THEN Append(Append(down, m), n) ELSE down
  BY <1>1, TellTwo
<1>3. down \in Seq(Said) /\ store \in Stores /\ (wsRef # "open" => down = <<>>)
  BY DEF GameTypeOK, PageInv, DownIsOpen
<1>4. down' \in Seq(Said)
  <2>1. Append(down, m) \in Seq(Said)
    BY <1>1, <1>3, AppendProperties
  <2>2. Append(Append(down, m), n) \in Seq(Said)
    BY <1>1, <2>1, AppendProperties
  <2> QED
    BY <1>2, <1>3, <2>2
<1>5. ASSUME ~crossed' PROVE View(store, down', seat', wsRef = "open")
  <2>1. PICK v : /\ Chain(v, store, down)
                 /\ \A i \in 1..Len(down) + 1 : Held(v[i], s)
                 /\ wsRef = "open" => Agrees(v[Len(down) + 1], s)
    BY <1>5 DEF View
  <2>2. \A i \in 1..Len(down) + 1 : v[i] \in Stores
    BY <2>1 DEF Chain
  <2>3. \A i \in 1..Len(down) + 1 : Held(v[i], seat')
    BY <1>5, <2>1, <2>2, HeldGrows
  <2>4. CASE wsRef = "open"
    <3> DEFINE x == Handled(v[Len(down) + 1], m)
    <3>1. Len(down) + 1 \in 1..Len(down) + 1
      BY <1>3, LenProperties
    <3>2. Follows(v[Len(down) + 1], s)
      BY <2>1, <2>4, <3>1 DEF Follows
    <3>3. /\ v[Len(down) + 1].round <= x.round /\ Held(x, seat')
          /\ x.round <= Handled(x, n).round /\ Follows(Handled(x, n), seat')
      BY <1>5, <2>2, <3>1, <3>2 DEF m, n, ShowsTwo
    <3>d. x = Handled(v[Len(down) + 1], m)
      OBVIOUS
    <3> HIDE DEF x
    <3>4. View(store, Append(Append(down, m), n), seat', TRUE)
      BY <1>1, <1>3, <2>1, <2>3, <3>3, <3>d, ToldTwo
    <3> QED
      BY <1>2, <2>4, <3>4
  <2>5. CASE wsRef # "open"
    <3>1. down' = down
      BY <1>2, <2>5
    <3> QED
      BY <2>1, <2>3, <2>5, <3>1 DEF View
  <2> QED
    BY <2>4, <2>5
<1> QED
  BY <1>3, <1>4, <1>5 DEF GameTypeOK, ViewInv

-----------------------------------------------------------------------------
(***************************************************************************)
(* The page and the seat.  While a request is under way the server has no  *)
(* seat for the player, and nothing of an earlier game is left on the page *)
(* or in the queue: that is why a join finds a page that a new seat can be *)
(* shown on, and only the host's page ever asks for the start.             *)
(***************************************************************************)
\* A page that has forgotten its last game.
Fresh(st) == st.round = 0 /\ st.correct = 0 /\ ~IsHost(st)

\* The last request has not been given up and has not reached the server yet.
Wanted == game \notin hasty /\ \E j \in delayed \cup JoinsIn(asked) : j.game = game

StartAsked == \E m \in Items(asked) : m.type = "start"

ErrorDown == \E m \in Items(down) : m.type = "error"

Apart == seat.phase = "none" /\ Fresh(store) /\ ~StartAsked

Asking == store.state \in {"queuing", "creating_room"}

\* No round before the first.
Early(s) == s.phase \in {"none", "queued", "waiting", "countdown"} => s.round = 0

\* What the history variable crossed excludes is a seat that outlives the player's leaving, a join
\* out of turn and a second start: there page and seat may disagree, and nothing is claimed.
ApartInv == ~crossed =>
  /\ Wanted => Apart /\ down = <<>> /\ Asking
  /\ store.state = "idle" \/ again > 0 => Apart /\ down = <<>>
  /\ again > 0 => \A j \in JoinsIn(asked) : j.game \in hasty
  /\ ErrorDown => Apart /\ Len(down) = 1 /\ Asking
  /\ StartAsked => seat.host \/ seat.phase = "none"
  /\ Early(seat)

SeatInv == PageInv /\ LateInv /\ Once /\ GameTypeOK /\ ApartInv /\ ViewInv

Shown == GameTypeOK /\ ApartInv /\ ViewInv

\* What a step of the server leaves alone.
StaysPut ==
  /\ UNCHANGED <<store, wsRef, delayed, again, hasty, game>>
  /\ crossed => crossed'
  /\ Items(asked)' \subseteq Items(asked)

LEMMA ApartInRoom ==
  ASSUME SeatInv, StaysPut, seat.phase # "none",
         ~crossed' => /\ ErrorDown' => ErrorDown
                      /\ seat.host => seat'.host \/ seat'.phase = "none"
                      /\ Early(seat')
  PROVE  ApartInv'
<1> SUFFICES ASSUME ~crossed'
             PROVE  /\ ~Wanted' /\ ~(store'.state = "idle") /\ ~(again' > 0) /\ ~ErrorDown'
                    /\ StartAsked' => seat'.host \/ seat'.phase = "none"
                    /\ Early(seat)'
  BY Zenon DEF ApartInv
<1>1. ~crossed /\ ~Apart
  BY DEF StaysPut, Apart
<1>2. /\ ~Wanted /\ store.state # "idle" /\ ~(again > 0) /\ ~ErrorDown
      /\ StartAsked => seat.host
  BY <1>1, Zenon DEF SeatInv, ApartInv
<1>3. ~Wanted'
  BY <1>2 DEF Wanted, StaysPut, JoinsIn
<1>4. StartAsked' => StartAsked
  BY DEF StartAsked, StaysPut
<1>5. store' = store /\ again' = again
  BY DEF StaysPut
<1>6. Early(seat)'
  BY DEF Early
<1> QED
  BY <1>2, <1>3, <1>4, <1>5, <1>6, Zenon

\* A step that leaves what page and seat show of each other.
SameSeat(s, t) ==
  /\ t.phase = s.phase /\ t.mode = s.mode /\ t.round = s.round /\ t.correct = s.correct
  /\ t.others = s.others /\ t.host = s.host

LEMMA SameShown ==
  ASSUME SeatInv, StaysPut, down' = down, seat' \in Seats, SameSeat(seat, seat')
  PROVE  Shown'
<1>1. GameTypeOK'
  BY DEF SeatInv, GameTypeOK, StaysPut
<1>2. ApartInv'
  <2> SUFFICES ASSUME ~crossed' PROVE ApartInv'
    BY DEF ApartInv
  <2>1. ~crossed
    BY DEF StaysPut
  <2>2. /\ Wanted' => Wanted
        /\ StartAsked' => StartAsked
        /\ ErrorDown' => ErrorDown
    BY DEF Wanted, StartAsked, ErrorDown, StaysPut, JoinsIn
  <2>3. /\ Apart => Apart'
        /\ Asking' = Asking /\ Early(seat)' = Early(seat)
    BY <2>2 DEF Apart, Asking, Early, StaysPut, SameSeat
  <2>4. JoinsIn(asked)' \subseteq JoinsIn(asked)
    BY DEF StaysPut, JoinsIn
  <2> QED
    BY <2>1, <2>2, <2>3, <2>4 DEF SeatInv, ApartInv, StaysPut, SameSeat
<1>3. ViewInv'
  <2> SUFFICES ASSUME ~crossed' PROVE View(store, down, seat', wsRef = "open")
    BY DEF ViewInv, StaysPut
  <2>1. View(store, down, seat, wsRef = "open")
    BY DEF SeatInv, ViewInv, StaysPut
  <2>2. \A v : Held(v, seat') = Held(v, seat) /\ Agrees(v, seat') = Agrees(v, seat)
    BY DEF SameSeat, Held, Agrees, ScreenFor
  <2> QED
    BY <2>1, <2>2 DEF View, SameSeat
<1> QED
  BY <1>1, <1>2, <1>3 DEF Shown

LEMMA ItemsDown ==
  ASSUME GameTypeOK, NEW m \in Said, m.type # "error",
         down' = down \/ down' = Append(down, m)
  PROVE  ErrorDown' => ErrorDown
<1>1. Items(Append(down, m)) = Items(down) \cup {m}
  BY ItemsOfAppend DEF GameTypeOK
<1> QED
  BY <1>1 DEF ErrorDown

LEMMA ItemsDownTwo ==
  ASSUME GameTypeOK, NEW m \in Said, m.type # "error", NEW n \in Said, n.type # "error",
         down' = down \/ down' = Append(Append(down, m), n)
  PROVE  ErrorDown' => ErrorDown
<1> DEFINE q == Append(down, m)
<1>1. Items(q) = Items(down) \cup {m} /\ q \in Seq(Said)
  BY ItemsOfAppend, AppendProperties DEF GameTypeOK
<1>d. q = Append(down, m)
  OBVIOUS
<1> HIDE DEF q
<1>2. Items(Append(q, n)) = Items(q) \cup {n}
  BY <1>1, ItemsOfAppend
<1> QED
  BY <1>1, <1>2, <1>d DEF ErrorDown

\* The room moves on with one message, or with two.
Spoken == MessageTypes \ {"game_state_sync", "error"}

LEMMA RoomTellsOne ==
  ASSUME SeatInv, StaysPut, seat.phase # "none", seat' \in Seats,
         NEW type \in Spoken, Tell(<<Say(type)>>),
         ~crossed' => Grows(seat, seat') /\ Shows(type, seat, seat') /\ Early(seat')
  PROVE  Shown'
<1>1. /\ PageInv /\ GameTypeOK /\ seat \in Seats /\ UNCHANGED <<store, wsRef>>
      /\ type \in MessageTypes \ {"game_state_sync"}
      /\ ~crossed' => View(store, down, seat, wsRef = "open")
  BY DEF SeatInv, GameTypeOK, StaysPut, Spoken, ViewInv
<1>2. GameTypeOK' /\ ViewInv'
  BY <1>1, ServerTellsOne
<1>3. Say(type) = Message(type, seat') /\ Say(type) \in Said /\ Say(type).type = type /\ type # "error"
  BY <1>1, MessageSaid DEF Say, Message, Spoken
<1>4. down' = down \/ down' = Append(down, Say(type))
  BY <1>1, <1>3, TellOne
<1>5. ErrorDown' => ErrorDown
  BY <1>1, <1>3, <1>4, ItemsDown
<1>6. ApartInv'
  BY <1>5, ApartInRoom DEF Grows
<1> QED
  BY <1>2, <1>6 DEF Shown

LEMMA RoomTellsTwo ==
  ASSUME SeatInv, StaysPut, seat.phase # "none", seat' \in Seats,
         NEW type \in Spoken, NEW next \in Spoken, NEW msgs,
         msgs = <<Say(type), Say(next)>> \/ msgs = <<Say(type)>> \o <<Say(next)>>, Tell(msgs),
         ~crossed' => Grows(seat, seat') /\ ShowsTwo(type, next, seat, seat') /\ Early(seat')
  PROVE  Shown'
<1>1. /\ PageInv /\ GameTypeOK /\ seat \in Seats /\ UNCHANGED <<store, wsRef>>
      /\ type \in MessageTypes \ {"game_state_sync"} /\ next \in MessageTypes \ {"game_state_sync"}
      /\ ~crossed' => View(store, down, seat, wsRef = "open")
  BY DEF SeatInv, GameTypeOK, StaysPut, Spoken, ViewInv
<1>2. GameTypeOK' /\ ViewInv'
  BY <1>1, ServerTellsTwo
<1>3. /\ Say(type) = Message(type, seat') /\ Say(type) \in Said /\ Say(type).type # "error"
      /\ Say(next) = Message(next, seat') /\ Say(next) \in Said /\ Say(next).type # "error"
  BY <1>1, MessageSaid DEF Say, Message, Spoken
<1>4. down' = down \/ down' = Append(Append(down, Say(type)), Say(next))
  BY <1>1, <1>3, TellTwo
<1>5. ErrorDown' => ErrorDown
  BY <1>1, <1>3, <1>4, ItemsDownTwo
<1>6. ApartInv'
  BY <1>5, ApartInRoom DEF Grows
<1> QED
  BY <1>2, <1>6 DEF Shown

-----------------------------------------------------------------------------
(***************************************************************************)
(* The steps of the room.                                                  *)
(***************************************************************************)
LEMMA TypedSeat == ASSUME SeatInv PROVE seat \in Seats /\ store \in Stores /\ down \in Seq(Said)
  BY DEF SeatInv, GameTypeOK

LEMMA NoSeatType == NoSeat \in Seats /\ NoSeat.phase = "none" /\ Early(NoSeat)
<1>1. 0 \in Nat /\ 0 \in 0..1 /\ "none" \in Phases /\ "solo" \in Modes
  BY DEF Phases, Modes
<1>2. NoSeat \in Seats
  BY <1>1, Zenon DEF NoSeat, Seats
<1> QED
  BY <1>2 DEF NoSeat, Early

LEMMA MovesStayPut == ASSUME SeatInv, RoomMoves PROVE StaysPut /\ ~crossed /\ Early(seat)
<1>1. UNCHANGED <<store, wsRef, delayed, again, hasty, game, asked>> /\ crossed' = crossed /\ ~crossed
  BY DEF RoomMoves, ServerStep, wsVars
<1>2. Early(seat)
  BY <1>1 DEF SeatInv, ApartInv
<1> QED
  BY <1>1, <1>2 DEF StaysPut, Items

LEMMA MatchedShown == ASSUME SeatInv, StaysPut, Early(seat), Matched PROVE Shown'
<1> DEFINE t == [seat EXCEPT !.phase = "waiting", !.others = 1]
<1>1. seat.phase = "queued" /\ seat' = t /\ Tell(<<Say("match_found")>>)
  BY DEF Matched
<1>2. /\ t.phase = "waiting" /\ t.round = seat.round /\ t.correct = seat.correct
      /\ t.host = seat.host /\ t.others = 1
  BY TypedSeat DEF Seats
<1>3. t \in Seats
  <2>1. 1 \in 0..1 /\ "waiting" \in Phases
    BY DEF Phases
  <2> QED
    BY <2>1, TypedSeat, Zenon DEF Seats
<1> HIDE DEF t
<1>4. Grows(seat, t) /\ Shows("match_found", seat, t)
  BY <1>1, <1>2, <1>3, TypedSeat, MatchShows
<1>5. Early(t) /\ "match_found" \in Spoken
  BY <1>1, <1>2 DEF Early, Spoken, MessageTypes
<1> QED
  BY <1>1, <1>3, <1>4, <1>5, RoomTellsOne

LEMMA CountdownShown ==
  ASSUME SeatInv, StaysPut, ~crossed' => Early(seat) /\ seat.phase = "waiting", seat.phase # "none",
         seat' = [seat EXCEPT !.phase = "countdown", !.round = 0], Tell(<<Say("countdown")>>)
  PROVE  Shown'
<1> DEFINE t == [seat EXCEPT !.phase = "countdown", !.round = 0]
<1>1. t.phase = "countdown" /\ t.round = 0
  BY TypedSeat DEF Seats
<1>2. t \in Seats
  <2>1. 0 \in Nat /\ "countdown" \in Phases
    BY DEF Phases
  <2> QED
    BY <2>1, TypedSeat, Zenon DEF Seats
<1>3. ~crossed' => Grows(seat, t) /\ Shows("countdown", seat, t)
  BY TypedSeat, CountdownShows DEF Early
<1>d. seat' = t
  OBVIOUS
<1> HIDE DEF t
<1>4. Early(t) /\ "countdown" \in Spoken
  BY <1>1 DEF Early, Spoken, MessageTypes
<1> QED
  BY <1>d, <1>2, <1>3, <1>4, RoomTellsOne

LEMMA RoundStartsShown == ASSUME SeatInv, StaysPut, RoundStarts PROVE Shown'
<1> DEFINE t == [seat EXCEPT !.phase = "playing", !.round = @ + 1, !.answered = FALSE]
<1>1. /\ seat.phase \notin {"none", "queued"} /\ seat' = t /\ Tell(<<Say("round_start")>>)
  BY DEF RoundStarts
<1>2. t.phase = "playing"
  BY TypedSeat DEF Seats
<1>3. Grows(seat, t) /\ Shows("round_start", seat, t)
  BY <1>1, TypedSeat, RoundStartShows
<1> HIDE DEF t
<1>4. Early(t) /\ "round_start" \in Spoken /\ t \in Seats /\ seat.phase # "none"
  BY <1>1, <1>2, <1>3 DEF Early, Spoken, MessageTypes, Grows
<1> QED
  BY <1>1, <1>3, <1>4, RoomTellsOne

LEMMA RoundEndsShown == ASSUME SeatInv, StaysPut, RoundEnds PROVE Shown'
<1> DEFINE t == [seat EXCEPT !.phase = "round_end"]
<1>1. /\ seat.phase = "playing" /\ seat' = t /\ Tell(<<Say("round_end")>>)
  BY DEF RoundEnds
<1>2. t.phase = "round_end"
  BY TypedSeat DEF Seats
<1>3. Grows(seat, t) /\ Shows("round_end", seat, t)
  BY <1>1, TypedSeat, RoundEndShows
<1> HIDE DEF t
<1>4. Early(t) /\ "round_end" \in Spoken /\ t \in Seats /\ seat.phase # "none"
  BY <1>1, <1>2, <1>3 DEF Early, Spoken, MessageTypes, Grows
<1> QED
  BY <1>1, <1>3, <1>4, RoomTellsOne

LEMMA GameEndsShown == ASSUME SeatInv, StaysPut, GameEnds PROVE Shown'
<1> DEFINE t == [seat EXCEPT !.phase = "finished"]
<1>1. /\ seat.phase \notin {"none", "queued"} /\ seat' = t /\ Tell(<<Say("game_over")>>)
  BY DEF GameEnds
<1>2. t.phase = "finished"
  BY TypedSeat DEF Seats
<1>3. Grows(seat, t) /\ Shows("game_over", seat, t)
  BY <1>1, TypedSeat, GameOverShows
<1> HIDE DEF t
<1>4. Early(t) /\ "game_over" \in Spoken /\ t \in Seats /\ seat.phase # "none"
  BY <1>1, <1>2, <1>3 DEF Early, Spoken, MessageTypes, Grows
<1> QED
  BY <1>1, <1>3, <1>4, RoomTellsOne

LEMMA OpponentLeftShown == ASSUME SeatInv, StaysPut, OpponentLeft PROVE Shown'
<1> DEFINE t == [seat EXCEPT !.phase = IF @ = "waiting" THEN "finished" ELSE "left", !.others = 0]
<1>1. /\ seat.phase \notin {"none", "queued"} /\ seat' = t /\ Tell(<<Say("opponent_left")>>)
  BY DEF OpponentLeft, Active
<1>2. t.phase \in {"finished", "left"}
  BY TypedSeat DEF Seats
<1>3. Grows(seat, t) /\ Shows("opponent_left", seat, t)
  BY <1>1, TypedSeat, OpponentLeftShows
<1> HIDE DEF t
<1>4. Early(t) /\ "opponent_left" \in Spoken /\ t \in Seats /\ seat.phase # "none"
  BY <1>1, <1>2, <1>3 DEF Early, Spoken, MessageTypes, Grows
<1> QED
  BY <1>1, <1>3, <1>4, RoomTellsOne

LEMMA OtherJoinsShown == ASSUME SeatInv, StaysPut, Early(seat), OtherJoins PROVE Shown'
<1> DEFINE t == [seat EXCEPT !.others = 1]
<1>1. /\ seat.phase = "waiting" /\ seat' = t /\ Tell(<<Say("player_joined")>>)
  BY DEF OtherJoins
<1>2. t.phase = seat.phase /\ t.round = seat.round
  BY TypedSeat DEF Seats
<1>3. Grows(seat, t) /\ Shows("player_joined", seat, t)
  BY <1>1, TypedSeat, JoinShows
<1> HIDE DEF t
<1>4. Early(t) /\ "player_joined" \in Spoken /\ t \in Seats /\ seat.phase # "none"
  BY <1>1, <1>2, <1>3 DEF Early, Spoken, MessageTypes, Grows
<1> QED
  BY <1>1, <1>3, <1>4, RoomTellsOne

LEMMA OtherLeavesShown == ASSUME SeatInv, StaysPut, Early(seat), OtherLeaves PROVE Shown'
<1> DEFINE t == [seat EXCEPT !.others = 0, !.host = TRUE]
<1>1. /\ seat.phase # "none" /\ seat' = t
      /\ Tell((IF seat.host THEN <<>> ELSE <<Say("host_changed")>>) \o <<Say("player_left")>>)
  BY DEF OtherLeaves, InRoom, Active
<1>2. t.phase = seat.phase /\ t.round = seat.round
  BY TypedSeat DEF Seats
<1>3. Early(t) /\ "player_left" \in Spoken /\ "host_changed" \in Spoken
  BY <1>2 DEF Early, Spoken, MessageTypes
<1>4. CASE seat.host
  <2>1. Grows(seat, t) /\ Shows("player_left", seat, t)
    BY <1>1, <1>4, TypedSeat, LeftShows
  <2>2. <<>> \o <<Say("player_left")>> = <<Say("player_left")>>
    <3>1. <<Say("player_left")>> \in Seq({Say("player_left")})
      OBVIOUS
    <3> QED
      BY <3>1, ConcatEmptySeq
  <2>3. Tell(<<Say("player_left")>>)
    BY <1>1, <1>4, <2>2
  <2>4. t \in Seats
    BY <2>1 DEF Grows
  <2> HIDE DEF t
  <2> QED
    BY <1>1, <1>3, <2>1, <2>3, <2>4, RoomTellsOne
<1>5. CASE ~seat.host
  <2>1. Grows(seat, t) /\ ShowsTwo("host_changed", "player_left", seat, t)
    BY <1>1, TypedSeat, HostShows
  <2> DEFINE msgs == <<Say("host_changed")>> \o <<Say("player_left")>>
  <2>2. Tell(msgs)
    BY <1>1, <1>5
  <2>3. t \in Seats
    BY <2>1 DEF Grows
  <2> HIDE DEF t
  <2> QED
    BY <1>1, <1>3, <2>1, <2>2, <2>3, RoomTellsTwo
<1> QED
  BY <1>4, <1>5

LEMMA GraceExpiresShown == ASSUME SeatInv, StaysPut, GraceExpires PROVE Shown'
<1>1. seat.phase # "none" /\ wsRef # "open" /\ seat' = NoSeat /\ down' = down
  BY DEF GraceExpires, InRoom, Active
<1>2. down = <<>>
  BY <1>1 DEF SeatInv, PageInv, DownIsOpen
<1>3. ViewInv'
  <2>1. View(store, <<>>, NoSeat, wsRef = "open")
    BY TypedSeat, NoSeatType, PlainView
  <2> QED
    BY <1>1, <1>2, <2>1 DEF ViewInv, StaysPut
<1>4. GameTypeOK'
  BY <1>1, TypedSeat, NoSeatType DEF GameTypeOK, StaysPut
<1>5. ErrorDown' => ErrorDown
  BY <1>1 DEF ErrorDown
<1>6. ApartInv'
  BY <1>1, <1>5, NoSeatType, ApartInRoom
<1> QED
  BY <1>3, <1>4, <1>6 DEF Shown

LEMMA RoomMovesShown == ASSUME SeatInv, RoomMoves PROVE Shown'
<1>1. StaysPut /\ ~crossed /\ Early(seat)
  BY MovesStayPut
<1>2. CASE AllReady \/ OtherStarts
  <2>1. /\ seat.phase = "waiting" /\ seat' = [seat EXCEPT !.phase = "countdown", !.round = 0]
        /\ Tell(<<Say("countdown")>>)
    BY <1>2 DEF AllReady, OtherStarts
  <2> QED
    BY <1>1, <2>1, CountdownShown
<1>3. \/ Matched \/ AllReady \/ OtherStarts \/ RoundStarts \/ RoundEnds \/ GameEnds
      \/ OpponentLeft \/ OtherJoins \/ OtherLeaves \/ GraceExpires
  BY DEF RoomMoves
<1> QED
  BY <1>1, <1>2, <1>3, MatchedShown, RoundStartsShown, RoundEndsShown, GameEndsShown,
     OpponentLeftShown, OtherJoinsShown, OtherLeavesShown, GraceExpiresShown

-----------------------------------------------------------------------------
(***************************************************************************)
(* The messages the server takes.                                          *)
(***************************************************************************)
LEMMA TakeStaysPut == ASSUME SeatInv, Take, crossed => crossed' PROVE StaysPut /\ wsRef = "open"
<1>1. Taken /\ UNCHANGED <<store, wsRef, delayed, again, hasty, game>> /\ wsRef = "open"
  BY DEF Take, ServerStep, Taken, sockets
<1>2. PageInv
  BY DEF SeatInv
<1>3. \A i \in 1..Len(asked') : asked'[i] = asked[1 + i] /\ 1 + i \in 1..Len(asked)
  BY <1>1, <1>2, TakenFirst
<1>4. Items(asked)' \subseteq Items(asked)
  BY <1>3 DEF Items
<1> QED
  BY <1>1, <1>4 DEF StaysPut

\* A join that is not out of its time finds a page without a game, and was the last one.
LEMMA JoinFinds ==
  ASSUME SeatInv, Take, NEW m, m = Head(wired), TakeJoin(m), ~crossed'
  PROVE  /\ ~crossed /\ Apart /\ down = <<>> /\ Asking /\ ~(again > 0) /\ ~Wanted'
<1>1. ~crossed /\ m.game = game /\ game \notin hasty /\ m.type = "join"
  BY DEF TakeJoin
<1>2. PageInv /\ Once
  BY DEF SeatInv
<1>3. m \in JoinsIn(asked) /\ \A j \in (delayed \cup JoinsIn(asked))' : j.game # m.game
  BY <1>1, <1>2, TakenOnce
<1>4. Wanted
  BY <1>1, <1>3 DEF Wanted
<1>5. Apart /\ down = <<>> /\ Asking
  BY <1>1, <1>4 DEF SeatInv, ApartInv
<1>6. ~(again > 0)
  BY <1>1, <1>3 DEF SeatInv, ApartInv
<1>7. game' = game
  BY DEF Take, ServerStep
<1>8. ~Wanted'
  BY <1>1, <1>3, <1>7 DEF Wanted
<1> QED
  BY <1>1, <1>5, <1>6, <1>8

LEMMA ApartJoined ==
  ASSUME SeatInv, Take, StaysPut, NEW m, m = Head(wired), TakeJoin(m),
         ~crossed' => /\ Early(seat')
                      /\ ErrorDown' => seat' = seat /\ Len(down') = 1
  PROVE  ApartInv'
<1> SUFFICES ASSUME ~crossed' PROVE ApartInv'
  BY DEF ApartInv
<1>1. /\ ~crossed /\ Apart /\ down = <<>> /\ Asking /\ ~(again > 0) /\ ~Wanted'
  BY JoinFinds
<1>2. ~StartAsked'
  BY <1>1 DEF Apart, StartAsked, StaysPut
<1>3. store' = store /\ again' = again
  BY DEF StaysPut
<1>4. Asking' /\ ~(store'.state = "idle") /\ ~(again' > 0)
  BY <1>1, <1>3 DEF Asking
<1>5. ErrorDown' => Apart'
  BY <1>1, <1>2, <1>3 DEF Apart
<1>6. Early(seat)'
  BY DEF Early
<1> QED
  BY <1>1, <1>2, <1>4, <1>5, <1>6 DEF ApartInv

\* The view of a page that has asked for a game, as if the player were in a queue.
LEMMA AskingView ==
  ASSUME SeatInv, Apart, down = <<>>, NEW q \in Seats, q.phase = "queued", q.round = 0, q.correct = 0
  PROVE  View(store, down, q, wsRef = "open")
<1>1. Held(store, q) /\ Agrees(store, q)
  BY DEF Apart, Fresh, Held, Agrees
<1> QED
  BY <1>1, TypedSeat, PlainView

LEMMA QueuedSeat ==
  ASSUME NEW mode \in Modes
  PROVE  LET q == NewSeat("queued", mode) IN
         q \in Seats /\ q.phase = "queued" /\ q.round = 0 /\ q.correct = 0 /\ q.host = FALSE
<1>1. NoSeat \in Seats /\ "queued" \in Phases
  BY NoSeatType DEF Phases
<1>2. NewSeat("queued", mode) \in Seats
  BY <1>1, Zenon DEF NewSeat, Seats
<1> QED
  BY <1>2 DEF NewSeat, NoSeat

LEMMA WaitingSeat ==
  ASSUME NEW mode \in Modes
  PROVE  LET t == NewSeat("waiting", mode) IN
         /\ t \in Seats /\ t.phase = "waiting" /\ t.round = 0 /\ t.correct = 0
         /\ t.mode = mode /\ t.others = 0
<1>1. NoSeat \in Seats /\ "waiting" \in Phases
  BY NoSeatType DEF Phases
<1>2. NewSeat("waiting", mode) \in Seats
  BY <1>1, Zenon DEF NewSeat, Seats
<1> QED
  BY <1>2 DEF NewSeat, NoSeat

\* The place of one who comes second, and of one who has made the room.
LEMMA WaitingSeats ==
  ASSUME NEW t \in Seats
  PROVE  /\ [t EXCEPT !.others = 1] \in Seats
         /\ [t EXCEPT !.host = TRUE] \in Seats
         /\ LET u == [t EXCEPT !.others = 1] IN
            u.phase = t.phase /\ u.round = t.round /\ u.correct = t.correct /\ u.mode = t.mode
         /\ LET u == [t EXCEPT !.host = TRUE] IN
            /\ u.phase = t.phase /\ u.round = t.round /\ u.correct = t.correct /\ u.mode = t.mode
            /\ u.others = t.others /\ u.host = TRUE
<1>1. 1 \in 0..1 /\ TRUE \in BOOLEAN
  OBVIOUS
<1>2. [t EXCEPT !.others = 1] \in Seats /\ [t EXCEPT !.host = TRUE] \in Seats
  BY <1>1, Zenon DEF Seats
<1> QED
  BY <1>2 DEF Seats

LEMMA JoinTellsOne ==
  ASSUME SeatInv, Take, StaysPut, NEW m, m = Head(wired), TakeJoin(m), seat' \in Seats,
         NEW type \in Spoken, Tell(<<Say(type)>>),
         NEW q \in Seats, q.phase = "queued", q.round = 0, q.correct = 0,
         Grows(q, seat') /\ Shows(type, q, seat'), Early(seat')
  PROVE  Shown'
<1>1. /\ PageInv /\ GameTypeOK /\ UNCHANGED <<store, wsRef>>
      /\ type \in MessageTypes \ {"game_state_sync"} /\ q.phase # "none"
      /\ ~crossed' => View(store, down, q, wsRef = "open")
  BY JoinFinds, AskingView DEF SeatInv, StaysPut, Spoken
<1>2. GameTypeOK' /\ ViewInv'
  BY <1>1, ServerTellsOne
<1>3. Say(type) = Message(type, seat') /\ Say(type) \in Said /\ Say(type).type = type /\ type # "error"
  BY <1>1, MessageSaid DEF Say, Message, Spoken
<1>4. down' = down \/ down' = Append(down, Say(type))
  BY <1>1, <1>3, TellOne
<1>5. ~crossed' => ~ErrorDown'
  <2>1. ErrorDown' => ErrorDown
    BY <1>1, <1>3, <1>4, ItemsDown
  <2>2. down = <<>> => ~ErrorDown
    BY NoItems DEF ErrorDown
  <2> QED
    BY <2>1, <2>2, JoinFinds
<1>6. ApartInv'
  BY <1>5, ApartJoined
<1> QED
  BY <1>2, <1>6 DEF Shown

LEMMA JoinTellsTwo ==
  ASSUME SeatInv, Take, StaysPut, NEW m, m = Head(wired), TakeJoin(m), seat' \in Seats,
         NEW type \in Spoken, NEW next \in Spoken, Tell(<<Say(type), Say(next)>>),
         NEW q \in Seats, q.phase = "queued", q.round = 0, q.correct = 0,
         Grows(q, seat') /\ ShowsTwo(type, next, q, seat'), Early(seat')
  PROVE  Shown'
<1>1. /\ PageInv /\ GameTypeOK /\ UNCHANGED <<store, wsRef>>
      /\ type \in MessageTypes \ {"game_state_sync"} /\ next \in MessageTypes \ {"game_state_sync"}
      /\ q.phase # "none"
      /\ ~crossed' => View(store, down, q, wsRef = "open")
  BY JoinFinds, AskingView DEF SeatInv, StaysPut, Spoken
<1> DEFINE msgs == <<Say(type), Say(next)>>
<1>d. msgs = <<Say(type), Say(next)>> /\ Tell(msgs)
  OBVIOUS
<1> HIDE DEF msgs
<1>2. GameTypeOK' /\ ViewInv'
  BY <1>1, <1>d, ServerTellsTwo
<1>3. /\ Say(type) = Message(type, seat') /\ Say(type) \in Said /\ Say(type).type # "error"
      /\ Say(next) = Message(next, seat') /\ Say(next) \in Said /\ Say(next).type # "error"
  BY <1>1, MessageSaid DEF Say, Message, Spoken
<1>4. down' = down \/ down' = Append(Append(down, Say(type)), Say(next))
  BY <1>1, <1>3, <1>d, TellTwo
<1>5. ~crossed' => ~ErrorDown'
  <2>1. ErrorDown' => ErrorDown
    BY <1>1, <1>3, <1>4, ItemsDownTwo
  <2>2. down = <<>> => ~ErrorDown
    BY NoItems DEF ErrorDown
  <2> QED
    BY <2>1, <2>2, JoinFinds
<1>6. ApartInv'
  BY <1>5, ApartJoined
<1> QED
  BY <1>2, <1>6 DEF Shown

\* A code that leads nowhere: the page is told so, and there is no seat.
LEMMA JoinRefused ==
  ASSUME SeatInv, Take, StaysPut, NEW m, m = Head(wired), TakeJoin(m), wsRef = "open",
         seat' = seat, Tell(<<Say("error")>>)
  PROVE  Shown'
<1> DEFINE e == Message("error", seat)
<1>1. e \in Said /\ Say("error") = e
  BY TypedSeat, MessageSaid DEF MessageTypes, Say, Message
<1> HIDE DEF e
<1>2. down' = Append(down, e)
  BY <1>1, TellOne DEF SeatInv
<1>3. GameTypeOK'
  BY <1>1, <1>2, TypedSeat, AppendProperties DEF GameTypeOK, StaysPut
<1>4. ASSUME ~crossed' PROVE Len(down') = 1 /\ View(store, down', seat, wsRef = "open") /\ Early(seat)
  <2>1. Apart /\ down = <<>> /\ ~crossed
    BY <1>4, JoinFinds
  <2>2. Len(down') = 1
    BY <1>1, <1>2, <2>1, TypedSeat, AppendProperties, EmptySeq
  <2> DEFINE v == [i \in {1} |-> store]
  <2>3. Chain(v, store, <<>>) /\ v[1] = store /\ Len(<<>>) + 1 = 1 /\ <<>> \in Seq(Said)
    <3>1. Chain(v, store, <<>>)
      BY TypedSeat, EmptyChain
    <3>2. v[1] = store
      OBVIOUS
    <3> HIDE DEF v
    <3> QED
      BY <3>1, <3>2, EmptySeq
  <2>4. v[Len(<<>>) + 1].round <= Handled(v[Len(<<>>) + 1], e).round
    <3>1. Fields(Handled(store, e), "idle", store.round, store.correct, store.count,
                 store.isHost, store.hostIsMe)
      BY TypedSeat, HandledFields, Zenon DEF e
    <3>2. store.round \in Nat
      BY TypedSeat DEF Stores
    <3>3. v[Len(<<>>) + 1] = store
      BY <2>3
    <3> HIDE DEF v
    <3> QED
      BY <3>1, <3>2, <3>3 DEF Fields
  <2> HIDE DEF v
  <2>5. \E u : Chain(u, store, Append(<<>>, e))
    BY <1>1, <2>3, <2>4, ChainGrows
  <2>6. View(store, down', seat, wsRef = "open")
    BY <1>2, <2>1, <2>5 DEF View, Apart
  <2>7. Early(seat)
    BY <2>1 DEF SeatInv, ApartInv
  <2> QED
    BY <2>2, <2>6, <2>7
<1>5. ViewInv'
  BY <1>4 DEF ViewInv, StaysPut
<1>6. ApartInv'
  BY <1>4, ApartJoined
<1> QED
  BY <1>3, <1>5, <1>6 DEF Shown

LEMMA TakeJoinShown ==
  ASSUME SeatInv, Take, NEW m, m = Head(wired), TakeJoin(m)
  PROVE  Shown'
<1>1. StaysPut /\ wsRef = "open"
  BY TakeStaysPut DEF TakeJoin
<1> DEFINE q == NewSeat("queued", "solo")
<1>2. /\ {"match_found", "player_joined", "queue_joined", "room_created"} \subseteq Spoken
      /\ "solo" \in Modes /\ "duel" \in Modes /\ "battle" \in Modes
  BY DEF Spoken, MessageTypes, Modes
<1>3. q \in Seats /\ q.phase = "queued" /\ q.round = 0 /\ q.correct = 0 /\ q.host = FALSE
  BY <1>2, QueuedSeat
<1> HIDE DEF q
<1>5. ASSUME NEW t, seat' = t, t \in Seats, t.phase = "waiting", t.round = 0, t.correct = 0,
             Tell(<<Say("match_found")>>)
      PROVE  Shown'
  <2>1. Grows(q, t) /\ Shows("match_found", q, t) /\ Early(t)
    BY <1>3, <1>5, MatchShows DEF Early
  <2> QED
    BY <1>1, <1>2, <1>3, <1>5, <2>1, JoinTellsOne
<1>6. CASE m.kind = "solo" /\ seat' = NewSeat("waiting", "solo") /\ Tell(<<Say("match_found")>>)
  <2> DEFINE t == NewSeat("waiting", "solo")
  <2>1. t \in Seats /\ t.phase = "waiting" /\ t.round = 0 /\ t.correct = 0
    BY <1>2, WaitingSeat
  <2>2. seat' = t /\ Tell(<<Say("match_found")>>)
    BY <1>6
  <2> HIDE DEF t
  <2> QED
    BY <1>5, <2>1, <2>2
<1>7. CASE /\ m.kind = "duel"
           /\ seat' = [NewSeat("waiting", "duel") EXCEPT !.others = 1]
           /\ Tell(<<Say("match_found")>>)
  <2> DEFINE b == NewSeat("waiting", "duel")
             t == [b EXCEPT !.others = 1]
  <2>b. /\ b \in Seats /\ b.phase = "waiting" /\ b.round = 0 /\ b.correct = 0
        /\ b.mode = "duel" /\ b.others = 0
    BY <1>2, WaitingSeat
  <2>d. seat' = t
    BY <1>7
  <2> HIDE DEF b
  <2>1. t \in Seats /\ t.phase = "waiting" /\ t.round = 0 /\ t.correct = 0
    BY <2>b, WaitingSeats
  <2> HIDE DEF t
  <2>2. seat' = t /\ Tell(<<Say("match_found")>>)
    BY <1>7, <2>d
  <2> QED
    BY <1>5, <2>1, <2>2
<1>8. CASE m.kind = "duel" /\ seat' = NewSeat("queued", "duel") /\ Tell(<<Say("queue_joined")>>)
  <2> DEFINE t == NewSeat("queued", "duel")
  <2>1. t \in Seats /\ t.phase = "queued" /\ t.round = 0 /\ t.correct = 0
    BY <1>2, QueuedSeat
  <2>2. seat' = t /\ Tell(<<Say("queue_joined")>>)
    BY <1>8
  <2> HIDE DEF t
  <2>3. Grows(t, t) /\ Shows("queue_joined", t, t) /\ Early(t)
    BY <2>1, QueueShows DEF Early
  <2> QED
    BY <1>1, <1>2, <2>1, <2>2, <2>3, JoinTellsOne
<1>9. CASE /\ m.kind = "create"
           /\ seat' = [NewSeat("waiting", "battle") EXCEPT !.host = TRUE]
           /\ Tell(<<Say("room_created")>>)
  <2> DEFINE b == NewSeat("waiting", "battle")
             t == [b EXCEPT !.host = TRUE]
  <2>b. /\ b \in Seats /\ b.phase = "waiting" /\ b.round = 0 /\ b.correct = 0
        /\ b.mode = "battle" /\ b.others = 0
    BY <1>2, WaitingSeat
  <2>d. seat' = t
    BY <1>9
  <2> HIDE DEF b
  <2>1. /\ t \in Seats /\ t.phase = "waiting" /\ t.round = 0 /\ t.correct = 0
        /\ t.host = TRUE /\ t.others = 0 /\ t.mode = "battle"
    BY <2>b, WaitingSeats
  <2>2. seat' = t /\ Tell(<<Say("room_created")>>)
    BY <1>9, <2>d
  <2> HIDE DEF t
  <2>3. Grows(q, t) /\ Shows("room_created", q, t) /\ Early(t)
    BY <1>3, <2>1, RoomShows DEF Early
  <2> QED
    BY <1>1, <1>2, <1>3, <2>1, <2>2, <2>3, JoinTellsOne
<1>10. CASE /\ m.kind = "enter"
            /\ seat' = [NewSeat("waiting", "battle") EXCEPT !.others = 1]
            /\ Tell(<<Say("match_found"), Say("player_joined")>>)
  <2> DEFINE b == NewSeat("waiting", "battle")
             t == [b EXCEPT !.others = 1]
  <2>b. /\ b \in Seats /\ b.phase = "waiting" /\ b.round = 0 /\ b.correct = 0
        /\ b.mode = "battle" /\ b.others = 0
    BY <1>2, WaitingSeat
  <2>d. seat' = t
    BY <1>10
  <2> HIDE DEF b
  <2>1. /\ t \in Seats /\ t.phase = "waiting" /\ t.round = 0 /\ t.correct = 0
        /\ t.mode = "battle"
    BY <2>b, WaitingSeats
  <2>2. seat' = t /\ Tell(<<Say("match_found"), Say("player_joined")>>)
    BY <1>10, <2>d
  <2> HIDE DEF t
  <2>3. Grows(q, t) /\ ShowsTwo("match_found", "player_joined", q, t) /\ Early(t)
    BY <1>3, <2>1, EnterShows DEF Early
  <2> QED
    BY <1>1, <1>2, <1>3, <2>1, <2>2, <2>3, JoinTellsTwo
<1>11. CASE m.kind = "enter" /\ UNCHANGED seat /\ Tell(<<Say("error")>>)
  BY <1>1, <1>11, JoinRefused
<1> QED
  BY <1>6, <1>7, <1>8, <1>9, <1>10, <1>11 DEF TakeJoin

LEMMA TakeReadyShown ==
  ASSUME SeatInv, Take, NEW m, TakeReady(m)
  PROVE  Shown'
<1>1. StaysPut
  BY TakeStaysPut DEF TakeReady
<1> DEFINE r == seat.ready \/ seat.phase = "waiting"
           t == [seat EXCEPT !.ready = r]
<1>2. r \in BOOLEAN
  BY Zenon
<1> HIDE DEF r
<1>3. t \in Seats /\ SameSeat(seat, t)
  BY <1>2, TypedSeat, Zenon DEF Seats, SameSeat
<1>4. seat' = t /\ down' = down
  BY TypedSeat DEF TakeReady, r, Seats
<1> HIDE DEF t
<1> QED
  BY <1>1, <1>3, <1>4, SameShown

\* A step of the server that the player is not concerned by.
LEMMA NothingShown == ASSUME SeatInv, StaysPut, UNCHANGED <<seat, down>> PROVE Shown'
  BY TypedSeat, SameShown DEF SameSeat

\* Only the host's page asks for the start, so that the server never refuses it.
LEMMA StartRefused ==
  ASSUME SeatInv, StaysPut, seat.phase # "none", UNCHANGED seat, crossed', Tell(<<Say("error")>>)
  PROVE  Shown'
<1> DEFINE e == Message("error", seat)
<1>1. e \in Said /\ Say("error") = e
  BY TypedSeat, MessageSaid DEF MessageTypes, Say, Message
<1> HIDE DEF e
<1>2. down' = IF wsRef = "open" THEN Append(down, e) ELSE down
  BY <1>1, TellOne DEF SeatInv
<1>3. GameTypeOK'
  BY <1>1, <1>2, TypedSeat, AppendProperties DEF GameTypeOK, StaysPut
<1> QED
  BY <1>3 DEF Shown, ApartInv, ViewInv

LEMMA TakeStartShown ==
  ASSUME SeatInv, Take, NEW m, m = Head(wired), TakeStart(m)
  PROVE  Shown'
<1>1. StaysPut
  <2>1. crossed => crossed'
    BY Zenon DEF TakeStart
  <2> QED
    BY <2>1, TakeStaysPut
<1>2. CASE /\ seat.host /\ seat.phase # "none"
           /\ seat' = [seat EXCEPT !.phase = "countdown", !.round = 0]
           /\ crossed' = (crossed \/ seat.phase # "waiting")
           /\ Tell(<<Say("countdown")>>)
  <2>1. ~crossed' => Early(seat) /\ seat.phase = "waiting"
    BY <1>2 DEF SeatInv, ApartInv
  <2> QED
    BY <1>1, <1>2, <2>1, CountdownShown
<1>3. CASE /\ ~seat.host /\ seat.phase \in InRoom \cup {"finished"}
           /\ UNCHANGED <<seat, crossed>>
           /\ Tell(<<Say("error")>>)
  <2>1. m \in Items(asked) /\ m.type = "start"
    <3>1. Taken /\ PageInv
      BY DEF Take, SeatInv
    <3>2. m = asked[1] /\ 1 \in 1..Len(asked)
      BY <3>1, TakenFirst
    <3> QED
      BY <3>2 DEF Items, TakeStart
  <2>2. StartAsked /\ seat.phase # "none"
    BY <1>3, <2>1 DEF StartAsked, InRoom, Active
  <2>3. crossed
    BY <1>3, <2>2 DEF SeatInv, ApartInv
  <2> QED
    BY <1>1, <1>3, <2>2, <2>3, StartRefused
<1>4. CASE UNCHANGED <<seat, down, crossed>>
  BY <1>1, <1>4, NothingShown
<1> QED
  BY <1>2, <1>3, <1>4 DEF TakeStart

LEMMA TakeHitShown ==
  ASSUME SeatInv, Take, NEW m, TakeHit(m)
  PROVE  Shown'
<1>1. StaysPut /\ (~crossed' => ~crossed)
  BY TakeStaysPut DEF TakeHit
<1>2. CASE UNCHANGED <<seat, down>>
  BY <1>1, <1>2, NothingShown
<1>3. ASSUME seat.phase \in {"playing", "round_end"}, NEW gain \in 0..1,
             LET ends == gain = 1 /\ seat.mode # "battle" IN
             /\ seat' = [seat EXCEPT !.answered = TRUE, !.correct = @ + gain,
                                     !.phase = IF ends THEN "round_end" ELSE @]
             /\ Tell(<<Say("score_update")>> \o IF ends THEN <<Say("round_end")>> ELSE <<>>)
      PROVE  Shown'
  <2>1. seat.phase # "none" /\ "score_update" \in Spoken /\ "round_end" \in Spoken
    BY <1>3 DEF Spoken, MessageTypes
  <2>2. CASE gain = 1 /\ seat.mode # "battle"
    <3> DEFINE t == [seat EXCEPT !.answered = TRUE, !.correct = @ + 1, !.phase = "round_end"]
               msgs == <<Say("score_update")>> \o <<Say("round_end")>>
    <3>1. seat' = t /\ Tell(msgs)
      BY <1>3, <2>2
    <3>2. Grows(seat, t) /\ ShowsTwo("score_update", "round_end", seat, t)
      BY <1>3, TypedSeat, LastScoreShows
    <3>3. t.phase = "round_end"
      BY TypedSeat DEF Seats
    <3> HIDE DEF t
    <3>4. t \in Seats /\ Early(t)
      BY <3>2, <3>3 DEF Grows, Early
    <3> QED
      BY <1>1, <2>1, <3>1, <3>2, <3>4, RoomTellsTwo
  <2>3. CASE ~(gain = 1 /\ seat.mode # "battle")
    <3> DEFINE t == [seat EXCEPT !.answered = TRUE, !.correct = @ + gain]
    <3>1. seat' = t
      BY <1>3, <2>3, TypedSeat DEF Seats
    <3>2. Tell(<<Say("score_update")>> \o <<>>)
      BY <1>3, <2>3
    <3>3. <<Say("score_update")>> \o <<>> = <<Say("score_update")>>
      <4>1. <<Say("score_update")>> \in Seq({Say("score_update")})
        OBVIOUS
      <4> QED
        BY <4>1, ConcatEmptySeq
    <3>4. Grows(seat, t) /\ Shows("score_update", seat, t)
      BY <1>3, TypedSeat, ScoreShows
    <3>5. t.phase = seat.phase
      BY TypedSeat DEF Seats
    <3> HIDE DEF t
    <3>6. t \in Seats /\ Early(t) /\ Tell(<<Say("score_update")>>)
      BY <1>3, <3>2, <3>3, <3>4, <3>5 DEF Grows, Early
    <3> QED
      BY <1>1, <2>1, <3>1, <3>4, <3>6, RoomTellsOne
  <2> QED
    BY <2>2, <2>3
<1> QED
  BY <1>2, <1>3 DEF TakeHit

LEMMA TakeShown == ASSUME SeatInv, Take PROVE Shown'
  BY TakeJoinShown, TakeReadyShown, TakeStartShown, TakeHitShown DEF Take

-----------------------------------------------------------------------------
(***************************************************************************)
(* The steps of the player, the page and the link.                         *)
(***************************************************************************)
LEMMA InitialStore ==
  ASSUME NEW state \in Screens, NEW mode \in Modes
  PROVE  LET st == [initialStore EXCEPT !.mode = mode, !.state = state] IN
         st \in Stores /\ Fresh(st) /\ st.state = state
<1>1. 0 \in Nat /\ "idle" \in Screens /\ "solo" \in Modes
  BY DEF Screens, Modes
<1>2. initialStore \in Stores
  BY <1>1, Zenon DEF initialStore, Stores
<1>3. [initialStore EXCEPT !.mode = mode, !.state = state] \in Stores
  BY <1>2, Zenon DEF Stores
<1> QED
  BY <1>3 DEF initialStore, Fresh, IsHost

LEMMA EmptyStore == initialStore \in Stores /\ Fresh(initialStore) /\ initialStore.state = "idle"
<1>1. 0 \in Nat /\ "idle" \in Screens /\ "solo" \in Modes
  BY DEF Screens, Modes
<1>2. initialStore \in Stores
  BY <1>1, Zenon DEF initialStore, Stores
<1> QED
  BY <1>2 DEF initialStore, Fresh, IsHost

\* A request is made from a page without a game: the server's view of it is empty.
LEMMA RequestShown ==
  ASSUME SeatInv, NEW kind \in Kinds, Request(kind), again' \in {0, again},
         store.state = "idle" \/ again > 0
  PROVE  Shown'
<1>1. /\ UNCHANGED <<seat, down, crossed, asked>>
      /\ hasty' = hasty \cup Waiting
      /\ store' = [initialStore EXCEPT !.mode = ModeOf(kind),
                               !.state = IF kind = "create" THEN "creating_room" ELSE "queuing"]
  BY DEF Request, Show, Connect
<1>2. /\ ModeOf(kind) \in Modes
      /\ (IF kind = "create" THEN "creating_room" ELSE "queuing") \in Screens
  BY GameAssumption DEF ModeOf, Modes, Screens
<1>3. store' \in Stores /\ Fresh(store') /\ store'.state \in {"creating_room", "queuing"}
  BY <1>1, <1>2, InitialStore
<1>4. GameTypeOK'
  BY <1>1, <1>3, TypedSeat DEF GameTypeOK
<1>5. ASSUME ~crossed
      PROVE  Apart /\ down = <<>> /\ Early(seat) /\ (again > 0 => \A j \in JoinsIn(asked) : j.game \in hasty)
  BY <1>5 DEF SeatInv, ApartInv
<1>6. ASSUME ~crossed'
      PROVE  /\ Apart' /\ down' = <<>> /\ Asking' /\ ~ErrorDown' /\ Early(seat)'
             /\ again' > 0 => \A j \in JoinsIn(asked)' : j.game \in hasty'
  <2>1. Apart /\ down = <<>> /\ Early(seat) /\ (again > 0 => \A j \in JoinsIn(asked) : j.game \in hasty)
    BY <1>1, <1>5, <1>6
  <2>2. Apart'
    BY <1>1, <1>3, <2>1 DEF Apart, StartAsked
  <2>3. ~ErrorDown'
    BY <1>1, <2>1, NoItems DEF ErrorDown
  <2>4. Asking' /\ Early(seat)'
    BY <1>1, <1>3, <2>1 DEF Asking, Early
  <2>5. JoinsIn(asked)' = JoinsIn(asked)
    BY <1>1 DEF JoinsIn, Items
  <2> QED
    BY <1>1, <2>1, <2>2, <2>3, <2>4, <2>5
<1>7. ApartInv'
  BY <1>6, Zenon DEF ApartInv, Apart
<1>8. ViewInv'
  <2>1. ASSUME ~crossed' PROVE View(store', down', seat', wsRef' = "open")
    <3>1. down' = <<>> /\ seat'.phase = "none" /\ seat' \in Seats
      BY <1>1, <1>6, <2>1, TypedSeat DEF Apart
    <3> QED
      BY <1>3, <3>1, PlainView
  <2> QED
    BY <2>1 DEF ViewInv
<1> QED
  BY <1>4, <1>7, <1>8 DEF Shown

\* Leaving takes everything off the page and off the connection.
LEMMA LeaveShown == ASSUME SeatInv, LeaveGame, again' \in {again, game} PROVE Shown'
<1>1. /\ asked' = <<>> /\ down' = <<>> /\ store' = initialStore
      /\ hasty' = hasty \cup Waiting /\ delayed' = delayed
      /\ game' = game /\ crossed' = (seat' # NoSeat)
      /\ seat' \in {seat, NoSeat}
  BY DEF LeaveGame, Disconnect, Show
<1>2. GameTypeOK'
  BY <1>1, TypedSeat, NoSeatType, EmptyStore, EmptySeq DEF GameTypeOK
<1>3. ~StartAsked' /\ ~ErrorDown' /\ JoinsIn(asked)' = {}
  BY <1>1, NoItems DEF StartAsked, ErrorDown
<1>4. ~Wanted'
  BY <1>1, <1>3 DEF Wanted, Waiting
<1>5. ASSUME ~crossed' PROVE Apart' /\ Early(seat)'
  BY <1>1, <1>3, <1>5, EmptyStore, NoSeatType DEF Apart, Early
<1>6. ApartInv'
  BY <1>1, <1>3, <1>4, <1>5, Zenon DEF ApartInv
<1>7. ViewInv'
  <2>1. ASSUME ~crossed' PROVE View(store', down', seat', wsRef' = "open")
    <3>1. View(initialStore, <<>>, NoSeat, wsRef' = "open")
      BY EmptyStore, NoSeatType, PlainView
    <3>2. seat' = NoSeat
      BY <1>1, <2>1
    <3> QED
      BY <1>1, <3>1, <3>2
  <2> QED
    BY <2>1 DEF ViewInv
<1> QED
  BY <1>2, <1>6, <1>7 DEF Shown

\* Sending something other than the start, and no join that was not waiting.
LEMMA SendShown ==
  ASSUME SeatInv, NEW m \in Sendable, Send(m), UNCHANGED <<store, seat, down, again, hasty, game, crossed>>,
         (delayed \cup JoinsIn(asked))' \subseteq delayed \cup JoinsIn(asked),
         again > 0 /\ ~crossed => \A j \in JoinsIn(asked)' : j.game \in hasty,
         m.type = "start" => AmIHost /\ ~Asking /\ store.state # "idle"
  PROVE  Shown'
<1>1. wsRef' = wsRef
  BY DEF Send
<1>2. GameTypeOK' /\ ViewInv'
  BY <1>1 DEF SeatInv, GameTypeOK, ViewInv
<1>3. asked' = Append(asked, m) /\ Items(asked)' = Items(asked) \cup {m}
  <2>1. PageInv
    BY DEF SeatInv
  <2>2. asked' = Append(asked, m) /\ asked \in Seq(Messages) /\ m \in Messages
    BY <2>1, SendAdds
  <2> QED
    BY <2>2, ItemsOfAppend
<1>4. /\ Wanted' => Wanted
      /\ StartAsked' => StartAsked \/ m.type = "start"
      /\ ErrorDown' = ErrorDown /\ Asking' = Asking /\ Early(seat)' = Early(seat)
  BY <1>3 DEF Wanted, StartAsked, ErrorDown, Asking, Early
<1>5. ApartInv'
  <2> SUFFICES ASSUME ~crossed PROVE ApartInv'
    BY DEF ApartInv
  <2>1. CASE m.type # "start"
    <3>1. Apart => Apart'
      BY <1>4, <2>1 DEF Apart
    <3>2. StartAsked' => StartAsked
      BY <1>4, <2>1
    <3> QED
      BY <1>4, <3>1, <3>2, Zenon DEF SeatInv, ApartInv
  <2>2. CASE m.type = "start"
    <3>1. IsHost(store) /\ ~Asking /\ store.state # "idle"
      BY <2>2 DEF AmIHost, IsHost
    <3>2. ~Apart
      BY <3>1 DEF Apart, Fresh
    <3>3. ~Wanted /\ ~(again > 0) /\ ~ErrorDown /\ Early(seat)
      BY <3>1, <3>2, Zenon DEF SeatInv, ApartInv
    <3>4. seat.phase # "none" => seat.host
      <4>1. PICK v : /\ Chain(v, store, down)
                     /\ seat.phase # "none" => \A i \in 1..Len(down) + 1 : Held(v[i], seat)
        BY DEF SeatInv, ViewInv, View
      <4>2. 1 \in 1..Len(down) + 1
        BY TypedSeat, LenProperties
      <4> QED
        BY <3>1, <4>1, <4>2 DEF Chain, Held
    <3> QED
      BY <1>4, <3>1, <3>3, <3>4, Zenon DEF ApartInv
  <2> QED
    BY <2>1, <2>2
<1> QED
  BY <1>2, <1>5 DEF Shown

LEMMA PlayerSendsShown == ASSUME SeatInv, Ready \/ StartGame \/ Hit PROVE Shown'
<1>1. PICK m \in {Plain("ready"), Plain("start"), Plain("hit")} :
        /\ Send(m)
        /\ m = Plain("start") => store.state = "in_lobby" /\ AmIHost
  <2>1. Plain("ready") # Plain("start") /\ Plain("hit") # Plain("start")
    BY DEF Plain
  <2> QED
    BY <2>1 DEF Ready, StartGame, Hit
<1>2. UNCHANGED <<store, seat, down, again, hasty, game, crossed, delayed>>
  BY DEF Ready, StartGame, Hit
<1>3. m \in Sendable /\ m.type # "join" /\ (m.type = "start" => m = Plain("start"))
  BY DEF Sendable, Plain
<1>4. JoinsIn(asked)' = JoinsIn(asked)
  BY <1>1, <1>3, SendAdds DEF SeatInv
<1>5. again > 0 /\ ~crossed => \A j \in JoinsIn(asked)' : j.game \in hasty
  BY <1>4 DEF SeatInv, ApartInv
<1>6. m.type = "start" => AmIHost /\ ~Asking /\ store.state # "idle"
  BY <1>1, <1>3 DEF Asking
<1> QED
  BY <1>1, <1>2, <1>3, <1>4, <1>5, <1>6, SendShown

LEMMA SendJoinShown == ASSUME SeatInv, NEW j \in delayed, SendJoin(j) PROVE Shown'
<1>1. Send(j) /\ UNCHANGED <<store, seat, down, again, hasty, game, crossed>> /\ delayed' = delayed \ {j}
  BY DEF SendJoin
<1>2. j \in Sendable /\ j.type = "join"
  BY DEF SeatInv, PageInv, JoinsAreKnown, Sendable, Join
<1>3. JoinsIn(asked)' = JoinsIn(asked) \cup {j}
  BY <1>1, <1>2, SendAdds DEF SeatInv
<1>4. again > 0 => j.game \in hasty
  BY DEF SendJoin, SeatInv, LateInv
<1>5. again > 0 /\ ~crossed => \A k \in JoinsIn(asked)' : k.game \in hasty
  BY <1>3, <1>4 DEF SeatInv, ApartInv
<1> QED
  BY <1>1, <1>2, <1>3, <1>5, SendShown

\* A message arrives: the page moves along the chain.
LEMMA DeliverView ==
  ASSUME SeatInv, Deliver, ~crossed
  PROVE  /\ store.round <= store'.round
         /\ View(store', down', seat, wsRef = "open")
<1>1. down # <<>> /\ down' = Tail(down) /\ store' = Handled(store, Head(down))
  BY DEF Deliver, Show
<1>2. PICK v : /\ Chain(v, store, down)
               /\ seat.phase # "none" => \A i \in 1..Len(down) + 1 : Held(v[i], seat)
               /\ seat.phase # "none" /\ wsRef = "open" => Agrees(v[Len(down) + 1], seat)
  BY DEF SeatInv, ViewInv, View
<1>3. v[2] = Handled(store, Head(down)) /\ store.round <= v[2].round
  BY <1>1, <1>2, TypedSeat, ChainShrinks
<1>4. PICK u : /\ Chain(u, v[2], Tail(down))
               /\ u[Len(Tail(down)) + 1] = v[Len(down) + 1]
               /\ \A i \in 1..Len(Tail(down)) + 1 : u[i] = v[i + 1] /\ i + 1 \in 1..Len(down) + 1
  BY <1>1, <1>2, TypedSeat, ChainShrinks
<1>5. seat.phase # "none" => \A i \in 1..Len(Tail(down)) + 1 : Held(u[i], seat)
  BY <1>2, <1>4
<1>6. seat.phase # "none" /\ wsRef = "open" => Agrees(u[Len(Tail(down)) + 1], seat)
  BY <1>2, <1>4
<1>7. View(v[2], Tail(down), seat, wsRef = "open")
  BY <1>4, <1>5, <1>6 DEF View
<1> QED
  BY <1>1, <1>3, <1>7

LEMMA OnlyErrorsEnd ==
  ASSUME NEW w \in Stores, w.state # "idle", NEW m \in Said, m.type # "error"
  PROVE  Handled(w, m).state # "idle"
<1> DEFINE t == m.seat
<1>1. /\ m.type \in MessageTypes \ {"error"} /\ m = Message(m.type, t)
      /\ (m.type = "game_state_sync" => ScreenOf(t.phase) # "idle")
  BY DEF Said, Message, ScreenOf, Active
<1> HIDE DEF t
<1>2. Handled(w, Message("queue_joined", t)).state = "queuing"
  <2>1. Fields(Handled(w, Message("queue_joined", t)),
               "queuing", w.round, w.correct, w.count, w.isHost, w.hostIsMe)
    BY HandledFields, Zenon
  <2> QED
    BY <2>1 DEF Fields
<1>3. Handled(w, Message("room_created", t)).state = "in_lobby"
  <2>1. Fields(Handled(w, Message("room_created", t)),
               "in_lobby", w.round, w.correct, 1, TRUE, w.hostIsMe)
    BY HandledFields, Zenon
  <2> QED
    BY <2>1 DEF Fields
<1>4. Handled(w, Message("player_joined", t)).state = w.state
  <2>1. Fields(Handled(w, Message("player_joined", t)),
               w.state, w.round, w.correct, t.others + 1, w.isHost, t.host)
    BY HandledFields, Zenon
  <2> QED
    BY <2>1 DEF Fields
<1>5. Handled(w, Message("player_left", t)).state = w.state
  <2>1. Fields(Handled(w, Message("player_left", t)),
               w.state, w.round, w.correct, t.others + 1, w.isHost, t.host)
    BY HandledFields, Zenon
  <2> QED
    BY <2>1 DEF Fields
<1>6. Handled(w, Message("countdown", t)).state = "countdown"
  <2>1. Fields(Handled(w, Message("countdown", t)),
               "countdown", w.round, w.correct, w.count, w.isHost, w.hostIsMe)
    BY HandledFields, Zenon
  <2> QED
    BY <2>1 DEF Fields
<1>7. Handled(w, Message("round_start", t)).state = "playing"
  <2>1. Fields(Handled(w, Message("round_start", t)),
               "playing", t.round, w.correct, w.count, w.isHost, w.hostIsMe)
    BY HandledFields, Zenon
  <2> QED
    BY <2>1 DEF Fields
<1>8. Handled(w, Message("score_update", t)).state = w.state
  <2>1. Fields(Handled(w, Message("score_update", t)),
               w.state, w.round, t.correct, w.count, w.isHost, w.hostIsMe)
    BY HandledFields, Zenon
  <2> QED
    BY <2>1 DEF Fields
<1>9. Handled(w, Message("round_end", t)).state = "round_end"
  <2>1. Fields(Handled(w, Message("round_end", t)),
               "round_end", w.round, w.correct, w.count, w.isHost, w.hostIsMe)
    BY HandledFields, Zenon
  <2> QED
    BY <2>1 DEF Fields
<1>10. Handled(w, Message("game_over", t)).state = "game_over"
  <2>1. Fields(Handled(w, Message("game_over", t)),
               "game_over", w.round, w.correct, w.count, w.isHost, w.hostIsMe)
    BY HandledFields, Zenon
  <2> QED
    BY <2>1 DEF Fields
<1>11. Handled(w, Message("opponent_left", t)).state = "game_over"
  <2>1. Fields(Handled(w, Message("opponent_left", t)),
               "game_over", w.round, w.correct, w.count, w.isHost, w.hostIsMe)
    BY HandledFields, Zenon
  <2> QED
    BY <2>1 DEF Fields
<1>12. Handled(w, Message("host_changed", t)).state = w.state
  <2>1. Fields(Handled(w, Message("host_changed", t)),
               w.state, w.round, w.correct, w.count, w.isHost, t.host)
    BY HandledFields, Zenon
  <2> QED
    BY <2>1 DEF Fields
<1>13. CASE m.type = "match_found"
  <2>1. CASE t.mode = "battle"
    <3>1. Fields(Handled(w, Message("match_found", t)),
                 "in_lobby", w.round, w.correct, t.others + 1, t.host, t.host)
      BY <2>1, HandledFields, Zenon
    <3> QED
      BY <1>1, <1>13, <3>1 DEF Fields
  <2>2. CASE t.mode # "battle"
    <3>1. Fields(Handled(w, Message("match_found", t)),
                 "matched", w.round, w.correct, 2, t.host, t.host)
      BY <2>2, HandledFields, Zenon
    <3> QED
      BY <1>1, <1>13, <3>1 DEF Fields
  <2> QED
    BY <2>1, <2>2
<1>14. CASE m.type = "game_state_sync"
  <2>1. Fields(Handled(w, Message("game_state_sync", t)),
               ScreenOf(t.phase), t.round, t.correct, t.others + 1, w.isHost, w.hostIsMe)
    BY HandledFields, Zenon
  <2> QED
    BY <1>1, <1>14, <2>1 DEF Fields
<1> QED
  BY <1>1, <1>2, <1>3, <1>4, <1>5, <1>6, <1>7, <1>8, <1>9, <1>10, <1>11, <1>12, <1>13, <1>14
  DEF MessageTypes

LEMMA DeliverShown == ASSUME SeatInv, Deliver PROVE Shown'
<1>1. /\ down # <<>> /\ down' = Tail(down) /\ store' = Handled(store, Head(down))
      /\ UNCHANGED <<wsRef, asked, delayed, again, seat, game, crossed>>
      /\ hasty' = IF store'.state = "idle" THEN hasty \cup Waiting ELSE hasty
  BY DEF Deliver, Show, wsVars
<1>2. /\ Head(down) \in Said /\ down' \in Seq(Said) /\ Len(down') = Len(down) - 1
      /\ Head(down) = down[1] /\ 1 \in 1..Len(down) /\ Len(down) \in Nat \ {0}
      /\ \A i \in 1..Len(down') : down'[i] = down[i + 1] /\ i + 1 \in 1..Len(down)
  <2>1. /\ Head(down) \in Said /\ down' \in Seq(Said) /\ Len(down') = Len(down) - 1
        /\ \A i \in 1..Len(down') : down'[i] = down[i + 1]
    BY <1>1, TypedSeat, HeadTailProperties
  <2>2. Len(down) \in Nat \ {0} /\ Head(down) = down[1]
    BY <1>1, TypedSeat, EmptySeq
  <2> QED
    BY <2>1, <2>2
<1>3. GameTypeOK'
  BY <1>1, <1>2, TypedSeat, HandledType DEF GameTypeOK
<1>4. ViewInv'
  BY <1>1, DeliverView DEF ViewInv
<1>5. ApartInv'
  <2> SUFFICES ASSUME ~crossed PROVE ApartInv'
    BY <1>1 DEF ApartInv
  <2>1. ~Wanted /\ ~(again > 0) /\ store.state # "idle" /\ Early(seat)
        /\ (ErrorDown => Apart /\ Len(down) = 1) /\ (StartAsked => seat.host \/ seat.phase = "none")
    BY <1>1, Zenon DEF SeatInv, ApartInv
  <2>2. ~Wanted' /\ ~(again' > 0) /\ Early(seat)' /\ StartAsked' = StartAsked
    <3>1. JoinsIn(asked)' = JoinsIn(asked)
      BY <1>1 DEF JoinsIn, Items
    <3> QED
      BY <1>1, <2>1, <3>1 DEF Wanted, Early, StartAsked, Items
  <2>3. ErrorDown' => ErrorDown /\ Len(down) # 1
    <3>1. ASSUME NEW i \in 1..Len(down'), down'[i].type = "error" PROVE ErrorDown /\ Len(down) # 1
      <4>1. down[i + 1].type = "error" /\ i + 1 \in 1..Len(down)
        BY <1>2, <3>1
      <4> QED
        BY <1>2, <4>1 DEF ErrorDown, Items
    <3> QED
      BY <3>1 DEF ErrorDown, Items
  <2>4. ~ErrorDown'
    BY <2>1, <2>3
  <2>5. ASSUME store'.state = "idle" PROVE Apart' /\ down' = <<>>
    <3> DEFINE m == Head(down)
    <3>1. m.type = "error"
      <4>1. m.type # "error" => Handled(store, m).state # "idle"
        BY <1>2, <2>1, TypedSeat, OnlyErrorsEnd
      <4> QED
        BY <1>1, <2>5, <4>1
    <3>2. ErrorDown
      BY <1>2, <3>1 DEF ErrorDown, Items
    <3>3. Apart /\ Len(down) = 1
      BY <2>1, <3>2
    <3>4. down' = <<>>
      BY <1>2, <3>3, EmptySeq
    <3>5. Fresh(store')
      <4>1. m = Message("error", m.seat)
        BY <1>2, <3>1 DEF Said, Message
      <4> HIDE DEF m
      <4>2. Fields(Handled(store, m), "idle", store.round, store.correct, store.count,
                   store.isHost, store.hostIsMe)
        BY <4>1, TypedSeat, HandledFields, Zenon
      <4>3. store' = Handled(store, m)
        BY <1>1 DEF m
      <4> QED
        BY <3>3, <4>2, <4>3 DEF Apart, Fresh, IsHost, Fields
    <3>6. Apart'
      BY <1>1, <2>2, <3>3, <3>5 DEF Apart
    <3> QED
      BY <3>4, <3>6
  <2>6. StartAsked' => seat'.host \/ seat'.phase = "none"
    BY <1>1, <2>1, <2>2
  <2> QED
    BY <2>2, <2>4, <2>5, <2>6, Zenon DEF ApartInv
<1> QED
  BY <1>3, <1>4, <1>5 DEF Shown

-----------------------------------------------------------------------------
\* What the page shows while something is under way is never ahead of the seat.
LEMMA PageIsHeld ==
  ASSUME SeatInv, ~crossed, seat.phase # "none" PROVE Held(store, seat)
<1>1. PICK v : /\ Chain(v, store, down)
               /\ \A i \in 1..Len(down) + 1 : Held(v[i], seat)
  BY DEF SeatInv, ViewInv, View
<1>2. 1 \in 1..Len(down) + 1
  BY TypedSeat, LenProperties
<1> QED
  BY <1>1, <1>2 DEF Chain

\* What an event of the connection does with the seat and with what is under way to the page.
Restored ==
  /\ down = <<>> /\ seat.phase \in Active /\ UNCHANGED seat /\ wsRef' = "open"
  /\ down' = <<Message("game_state_sync", seat)>>

LEMMA LinkCases ==
  ASSUME SeatInv, Link
  PROVE  \/ UNCHANGED <<seat, down>> /\ (wsRef' = "open") = (wsRef = "open")
         \/ seat' = seat /\ down' = <<>> /\ wsRef' # "open"
         \/ seat' = NoSeat /\ down' = <<>>
         \/ Restored
<1>1. wsRef # "open" => down = <<>>
  BY DEF SeatInv, PageInv, DownIsOpen
<1> QED
  BY <1>1 DEF Link, Restored, Message

LEMMA LinkShown == ASSUME SeatInv, Link PROVE Shown'
<1>1. UNCHANGED <<store, delayed, again, hasty, game, crossed>>
  BY DEF Link
<1>2. Items(asked)' \subseteq Items(asked) /\ JoinsIn(asked)' \subseteq JoinsIn(asked)
  <2>1. PageInv /\ asked \in Seq(Messages)
    BY DEF SeatInv, PageInv, OrderInv, TypeOK
  <2>2. asked' \in Seq(Messages)
    <3>1. PageInv'
      BY <2>1, PageStep DEF Next
    <3> QED
      BY <3>1 DEF PageInv, OrderInv, TypeOK
  <2>3. Suffix(asked', asked)
    BY <2>1, LinkSuffix
  <2> QED
    BY <2>1, <2>2, <2>3, SuffixProperties
<1>3. /\ Wanted' => Wanted
      /\ StartAsked' => StartAsked
      /\ Asking' = Asking
  BY <1>1, <1>2 DEF Wanted, StartAsked, Asking
<1>t. store \in Stores /\ seat \in Seats /\ down \in Seq(Said)
  BY TypedSeat
<1>4. CASE UNCHANGED <<seat, down>> /\ (wsRef' = "open") = (wsRef = "open")
  <2>1. GameTypeOK'
    BY <1>1, <1>4, <1>t DEF GameTypeOK
  <2>2. ViewInv'
    BY <1>1, <1>4 DEF SeatInv, ViewInv
  <2>3. ApartInv'
    <3>1. /\ ErrorDown' = ErrorDown /\ Early(seat)' = Early(seat)
          /\ Apart => Apart'
      BY <1>1, <1>3, <1>4 DEF ErrorDown, Early, Apart
    <3> QED
      BY <1>1, <1>2, <1>3, <1>4, <3>1 DEF SeatInv, ApartInv
  <2> QED
    BY <2>1, <2>2, <2>3 DEF Shown
<1>5. CASE \/ seat' = seat /\ down' = <<>> /\ wsRef' # "open"
           \/ seat' = NoSeat /\ down' = <<>>
  <2>1. seat' \in Seats /\ down' \in Seq(Said) /\ GameTypeOK'
    BY <1>1, <1>5, <1>t, NoSeatType, EmptySeq DEF GameTypeOK
  <2>2. ViewInv'
    <3>1. ASSUME ~crossed' PROVE View(store', down', seat', wsRef' = "open")
      <4>1. seat'.phase # "none" => Held(store, seat') /\ (wsRef' = "open" => Agrees(store, seat'))
        BY <1>1, <1>5, <3>1, PageIsHeld, NoSeatType
      <4>2. View(store, <<>>, seat', wsRef' = "open")
        BY <1>t, <2>1, <4>1, PlainView
      <4> QED
        BY <1>1, <1>5, <4>2
    <3> QED
      BY <3>1 DEF ViewInv
  <2>3. ApartInv'
    <3>1. /\ ~ErrorDown'
          /\ ~crossed /\ Early(seat) => Early(seat)'
          /\ Apart => Apart'
          /\ seat'.host => seat.host
      <4>1. ~ErrorDown'
        BY <1>5, NoItems DEF ErrorDown
      <4>2. Early(seat) => Early(seat)'
        BY <1>5, NoSeatType DEF Early
      <4>3. Apart => Apart'
        BY <1>1, <1>3, <1>5, NoSeatType DEF Apart
      <4>4. seat'.host => seat.host
        BY <1>5 DEF NoSeat
      <4> QED
        BY <4>1, <4>2, <4>3, <4>4
    <3>2. down' = <<>> /\ (seat.host \/ seat.phase = "none" => seat'.host \/ seat'.phase = "none")
      BY <1>5, NoSeatType
    <3> QED
      BY <1>1, <1>2, <1>3, <3>1, <3>2 DEF SeatInv, ApartInv
  <2> QED
    BY <2>1, <2>2, <2>3 DEF Shown
<1>6. CASE Restored
  <2> DEFINE m == Message("game_state_sync", seat)
  <2>1. /\ down = <<>> /\ seat.phase \in Active /\ seat' = seat /\ wsRef' = "open" /\ down' = <<m>>
        /\ seat.phase # "none" /\ m.type # "error"
    BY <1>6 DEF Restored, Active, Message
  <2>2. m \in Said
    BY <1>t, <2>1 DEF Message, Said, MessageTypes
  <2> HIDE DEF m
  <2>3. down' = Append(<<>>, m) /\ <<>> \in Seq(Said)
    BY <2>1
  <2>4. GameTypeOK'
    BY <1>1, <1>t, <2>1, <2>2 DEF GameTypeOK
  <2>5. ViewInv'
    <3>1. ASSUME ~crossed' PROVE View(store', down', seat', wsRef' = "open")
      <4>1. Held(store, seat)
        BY <1>1, <2>1, <3>1, PageIsHeld
      <4>2. store.round <= Handled(store, m).round /\ Follows(Handled(store, m), seat)
        BY <1>t, <2>1, <4>1, SyncShows DEF m
      <4> DEFINE v == [i \in {1} |-> store]
      <4>3. Chain(v, store, <<>>)
        BY <1>t, EmptyChain
      <4>4. v[Len(<<>>) + 1] = store /\ \A i \in 1..Len(<<>>) + 1 : v[i] = store
        BY <4>3, EmptySeq, ChainOfNothing
      <4> HIDE DEF v
      <4>5. View(store, Append(<<>>, m), seat, TRUE)
        BY <1>t, <2>2, <2>3, <4>1, <4>2, <4>3, <4>4, ToldOne
      <4>6. (wsRef' = "open") = TRUE
        BY <2>1
      <4> QED
        BY <1>1, <2>1, <2>3, <4>5, <4>6
    <3> QED
      BY <3>1 DEF ViewInv
  <2>6. ApartInv'
    <3>1. ASSUME ~crossed
          PROVE  /\ ~Wanted /\ store.state # "idle" /\ ~(again > 0)
                 /\ StartAsked => seat.host \/ seat.phase = "none"
                 /\ Early(seat)
      <4>1. ~Apart
        BY <2>1 DEF Apart
      <4> QED
        BY <3>1, <4>1, Zenon DEF SeatInv, ApartInv
    <3>2. ~ErrorDown'
      <4>1. Items(Append(down, m)) = Items(down) \cup {m}
        BY <1>t, <2>2, ItemsOfAppend
      <4> QED
        BY <2>1, <2>3, <4>1, NoItems DEF ErrorDown
    <3>3. Early(seat)' = Early(seat)
      BY <2>1 DEF Early
    <3>4. ASSUME ~crossed'
          PROVE  /\ ~Wanted' /\ ~(store'.state = "idle") /\ ~(again' > 0)
                 /\ StartAsked' => seat'.host \/ seat'.phase = "none"
                 /\ Early(seat)'
      BY <1>1, <1>3, <2>1, <3>1, <3>3, <3>4
    <3> QED
      BY <3>2, <3>4, Zenon DEF ApartInv
  <2> QED
    BY <2>4, <2>5, <2>6 DEF Shown
<1> QED
  BY <1>4, <1>5, <1>6, LinkCases

-----------------------------------------------------------------------------
(***************************************************************************)
(* Every step keeps the page and the seat together.                        *)
(***************************************************************************)
LEMMA SeatStep == SeatInv /\ [Next]_vars => SeatInv'
<1> SUFFICES ASSUME SeatInv, [Next]_vars PROVE SeatInv'
  OBVIOUS
<1>1. PageInv' /\ LateInv' /\ Once'
  BY PageStep, LateStep, OnceStep DEF SeatInv
<1>2. Shown'
  <2>1. ASSUME NEW kind \in Kinds, Start(kind) PROVE Shown'
    <3>1. Request(kind) /\ store.state = "idle" /\ again' = again
      BY <2>1 DEF Start
    <3> QED
      BY <3>1, RequestShown
  <2>2. CASE AgainFires
    <3>1. again > 0 /\ again' = 0
      BY <2>2 DEF AgainFires
    <3>2. PICK kind \in Kinds : Request(kind)
      BY <2>2 DEF AgainFires
    <3> QED
      BY <3>1, <3>2, RequestShown
  <2>3. CASE Leave \/ PlayAgain
    <3>1. LeaveGame /\ again' \in {again, game}
      BY <2>3 DEF Leave, PlayAgain
    <3> QED
      BY <3>1, LeaveShown
  <2>4. CASE UNCHANGED vars
    <3>1. StaysPut /\ UNCHANGED <<seat, down>>
      BY <2>4 DEF StaysPut, vars, wsVars, gameVars, Items
    <3> QED
      BY <3>1, NothingShown
  <2> QED
    BY <2>1, <2>2, <2>3, <2>4, PlayerSendsShown, DeliverShown, SendJoinShown, LinkShown, TakeShown,
       RoomMovesShown, GameCases
<1> QED
  BY <1>1, <1>2 DEF SeatInv, Shown

LEMMA SeatInit == Init => SeatInv
<1> SUFFICES ASSUME Init PROVE SeatInv
  OBVIOUS
<1>1. /\ store = initialStore /\ delayed = {} /\ again = 0 /\ seat = NoSeat /\ down = <<>>
      /\ game = 0 /\ hasty = {} /\ asked = <<>>
  BY DEF Init, WsInit
<1>2. LateInv
  <2>1. JoinsIn(msgQueue) = {}
    BY NoItems DEF Init, WsInit
  <2> QED
    BY <1>1, <2>1 DEF LateInv
<1>3. JoinsIn(asked) = {} /\ Items(asked) = {} /\ Items(down) = {} /\ Len(asked) = 0
  BY <1>1, NoItems, EmptySeq
<1>4. Once
  BY <1>1, <1>3 DEF Once, OneEach
<1>5. GameTypeOK
  BY <1>1, EmptyStore, NoSeatType, EmptySeq DEF GameTypeOK
<1>6. ApartInv
  <2>1. ~Wanted /\ ~StartAsked /\ ~ErrorDown
    BY <1>1, <1>3 DEF Wanted, StartAsked, ErrorDown
  <2>2. Apart /\ Early(seat)
    BY <1>1, <2>1, EmptyStore, NoSeatType DEF Apart
  <2>3. ~(again > 0)
    BY <1>1
  <2> QED
    BY <1>1, <2>1, <2>2, <2>3, Zenon DEF ApartInv
<1>7. ViewInv
  BY <1>1, EmptyStore, NoSeatType, PlainView DEF ViewInv
<1> QED
  BY <1>2, <1>4, <1>5, <1>6, <1>7, PageInit DEF SeatInv

LEMMA SeatFacts == Spec => []SeatInv
  BY SeatInit, SeatStep, PTL DEF Spec

\* Once what the server said has arrived, the page shows what the room does, whatever was lost,
\* resumed or asked for before.
THEOREM TheScreenFollows == Spec => []ScreenFollowsRoom
<1>1. SeatInv => ScreenFollowsRoom
  <2> SUFFICES ASSUME SeatInv, Quiet, seat.phase \in InRoom PROVE
        /\ store.state = CASE seat.phase = "waiting" -> IF seat.mode = "battle" THEN "in_lobby" ELSE "matched"
                           [] seat.phase = "left"    -> "game_over"
                           [] OTHER                  -> seat.phase
        /\ OnCanvas(store) => store.round = seat.round /\ store.correct = seat.correct
        /\ store.state = "in_lobby" /\ seat.mode = "battle" =>
             /\ store.count = seat.others + 1
             /\ AmIHost = seat.host
    BY DEF ScreenFollowsRoom
  <2>1. /\ wsRef = "open" /\ down = <<>> /\ ~crossed
        /\ seat.phase \notin {"none", "queued", "finished"}
    BY DEF Quiet, InRoom, Active
  <2>2. Agrees(store, seat)
    <3>1. PICK v : /\ Chain(v, store, <<>>) /\ Agrees(v[Len(<<>>) + 1], seat)
      BY <2>1 DEF SeatInv, ViewInv, View
    <3>2. Len(<<>>) + 1 \in 1..Len(<<>>) + 1
      BY EmptySeq
    <3> QED
      BY <3>1, <3>2, ChainOfNothing
  <2>3. store.state = ScreenFor(seat)
    BY <2>1, <2>2 DEF Agrees
  <2>4. store.state = "in_lobby" => seat.phase = "waiting"
    BY <2>1, <2>3, TypedSeat, SeatFields DEF ScreenFor, Phases
  <2>5. AmIHost = IsHost(store)
    BY DEF AmIHost, IsHost
  <2>6. store.state = CASE seat.phase = "waiting" -> IF seat.mode = "battle" THEN "in_lobby" ELSE "matched"
                        [] seat.phase = "left"    -> "game_over"
                        [] OTHER                  -> seat.phase
    BY <2>1, <2>3 DEF ScreenFor
  <2> QED
    BY <2>2, <2>4, <2>5, <2>6 DEF Agrees
<1> QED
  BY <1>1, SeatFacts, PTL

\* The rounds of a game are shown in their order.
THEOREM RoundsComeInOrder == Spec => RoundsInOrder
<1>1. SeatInv /\ [Next]_vars => [~crossed /\ store'.round < store.round => store'.state # "playing"]_vars
  <2> SUFFICES ASSUME SeatInv, [Next]_vars, ~crossed, store'.round < store.round
               PROVE  store'.state # "playing"
    OBVIOUS
  <2>1. store.round \in Nat
    BY TypedSeat DEF Stores
  <2>2. ASSUME NEW kind \in Kinds, Request(kind) PROVE store'.state # "playing"
    BY <2>2 DEF Request, Show, initialStore
  <2>3. CASE (\E kind \in Kinds : Start(kind)) \/ AgainFires
    BY <2>2, <2>3 DEF Start, AgainFires
  <2>4. CASE Leave \/ PlayAgain
    BY <2>4 DEF Leave, PlayAgain, LeaveGame, Show, initialStore
  <2>5. CASE Deliver
    <3>1. store.round <= store'.round /\ store'.round \in Nat
      <4>1. store.round <= store'.round
        BY <2>5, DeliverView
      <4>2. Shown'
        BY <2>5, DeliverShown
      <4>3. store' \in Stores
        BY <4>2 DEF Shown, GameTypeOK
      <4> QED
        BY <4>1, <4>3 DEF Stores
    <3> QED
      BY <2>1, <3>1
  <2>6. CASE store' = store
    BY <2>1, <2>6
  <2>7. CASE \/ Ready \/ StartGame \/ Hit \/ (\E j \in delayed : SendJoin(j))
             \/ Link \/ Take \/ RoomMoves \/ UNCHANGED vars
    BY <2>6, <2>7 DEF Ready, StartGame, Hit, SendJoin, Link, Take, RoomMoves, ServerStep, vars, gameVars
  <2> QED
    BY <2>3, <2>4, <2>5, <2>7, GameCases
<1> QED
  BY <1>1, SeatFacts, PTL DEF Spec, RoundsInOrder
=============================================================================
