------------------------------ MODULE WsClient ------------------------------
(***************************************************************************)
(* The browser's connection hook, useWebSocket: one WebSocket at a time,   *)
(* the messages that wait for it, and the timers that bring it back.  The  *)
(* browser's WebSocket is external: once close() was called no open and no *)
(* message event comes any more, only the close event, at any later time.  *)
(***************************************************************************)
EXTENDS Naturals, Sequences

CONSTANTS
  Messages,     \* what the game hook sends
  MaxAttempts,  \* MAX_RECONNECT_ATTEMPTS
  Losses,       \* what may become of the token while the page is open
  MaxSends,     \* bound: messages the server has not taken yet
  MaxForgotten  \* bound: forgotten sockets and timers when the user acts

ASSUME BoundsAssumption ==
  /\ Losses \subseteq {"none", "expired", "garbled"}
  /\ MaxAttempts \in Nat \ {0}
  /\ MaxSends \in Nat /\ MaxForgotten \in Nat

VARIABLES
  wsRef,              \* ready state of the socket wsRef holds, "null" when it holds none
  closing,            \* sockets wsRef let go of whose close event is still to come
  stray,              \* sockets wsRef let go of while they could still carry messages
  connected,          \* what the hook tells the page
  msgQueue,           \* messages that wait for the connection
  reconnectAttempts,
  latest,             \* the timer reconnectTimer refers to is pending
  orphans,            \* pending timers whose handle a later one has overwritten
  intentionalClose,
  token,              \* the token in localStorage
  refused,            \* onAuthFailed was called since the last socket was made
  asked,              \* history: what send() was given, the server has not taken, and neither a
                      \*          disconnect nor the end of a socket has lost
  wired               \* what the socket was given and the server has not taken

sockets == <<wsRef, closing, stray>>
timers  == <<latest, orphans>>
traffic == <<msgQueue, asked, wired>>
wsVars  == <<wsRef, closing, stray, connected, msgQueue, reconnectAttempts, latest, orphans,
             intentionalClose, token, refused, asked, wired>>

Live    == {"connecting", "open"}
Tokens  == {"none", "valid", "expired", "garbled"}
Codes   == {"abnormal", "other"}     \* 1006, or any other close code

TypeOK ==
  /\ wsRef \in Live \cup {"closing", "closed", "null"}
  /\ closing \in Nat /\ stray \in Nat /\ orphans \in Nat
  /\ connected \in BOOLEAN /\ latest \in BOOLEAN
  /\ intentionalClose \in BOOLEAN /\ refused \in BOOLEAN
  /\ reconnectAttempts \in 0..MaxAttempts
  /\ token \in Tokens
  /\ msgQueue \in Seq(Messages) /\ asked \in Seq(Messages) /\ wired \in Seq(Messages)

WsInit ==
  /\ wsRef = "null" /\ closing = 0 /\ stray = 0
  /\ connected = FALSE
  /\ msgQueue = <<>> /\ asked = <<>> /\ wired = <<>>
  /\ reconnectAttempts = 0 /\ latest = FALSE /\ orphans = 0
  /\ intentionalClose = FALSE /\ refused = FALSE
  /\ token = "valid"

-----------------------------------------------------------------------------
(* The calls of the game hook. *)

\* wsRef is given another value while its socket is in ready state st.
LetGo(st) ==
  /\ closing' = IF st = "closing" THEN closing + 1 ELSE closing
  /\ stray' = IF st \in Live THEN stray + 1 ELSE stray

\* WebSocket.close()
AfterClose(st) == IF st \in Live THEN "closing" ELSE st

\* Seeded fault: a socket is made although one is open or on its way.
DialBlindly ==
  /\ LetGo(wsRef)
  /\ wsRef' = "connecting"
  /\ intentionalClose' = FALSE
  /\ refused' = FALSE

\* connect(): keeps a socket that is open or on its way, else makes one.
Dial ==
  IF wsRef \in Live
  THEN UNCHANGED <<wsRef, closing, stray, intentionalClose, refused>>
  ELSE /\ LetGo(wsRef)
       /\ wsRef' = "connecting"
       /\ intentionalClose' = FALSE
       /\ refused' = FALSE

\* Bound: the user waits when letting go of a socket in state st would make too many forgotten
\* sockets and timers.
Calm(st) == closing + stray + orphans + (IF st = "closing" THEN 1 ELSE 0) <= MaxForgotten

Connect ==
  /\ Calm(wsRef)
  /\ Dial
  /\ UNCHANGED <<connected, msgQueue, reconnectAttempts, latest, orphans, token, asked, wired>>

\* send(): over the socket when it is open, else into the queue.
Send(m) ==
  /\ Len(asked) < MaxSends
  /\ asked' = Append(asked, m)
  /\ IF wsRef = "open"
     THEN wired' = Append(wired, m) /\ UNCHANGED msgQueue
     ELSE msgQueue' = Append(msgQueue, m) /\ UNCHANGED wired
  /\ UNCHANGED <<wsRef, closing, stray, connected, reconnectAttempts, latest, orphans,
                 intentionalClose, token, refused>>

\* Seeded fault: the reconnect timer is left running.
DisconnectWithTimer ==
  /\ Calm(AfterClose(wsRef))
  /\ intentionalClose' = TRUE
  /\ reconnectAttempts' = 0
  /\ msgQueue' = <<>>
  /\ LetGo(AfterClose(wsRef))
  /\ wsRef' = "null"
  /\ connected' = FALSE
  /\ asked' = <<>> /\ wired' = <<>>
  /\ UNCHANGED <<latest, orphans, token, refused>>

\* Seeded fault: what waits for the connection outlives the game.
DisconnectWithQueue ==
  /\ Calm(AfterClose(wsRef))
  /\ intentionalClose' = TRUE
  /\ latest' = FALSE
  /\ reconnectAttempts' = 0
  /\ LetGo(AfterClose(wsRef))
  /\ wsRef' = "null"
  /\ connected' = FALSE
  /\ asked' = msgQueue /\ wired' = <<>>
  /\ UNCHANGED <<msgQueue, orphans, token, refused>>

\* disconnect(): only the timer that reconnectTimer refers to is cleared.
Disconnect ==
  /\ Calm(AfterClose(wsRef))
  /\ intentionalClose' = TRUE
  /\ latest' = FALSE
  /\ reconnectAttempts' = 0
  /\ msgQueue' = <<>>
  /\ LetGo(AfterClose(wsRef))
  /\ wsRef' = "null"
  /\ connected' = FALSE
  /\ asked' = <<>> /\ wired' = <<>>
  /\ UNCHANGED <<orphans, token, refused>>

-----------------------------------------------------------------------------
(* The events of the browser. *)

\* Seeded fault: the queue is sent and kept.
OpenedTwice ==
  /\ wsRef = "connecting"
  /\ token = "valid"
  /\ wsRef' = "open"
  /\ connected' = TRUE
  /\ reconnectAttempts' = 0
  /\ wired' = wired \o msgQueue
  /\ UNCHANGED <<closing, stray, msgQueue, latest, orphans, intentionalClose, token, refused, asked>>

\* onopen: the server has accepted the token, and the queue is flushed.
Opened ==
  /\ wsRef = "connecting"
  /\ token = "valid"
  /\ wsRef' = "open"
  /\ connected' = TRUE
  /\ reconnectAttempts' = 0
  /\ wired' = wired \o msgQueue
  /\ msgQueue' = <<>>
  /\ UNCHANGED <<closing, stray, latest, orphans, intentionalClose, token, refused, asked>>

\* The eight seconds are over and the socket is still not open.
ConnectTimeout ==
  /\ wsRef = "connecting"
  /\ wsRef' = AfterClose(wsRef)
  /\ UNCHANGED <<closing, stray, connected, msgQueue, reconnectAttempts, latest, orphans,
                 intentionalClose, token, refused, asked, wired>>

\* What was on the wire goes with the socket.
WireLost ==
  /\ asked' = SubSeq(asked, Len(wired) + 1, Len(asked))
  /\ wired' = <<>>

\* The server takes the first message off the wire.
Taken ==
  /\ wsRef = "open" /\ wired # <<>>
  /\ wired' = Tail(wired) /\ asked' = SubSeq(asked, 2, Len(asked))
  /\ UNCHANGED <<sockets, connected, msgQueue, reconnectAttempts, timers, intentionalClose, token,
                 refused>>

\* The server's close frame has arrived, the close event has not been fired yet.
PeerCloses ==
  /\ wsRef = "open"
  /\ wsRef' = "closing"
  /\ WireLost
  /\ UNCHANGED <<closing, stray, connected, msgQueue, reconnectAttempts, latest, orphans,
                 intentionalClose, token, refused>>

\* A first attempt that fails without a close frame, with a token the server must refuse.
Rejected(code) ==
  /\ ~intentionalClose /\ code = "abnormal" /\ reconnectAttempts = 0
  /\ token \in {"none", "expired"}

\* What onclose does when it does not reconnect, and when it does.
GiveUp == UNCHANGED <<reconnectAttempts, latest, orphans>>

Schedule ==
  /\ reconnectAttempts' = reconnectAttempts + 1
  /\ latest' = TRUE
  /\ orphans' = IF latest THEN orphans + 1 ELSE orphans

\* Seeded fault: the server's own closes are taken for final.
RetryAbnormal(code) ==
  IF ~intentionalClose /\ reconnectAttempts < MaxAttempts /\ code = "abnormal" THEN Schedule ELSE GiveUp

\* Seeded fault: no end to the attempts.
RetryForever(code) == IF ~intentionalClose THEN Schedule ELSE GiveUp

Retry(code) ==
  IF ~intentionalClose /\ reconnectAttempts < MaxAttempts THEN Schedule ELSE GiveUp

\* onclose, of whichever socket: it never asks whether the socket is still wsRef's.
OnClose(code) ==
  /\ connected' = FALSE
  /\ IF Rejected(code)
     THEN refused' = TRUE /\ token' = "none" /\ GiveUp
     ELSE Retry(code) /\ UNCHANGED <<refused, token>>
  /\ UNCHANGED <<intentionalClose, msgQueue>>

Closed(code) ==
  /\ wsRef \in Live \cup {"closing"}
  /\ wsRef' = "closed"
  /\ WireLost
  /\ OnClose(code)
  /\ UNCHANGED <<closing, stray>>

StaleClosed(code) ==
  /\ closing > 0
  /\ closing' = closing - 1
  /\ OnClose(code)
  /\ UNCHANGED <<wsRef, stray, asked, wired>>

\* A reconnect timer fires, the latest one or one that nobody can clear any more.
TimerFires ==
  /\ \/ latest /\ latest' = FALSE /\ UNCHANGED orphans
     \/ orphans > 0 /\ orphans' = orphans - 1 /\ UNCHANGED latest
  /\ Dial
  /\ UNCHANGED <<connected, msgQueue, reconnectAttempts, token, asked, wired>>

\* The 72 hours of the token are over, or another tab has logged out.
TokenLost ==
  /\ token = "valid"
  /\ token' \in Losses
  /\ UNCHANGED <<wsRef, closing, stray, connected, msgQueue, reconnectAttempts, latest, orphans,
                 intentionalClose, refused, asked, wired>>

Events ==
  \/ Opened \/ ConnectTimeout \/ PeerCloses \/ TimerFires
  \/ \E code \in Codes : Closed(code) \/ StaleClosed(code)

WsNext ==
  \/ Connect \/ Disconnect \/ Events \/ TokenLost \/ Taken
  \/ \E m \in Messages : Send(m)

WsSpec == WsInit /\ [][WsNext]_wsVars

-----------------------------------------------------------------------------
(* Properties. *)

\* Whatever the timers, timeouts and calls of connect() do in whichever order, a socket that can
\* still carry messages is the one wsRef holds: the player is never connected twice.
NoStray == stray = 0

\* What send() was given reaches the server in that order and once: what is on the wire, and then
\* what waits in the queue.  A socket takes with it only what it was given; the queue survives it.
InOrder == asked = wired \o msgQueue

\* A connection that ended against the player's will comes back: a timer is pending unless the
\* attempts are used up or the token was refused.  Late closes of other sockets take none away.
AlwaysAWayBack ==
  wsRef = "closed" /\ ~intentionalClose =>
    latest \/ orphans > 0 \/ reconnectAttempts = MaxAttempts \/ refused

\* After disconnect() the hook holds no socket, claims no connection and has no timer it knows of;
\* only a timer it has lost track of can open a connection again.
HungUpIsQuiet == intentionalClose => wsRef = "null" /\ ~latest /\ ~connected

\* What waits for the connection is sent, unless the game is left, the token is refused or the
\* attempts are used up.
QueueDrains ==
  (msgQueue # <<>> /\ wsRef # "null")
    ~> (msgQueue = <<>> \/ refused \/ reconnectAttempts = MaxAttempts)
=============================================================================
