-------------------------------- MODULE Hub ---------------------------------
(***************************************************************************)
(* The hub of one pod without Redis: backend/internal/ws/hub.go with the   *)
(* local queue of matchmaker.go and the readers of client.go.              *)
(*                                                                         *)
(* Three kinds of goroutines meet here: Hub.Run, which handles one         *)
(* registration or unregistration at a time (`run` is where it is), one    *)
(* reader per connection, which handles one message at a time (`busy`),    *)
(* and the callbacks of grace timers.  A step is a critical section of     *)
(* h.mu, m.mu or r.mu, or the reading of a field between two of them.      *)
(* m.mu is held across the steps of a match (`match`), as in the code.     *)
(*                                                                         *)
(* The inside of a game is not here: a room has the phase and the members  *)
(* of RoomContract, which Room implements, and is played and finished at   *)
(* any moment the contract allows.                                         *)
(***************************************************************************)
EXTENDS Naturals, Sequences, SequencesExt, FiniteSets

CONSTANTS
  Clients,     \* connection objects (*Client)
  Users,       \* user IDs
  UserOf,      \* the user a connection was authenticated as
  Buckets,     \* what players may queue for: language, level, quiz type, mode
  NoClient,    \* "no connection"
  MaxRooms,    \* bound: rooms ever created
  MaxMessages, \* bound: messages handled, of all connections together
  MaxDropped   \* maxDisconnectedPlayers, 500 in the code

ASSUME HubUsers  == UserOf \in [Clients -> Users] /\ NoClient \notin Clients
ASSUME HubBounds == MaxRooms \in Nat /\ MaxMessages \in Nat /\ MaxDropped \in Nat

VARIABLES
  link,        \* a connection's life: "idle", "open", "exiting", "closed"
  busy,        \* what the reader of each connection is in the middle of
  run,         \* what Hub.Run is in the middle of, and for which connection
  clientRoom,  \* Client.Room
  queue,       \* Matchmaker.queue
  match,       \* the match being made under m.mu, see NoMatch
  entry,       \* h.disconnectedPlayers: user -> dropped connection
  timer,       \* grace timers: "none", "running", "fired", "removing"
  kind,        \* Room.Mode, "none" while the room does not exist
  phase,       \* RoomContract's phase
  members,     \* keys of Room.Players
  listed,      \* the rooms in h.Rooms and h.RoomByCode
  closing,     \* the rooms a go Hub.RemoveRoom is pending for
  refused,     \* history: dropped connections whose room was finished on return
  messages     \* history: messages whose handling has begun

connections == <<link, busy, clientRoom, refused>>
matchmaker  == <<queue, match>>
graces      == <<entry, timer>>
rooms       == <<kind, phase, members, listed, closing>>
vars        == <<connections, matchmaker, graces, rooms, run, messages>>

Rooms   == 1..MaxRooms
NoRoom  == 0
NoMatch == [step |-> "none", room |-> NoRoom, guest |-> NoClient]
Free    == [op |-> "none", room |-> NoRoom]
Entries == [client : Clients, bucket : Buckets]
Handling == [op : {"none", "joining", "matching", "leaving", "unqueueing"},
             room : Rooms \cup {NoRoom}]
Idle    == [op |-> "idle", c |-> NoClient, old |-> NoClient]

\* The smallest of a set of numbers, as a set.
First(I)  == {i \in I : \A j \in I : i <= j}

Born      == {r \in Rooms : kind[r] # "none"}
NewRoom   == First(Rooms \ Born)
Online(c) == link[c] \in {"open", "exiting"}
InMap     == {u \in Users : entry[u] # NoClient}

Init ==
  /\ link = [c \in Clients |-> "idle"]
  /\ busy = [c \in Clients |-> Free]
  /\ run = Idle
  /\ clientRoom = [c \in Clients |-> NoRoom]
  /\ queue = << >> /\ match = NoMatch
  /\ entry = [u \in Users |-> NoClient]
  /\ timer = [c \in Clients |-> "none"]
  /\ kind = [r \in Rooms |-> "none"]
  /\ phase = [r \in Rooms |-> "waiting"]
  /\ members = [r \in Rooms |-> {}]
  /\ listed = {} /\ closing = {} /\ refused = {}
  /\ messages = 0

-----------------------------------------------------------------------------
(* Rooms, as the hub uses them. *)

\* NewRoom and the AddPlayer that follows it.
OpenRoom(r, k, c) ==
  /\ kind' = [kind EXCEPT ![r] = k]
  /\ members' = [members EXCEPT ![r] = {c}]
  /\ clientRoom' = [clientRoom EXCEPT ![c] = r]

\* Seeded fault: a full or started room is entered without a seat in it.
EnterRegardless(r, c) ==
  /\ clientRoom' = [clientRoom EXCEPT ![c] = r]
  /\ members' = IF phase[r] = "waiting"
                  THEN [members EXCEPT ![r] = @ \cup {c}] ELSE members

\* Seeded fault: a join that comes after the start is let in.
EnterStarted(r, c) ==
  /\ members' = [members EXCEPT ![r] = @ \cup {c}]
  /\ clientRoom' = [clientRoom EXCEPT ![c] = r]

\* r.AddPlayer(c): its caller looks at the result only to report it.
AddPlayer(r, c) ==
  IF phase[r] = "waiting" /\ (kind[r] = "duel" => Cardinality(members[r]) < 2)
    THEN /\ members' = [members EXCEPT ![r] = @ \cup {c}]
         /\ clientRoom' = [clientRoom EXCEPT ![c] = r]
    ELSE UNCHANGED <<members, clientRoom>>

\* r.RemovePlayer(c), also for a c that is no member any more.
RemovePlayer(r, c) ==
  /\ members' = [members EXCEPT ![r] = @ \ {c}]
  /\ phase' = IF kind[r] = "duel" THEN [phase EXCEPT ![r] = "finished"] ELSE phase
  /\ closing' = IF kind[r] = "battle" /\ phase[r] # "finished" /\ members'[r] = {}
                  THEN closing \cup {r} ELSE closing
  /\ UNCHANGED <<kind, listed>>

\* The game is started, or goes on after it was finished: RoomContract!Play.
Play(r) ==
  /\ r \in Born
  /\ phase[r] = "waiting" /\ kind[r] = "duel" => Cardinality(members[r]) = 2
  /\ phase' = [phase EXCEPT ![r] = "active"]
  /\ UNCHANGED <<connections, matchmaker, graces, kind, members, listed,
                 closing, run, messages>>

\* finishGame.
EndGame(r) ==
  /\ r \in Born
  /\ phase[r] # "waiting"
  /\ phase' = [phase EXCEPT ![r] = "finished"]
  /\ closing' = closing \cup {r}
  /\ UNCHANGED <<connections, matchmaker, graces, kind, members, listed, run,
                 messages>>

RemoveRoom(r) ==
  /\ r \in closing
  /\ closing' = closing \ {r}
  /\ listed' = listed \ {r}
  /\ UNCHANGED <<connections, matchmaker, graces, kind, phase, members, run,
                 messages>>

-----------------------------------------------------------------------------
(* Messages, handled by the reader of the connection. *)

\* The reader of c takes the next message.
Handles(c) ==
  /\ link[c] = "open" /\ busy[c] = Free
  /\ messages < MaxMessages
  /\ messages' = messages + 1

\* create_room, and join_queue for solo practice: nobody else knows the room
\* before AddRoom lists it.
CreateRoom(c, k) ==
  /\ Handles(c)
  /\ \E r \in NewRoom : OpenRoom(r, k, c) /\ listed' = listed \cup {r}
  /\ UNCHANGED <<link, busy, refused, matchmaker, graces, phase, closing, run>>

\* join_room finds the room and lets go of h.mu.  Only codes of battles are told.
LookUpRoom(c, r) ==
  /\ Handles(c)
  /\ r \in listed /\ kind[r] = "battle"
  /\ busy' = [busy EXCEPT ![c] = [op |-> "joining", room |-> r]]
  /\ UNCHANGED <<link, clientRoom, refused, matchmaker, graces, rooms, run>>

EnterRoom(c) ==
  /\ busy[c].op = "joining"
  /\ AddPlayer(busy[c].room, c)
  /\ busy' = [busy EXCEPT ![c] = Free]
  /\ UNCHANGED <<link, refused, matchmaker, graces, kind, phase, listed,
                 closing, run, messages>>

\* Seeded fault: the same user may wait twice.
WaitsTwice(u) == FALSE

Waits(u) == \E i \in DOMAIN queue : UserOf[queue[i].client] = u

Candidates(b) == {i \in DOMAIN queue : queue[i].bucket = b}
EntriesOf(u)  == {i \in DOMAIN queue : UserOf[queue[i].client] = u}

\* join_queue, for a player who has to wait.
JoinQueue(c, b) ==
  /\ Handles(c) /\ match = NoMatch
  /\ ~Waits(UserOf[c]) /\ Candidates(b) = {}
  /\ queue' = Append(queue, [client |-> c, bucket |-> b])
  /\ UNCHANGED <<connections, match, graces, rooms, run>>

\* join_queue, for a player whose opponent waits: the opponent gets its seat, then
\* the player (GuestEnters), then the room is listed (ListMatch), all under m.mu.
MeetOpponent(c, b) ==
  /\ Handles(c) /\ match = NoMatch
  /\ ~Waits(UserOf[c])
  /\ \E i \in First(Candidates(b)), r \in NewRoom :
       /\ OpenRoom(r, "duel", queue[i].client)
       /\ queue' = RemoveAt(queue, i)
       /\ match' = [step |-> "guest", room |-> r, guest |-> c]
       /\ busy' = [busy EXCEPT ![c] = [op |-> "matching", room |-> r]]
  /\ UNCHANGED <<link, refused, graces, phase, listed, closing, run>>

GuestEnters ==
  /\ match.step = "guest"
  /\ AddPlayer(match.room, match.guest)
  /\ match' = [match EXCEPT !.step = "list"]
  /\ UNCHANGED <<link, busy, refused, queue, graces, kind, phase, listed,
                 closing, run, messages>>

ListMatch ==
  /\ match.step = "list"
  /\ listed' = listed \cup {match.room}
  /\ busy' = [busy EXCEPT ![match.guest] = Free]
  /\ match' = NoMatch
  /\ UNCHANGED <<link, clientRoom, refused, queue, graces, kind, phase, members,
                 closing, run, messages>>

\* leave_room: RemovePlayer, then SetRoom(nil), then Matchmaker.Remove.
LeaveRoom(c) ==
  /\ Handles(c)
  /\ IF clientRoom[c] = NoRoom
       THEN /\ busy' = [busy EXCEPT ![c] = [op |-> "unqueueing", room |-> NoRoom]]
            /\ UNCHANGED rooms
       ELSE /\ RemovePlayer(clientRoom[c], c)
            /\ busy' = [busy EXCEPT ![c] = [op |-> "leaving", room |-> clientRoom[c]]]
  /\ UNCHANGED <<link, clientRoom, refused, matchmaker, graces, run>>

\* Seeded fault: client.Room keeps pointing at the room it left.
RememberRoom(c) == UNCHANGED clientRoom

SetRoomNil(c) == clientRoom' = [clientRoom EXCEPT ![c] = NoRoom]

ForgetRoom(c) ==
  /\ busy[c].op = "leaving"
  /\ SetRoomNil(c)
  /\ busy' = [busy EXCEPT ![c] = [op |-> "unqueueing", room |-> NoRoom]]
  /\ UNCHANGED <<link, refused, matchmaker, graces, rooms, run, messages>>

\* Seeded fault: Matchmaker.Remove does not find the entry.
MissEntry(u) == match = NoMatch /\ UNCHANGED queue

\* Matchmaker.Remove: the first entry of the user, whichever connection made it.
Unqueue(u) ==
  /\ match = NoMatch
  /\ IF EntriesOf(u) = {}
       THEN UNCHANGED queue
       ELSE \E i \in First(EntriesOf(u)) : queue' = RemoveAt(queue, i)

LeaveQueue(c) ==
  /\ busy[c].op = "unqueueing"
  /\ match = NoMatch
  /\ Unqueue(UserOf[c])
  /\ busy' = [busy EXCEPT ![c] = Free]
  /\ UNCHANGED <<link, clientRoom, refused, match, graces, rooms, run,
                 messages>>

\* The socket breaks: the reader waits for Hub.Run to receive its Unregister.
Drop(c) ==
  /\ link[c] = "open" /\ busy[c] = Free
  /\ link' = [link EXCEPT ![c] = "exiting"]
  /\ UNCHANGED <<busy, clientRoom, refused, matchmaker, graces, rooms, run,
                 messages>>

-----------------------------------------------------------------------------
(* Hub.Run: registration and reconnection. *)

\* The connection's reader starts when Hub.Run has received it.
Register(c) ==
  /\ run = Idle
  /\ link[c] = "idle"
  /\ link' = [link EXCEPT ![c] = "open"]
  /\ run' = [op |-> "registered", c |-> c, old |-> NoClient]
  /\ UNCHANGED <<busy, clientRoom, refused, matchmaker, graces, rooms,
                 messages>>

\* Seeded fault: the entry outlives the reconnection.
KeepEntry(u) == UNCHANGED entry

DeleteEntry(u) == entry' = [entry EXCEPT ![u] = NoClient]

\* tryReconnect under h.mu.  Stop() is too late for a timer that has fired.
TakeEntry ==
  /\ run.op = "registered"
  /\ LET old == entry[UserOf[run.c]] IN
       IF old = NoClient
         THEN run' = Idle /\ UNCHANGED graces
         ELSE /\ DeleteEntry(UserOf[run.c])
              /\ timer' = [timer EXCEPT ![old] = IF @ = "running" THEN "none" ELSE @]
              /\ run' = [run EXCEPT !.op = "taking", !.old = old]
  /\ UNCHANGED <<connections, matchmaker, rooms, messages>>

\* dp.Room.ReconnectPlayer(old, new).
TakeSeat ==
  /\ run.op = "taking"
  /\ LET old == run.old
         r   == clientRoom[old] IN
       IF phase[r] # "finished" /\ old \in members[r]
         THEN /\ members' = [members EXCEPT ![r] = (@ \ {old}) \cup {run.c}]
              /\ clientRoom' = [clientRoom EXCEPT ![run.c] = r]
              /\ UNCHANGED refused
         ELSE /\ refused' = refused \cup {old}
              /\ UNCHANGED <<members, clientRoom>>
  /\ run' = Idle
  /\ UNCHANGED <<link, busy, matchmaker, graces, kind, phase, listed, closing,
                 messages>>

-----------------------------------------------------------------------------
(* Hub.Run: unregistration, and the grace period. *)

Unregister(c) ==
  /\ run = Idle
  /\ link[c] = "exiting"
  /\ link' = [link EXCEPT ![c] = "closed"]
  /\ run' = [op |-> "closed", c |-> c, old |-> NoClient]
  /\ UNCHANGED <<busy, clientRoom, refused, matchmaker, graces, rooms,
                 messages>>

RemoveFromQueue ==
  /\ run.op = "closed"
  /\ match = NoMatch
  /\ Unqueue(UserOf[run.c])
  /\ run' = [run EXCEPT !.op = "unqueued"]
  /\ UNCHANGED <<connections, match, graces, rooms, messages>>

\* Seeded fault: whether the client is in a room at all is not asked.
ActWithoutRoom(r) ==
  [run EXCEPT !.op = IF r \in Rooms /\ phase[r] = "active" THEN "gracing" ELSE "removing"]

\* Seeded fault: a room that waits for its start keeps the seat, without a timer.
ForgetWaiting(r) ==
  CASE r = NoRoom \/ phase[r] = "waiting" -> Idle
    [] phase[r] = "active"   -> [run EXCEPT !.op = "gracing"]
    [] phase[r] = "finished" -> [run EXCEPT !.op = "removing"]

\* What Unregister does next, from the state it reads and lets go of.
Decide(r) ==
  IF r = NoRoom THEN Idle
  ELSE [run EXCEPT !.op = IF phase[r] = "active" THEN "gracing" ELSE "removing"]

ReadRoomState ==
  /\ run.op = "unqueued"
  /\ run' = Decide(clientRoom[run.c])
  /\ UNCHANGED <<connections, matchmaker, graces, rooms, messages>>

\* Seeded fault: a full table is logged, and nothing else.
LogOnly == Idle

RemoveAtOnce == [run EXCEPT !.op = "removing"]

\* startGracePeriod: the entry replaces an older one of the same user.
StartGrace ==
  /\ run.op = "gracing"
  /\ IF Cardinality(InMap) >= MaxDropped
       THEN run' = RemoveAtOnce /\ UNCHANGED graces
       ELSE /\ entry' = [entry EXCEPT ![UserOf[run.c]] = run.c]
            /\ timer' = [timer EXCEPT ![run.c] = "running"]
            /\ run' = Idle
  /\ UNCHANGED <<connections, matchmaker, rooms, messages>>

RemoveDropped ==
  /\ run.op = "removing"
  /\ RemovePlayer(clientRoom[run.c], run.c)
  /\ run' = Idle
  /\ UNCHANGED <<connections, matchmaker, graces, messages>>

GraceTimerFires(c) ==
  /\ timer[c] = "running"
  /\ timer' = [timer EXCEPT ![c] = "fired"]
  /\ UNCHANGED <<connections, matchmaker, entry, rooms, run, messages>>

\* Seeded fault: the callback does not ask whether the entry is its own.
DeleteAnyEntry(c) == [entry EXCEPT ![UserOf[c]] = NoClient]

DeleteOwnEntry(c) ==
  IF entry[UserOf[c]] = c THEN [entry EXCEPT ![UserOf[c]] = NoClient] ELSE entry

Expire(c) ==
  /\ timer[c] = "fired"
  /\ entry' = DeleteOwnEntry(c)
  /\ timer' = [timer EXCEPT ![c] = "removing"]
  /\ UNCHANGED <<connections, matchmaker, rooms, run, messages>>

RemoveExpired(c) ==
  /\ timer[c] = "removing"
  /\ RemovePlayer(clientRoom[c], c)
  /\ timer' = [timer EXCEPT ![c] = "none"]
  /\ UNCHANGED <<connections, matchmaker, entry, run, messages>>

-----------------------------------------------------------------------------

RunStep ==
  \/ TakeEntry \/ TakeSeat
  \/ RemoveFromQueue \/ ReadRoomState \/ StartGrace \/ RemoveDropped

MatchStep == GuestEnters \/ ListMatch

GraceStep(c) == GraceTimerFires(c) \/ Expire(c) \/ RemoveExpired(c)

ReaderStep(c) == EnterRoom(c) \/ ForgetRoom(c) \/ LeaveQueue(c)

Message(c) ==
  \/ \E k \in {"solo", "battle"} : CreateRoom(c, k)
  \/ \E r \in Rooms : LookUpRoom(c, r)
  \/ \E b \in Buckets : JoinQueue(c, b) \/ MeetOpponent(c, b)
  \/ LeaveRoom(c) \/ Drop(c)

Next ==
  \/ RunStep \/ MatchStep
  \/ \E c \in Clients :
       Register(c) \/ Unregister(c) \/ Message(c) \/ ReaderStep(c) \/ GraceStep(c)
  \/ \E r \in Rooms : Play(r) \/ EndGame(r) \/ RemoveRoom(r)

Spec == Init /\ [][Next]_vars

\* Goroutines run, timers fire and Hub.Run receives; clients owe nothing.
Fairness ==
  /\ WF_vars(RunStep) /\ WF_vars(MatchStep)
  /\ \A c \in Clients :
       WF_vars(Unregister(c)) /\ WF_vars(ReaderStep(c)) /\ WF_vars(GraceStep(c))
  /\ \A r \in Rooms : WF_vars(RemoveRoom(r))

FairSpec == Spec /\ Fairness
-----------------------------------------------------------------------------
(* Properties. *)

\* Every variable has its type, and a room that is about to be used is there: Run and
\* the grace timers never dereference a nil Client.Room.
TypeOK ==
  /\ link \in [Clients -> {"idle", "open", "exiting", "closed"}]
  /\ busy \in [Clients -> Handling]
  /\ run \in [op : {"idle", "registered", "taking", "closed", "unqueued", "gracing",
                     "removing"},
               c : Clients \cup {NoClient}, old : Clients \cup {NoClient}]
  /\ clientRoom \in [Clients -> Rooms \cup {NoRoom}]
  /\ queue \in Seq(Entries)
  /\ match \in [step : {"none", "guest", "list"}, room : Rooms \cup {NoRoom},
                 guest : Clients \cup {NoClient}]
  /\ entry \in [Users -> Clients \cup {NoClient}]
  /\ timer \in [Clients -> {"none", "running", "fired", "removing"}]
  /\ kind \in [Rooms -> {"none", "solo", "duel", "battle"}]
  /\ phase \in [Rooms -> {"waiting", "active", "finished"}]
  /\ members \in [Rooms -> SUBSET Clients]
  /\ listed \subseteq Rooms /\ closing \subseteq Rooms /\ refused \subseteq Clients
  /\ messages \in 0..MaxMessages
  /\ run.op \in {"gracing", "removing"} => clientRoom[run.c] # NoRoom
  /\ \A c \in Clients : timer[c] # "none" => clientRoom[c] # NoRoom

HasSeat(c) == clientRoom[c] # NoRoom /\ c \in members[clientRoom[c]]

(***************************************************************************)
(* NoForgottenSeat: a seat of a connection that is gone is always on its   *)
(* way to be freed or taken over: Hub.Run is dealing with it, or a grace   *)
(* timer is.  The one exception the code makes: the user came back after   *)
(* the game had ended, and the old seat stays in the finished room.        *)
(* (Hub.Run, startGracePeriod with its full table and its overwritten      *)
(* entries, tryReconnect with its ignored Stop(), a match made with        *)
(* somebody who is just leaving.)                                          *)
(***************************************************************************)
NoForgottenSeat ==
  \A c \in Clients :
    link[c] = "closed" /\ HasSeat(c) /\ c \notin refused =>
      \/ timer[c] # "none"
      \/ run.c = c /\ run.op \in {"closed", "unqueued", "gracing", "removing"}
      \/ run.old = c /\ run.op = "taking"

(***************************************************************************)
(* RoomKnowsItsClient: the room a live connection's messages go to has a   *)
(* seat for it, but in the middle of leaving: otherwise SetReady and       *)
(* HandleHit would drop its messages without a word (client.Room against   *)
(* Room.Players in every handler, match, takeover and removal).            *)
(***************************************************************************)
RoomKnowsItsClient ==
  \A c \in Clients :
    Online(c) /\ clientRoom[c] # NoRoom => HasSeat(c) \/ busy[c].op = "leaving"

WaitersArePresent ==
  \A i \in DOMAIN queue : LET c == queue[i].client IN
    Online(c) \/ (run.op = "closed" /\ run.c = c)

WaitersAreDistinct ==
  \A i, j \in DOMAIN queue :
    UserOf[queue[i].client] = UserOf[queue[j].client] => i = j

(***************************************************************************)
(* QueueIsSound: nobody waits who is gone, unless Unregister is about to   *)
(* remove it, and no user waits twice: an opponent is never made to wait   *)
(* in a room for nobody (Enqueue, Matchmaker.Remove, Unregister).          *)
(***************************************************************************)
QueueIsSound == WaitersArePresent /\ WaitersAreDistinct

(***************************************************************************)
(* DuelOfTwo: a duel never has more than two players, and never the same   *)
(* user twice, through matches and takeovers (enqueueLocal, AddPlayer,     *)
(* ReconnectPlayer).                                                       *)
(***************************************************************************)
DuelOfTwo ==
  \A r \in Rooms : kind[r] = "duel" =>
    /\ Cardinality(members[r]) <= 2
    /\ \A c, d \in members[r] : UserOf[c] = UserOf[d] => c = d

(***************************************************************************)
(* EntriesAreTimed: the table of disconnected players names connections of *)
(* its user that are gone and whose grace timer has not taken h.mu: no     *)
(* entry outlives its timer, so none can fill the table for ever.          *)
(***************************************************************************)
EntriesAreTimed ==
  \A u \in InMap : /\ UserOf[entry[u]] = u
                    /\ link[entry[u]] = "closed"
                    /\ timer[entry[u]] \in {"running", "fired"}

(***************************************************************************)
(* EntryKept: an entry goes away when its own timer expires or its user    *)
(* comes back, never through the timer of another connection of the user   *)
(* (the "existing == dp" test of startGracePeriod's callback).             *)
(***************************************************************************)
EntryKept ==
  [][\A u \in InMap : entry'[u] = NoClient =>
       timer'[entry[u]] = "removing" \/ run'.old = entry[u]]_vars

(***************************************************************************)
(* RoomsKeepContract: whatever the hub, the matchmaker and the timers do   *)
(* to a room, in any order, is something the room's contract allows.  Room *)
(* implements the same contract, so the rooms here are its rooms.          *)
(***************************************************************************)
ContractOf(r) == INSTANCE RoomContract WITH phase <- phase[r], members <- members[r]

RoomsKeepContract ==
  [][\A r \in Rooms : ContractOf(r)!Next \/ UNCHANGED <<phase[r], members[r]>>]_vars

(***************************************************************************)
(* SeatsAreFreed: the seat of a connection that is gone is freed or taken  *)
(* over in the end, or the game had ended when its user came back.         *)
(***************************************************************************)
SeatsAreFreed ==
  \A c \in Clients :
    link[c] = "closed" /\ HasSeat(c) ~> ~HasSeat(c) \/ c \in refused

-----------------------------------------------------------------------------
(* What README.md says of matches and codes, and the code does not keep. *)

\* README.md Flow 4: both sides of a match get match_found and play in the room;
\* the guest has its seat, as long as it is told to be in that room.
MatchSeatsGuest ==
  match.step = "list" => clientRoom[match.guest] = match.room

\* README.md Flow 5: who joins with a battle's code sits in the room the code names.
CodeFindsRoom ==
  \A c \in Clients : LET r == clientRoom[c] IN
    Online(c) /\ HasSeat(c) /\ kind[r] = "battle" /\ phase[r] = "waiting"
      => r \in listed
=============================================================================
