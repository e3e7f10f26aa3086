----------------------------- MODULE HubProofs ------------------------------
(***************************************************************************)
(* Theorems about Hub, for every number of connections, users, rooms and   *)
(* messages, and every size of the table of disconnected players.          *)
(***************************************************************************)
EXTENDS Hub, SequenceTheorems, FiniteSetTheorems, TLAPS

\* What a queue is after an entry is taken out of it.
LEMMA RemoveAtLemma ==
  ASSUME NEW S, NEW s \in Seq(S), NEW i \in 1..Len(s)
  PROVE  /\ RemoveAt(s, i) \in Seq(S)
         /\ Len(RemoveAt(s, i)) = Len(s) - 1
         /\ \A j \in 1..(Len(s) - 1) :
              RemoveAt(s, i)[j] = IF j < i THEN s[j] ELSE s[j + 1]
<1> DEFINE a == SubSeq(s, 1, i - 1)
           b == SubSeq(s, i + 1, Len(s))
<1>1. /\ a \in Seq(S) /\ Len(a) = i - 1
      /\ \A j \in 1..(i - 1) : a[j] = s[j]
  OBVIOUS
<1>2. /\ b \in Seq(S) /\ Len(b) = Len(s) - i
      /\ \A j \in 1..(Len(s) - i) : b[j] = s[j + i]
  OBVIOUS
<1> HIDE DEF a, b
<1>3. /\ a \o b \in Seq(S) /\ Len(a \o b) = Len(s) - 1
      /\ \A j \in 1..(i - 1) : (a \o b)[j] = a[j]
      /\ \A j \in i..(Len(s) - 1) : (a \o b)[j] = b[j - (i - 1)]
  <2>1. a \o b \in Seq(S) /\ Len(a \o b) = Len(s) - 1
    <3>1. a \in Seq(S) /\ b \in Seq(S)
      BY <1>1, <1>2
    <3>2. a \o b \in Seq(S) /\ Len(a \o b) = Len(a) + Len(b)
      BY <3>1, ConcatProperties
    <3>3. Len(s) \in Nat
      OBVIOUS
    <3> QED
      BY <1>1, <1>2, <3>2, <3>3
  <2>2. ASSUME NEW j \in 1..(i - 1) PROVE (a \o b)[j] = a[j]
    BY <1>1, <1>2
  <2>3. ASSUME NEW j \in i..(Len(s) - 1) PROVE (a \o b)[j] = b[j - (i - 1)]
    BY <1>1, <1>2
  <2> QED
    BY <2>1, <2>2, <2>3
<1>4. RemoveAt(s, i) = a \o b
  BY DEF RemoveAt, a, b
<1>5. ASSUME NEW j \in i..(Len(s) - 1) PROVE b[j - (i - 1)] = s[j + 1]
  BY <1>2
<1> QED
  BY <1>1, <1>3, <1>4, <1>5

\* The steps a proof about Next has to look at.
LEMMA NextCases ==
  ASSUME [Next]_vars
  PROVE  \/ \E c \in Clients, k \in {"solo", "battle"} : CreateRoom(c, k)
         \/ \E c \in Clients, r \in Rooms : LookUpRoom(c, r)
         \/ \E c \in Clients : EnterRoom(c)
         \/ \E c \in Clients, b \in Buckets : JoinQueue(c, b)
         \/ \E c \in Clients, b \in Buckets : MeetOpponent(c, b)
         \/ GuestEnters
         \/ ListMatch
         \/ \E c \in Clients : LeaveRoom(c)
         \/ \E c \in Clients : ForgetRoom(c) \/ LeaveQueue(c) \/ Drop(c)
         \/ \E c \in Clients : Register(c) \/ Unregister(c)
         \/ TakeEntry
         \/ TakeSeat
         \/ RemoveFromQueue
         \/ ReadRoomState
         \/ StartGrace
         \/ RemoveDropped
         \/ \E c \in Clients : GraceTimerFires(c) \/ Expire(c)
         \/ \E c \in Clients : RemoveExpired(c)
         \/ \E r \in Rooms : Play(r) \/ EndGame(r) \/ RemoveRoom(r)
         \/ UNCHANGED vars
  BY DEF Next, RunStep, MatchStep, Message, ReaderStep, GraceStep
-----------------------------------------------------------------------------
(***************************************************************************)
(* Types, and how far each actor's pointers may be behind: the reader of a *)
(* connection is busy only while the connection is open, Run's pointers    *)
(* are to connections in the state it put them in, grace timers are those  *)
(* of connections that are gone.                                           *)
(***************************************************************************)
RunPointers ==
  /\ run.op # "idle" => run.c \in Clients
  /\ run.op \in {"registered", "taking"} => link[run.c] \in {"open", "exiting"}
  /\ run.op \in {"closed", "unqueued", "gracing", "removing"} => link[run.c] = "closed"
  /\ run.op = "taking" => run.old \in Clients /\ link[run.old] = "closed"

MatchPointers ==
  match.step # "none" =>
    /\ match.guest \in Clients /\ busy[match.guest].op = "matching"
    /\ match.room \in Rooms

Pointers ==
  /\ \A c \in Clients : busy[c].op # "none" => link[c] = "open"
  /\ \A c \in Clients : timer[c] # "none" => link[c] = "closed"
  /\ \A c \in Clients : busy[c].op = "joining" =>
       busy[c].room \in Rooms /\ kind[busy[c].room] = "battle"
  /\ RunPointers /\ MatchPointers

TypeInv == TypeOK /\ Pointers /\ EntriesAreTimed

LEMMA SequenceElement ==
  ASSUME NEW S, NEW s \in Seq(S), NEW i \in DOMAIN s
  PROVE  i \in 1..Len(s) /\ s[i] \in S
  OBVIOUS

LEMMA WaiterIsClient ==
  ASSUME TypeOK, NEW i \in DOMAIN queue
  PROVE  queue[i].client \in Clients
<1>1. queue \in Seq(Entries)
  BY DEF TypeOK
<1>2. queue[i] \in Entries
  BY <1>1, SequenceElement
<1> QED
  BY <1>2 DEF Entries

LEMMA TypeInit == Init => TypeInv
<1> SUFFICES ASSUME Init PROVE TypeInv
  OBVIOUS
<1>1. TypeOK
  BY HubUsers, HubBounds DEF Init, TypeOK, Idle, Free, Handling, Entries, NoMatch, Rooms, NoRoom
<1>2. Pointers
  BY DEF Init, Pointers, RunPointers, MatchPointers, Idle, Free, NoMatch
<1>3. EntriesAreTimed
  BY DEF Init, EntriesAreTimed, InMap
<1> QED
  BY <1>1, <1>2, <1>3 DEF TypeInv

LEMMA TypeCreateRoom ==
  ASSUME TypeInv, NEW c \in Clients, NEW k \in {"solo", "battle"}, CreateRoom(c, k)
  PROVE  TypeInv'
<1> USE DEF TypeInv
<1>1. PICK r \in Rooms \ Born : OpenRoom(r, k, c) /\ listed' = listed \cup {r}
  BY DEF CreateRoom, NewRoom, First
<1>2. UNCHANGED <<link, busy, run, queue, match, entry, timer, phase, closing, refused>>
  BY DEF CreateRoom, matchmaker, graces
<1>3. link[c] = "open" /\ messages' \in 0..MaxMessages
  BY HubBounds DEF CreateRoom, Handles, TypeOK
<1>4. /\ kind' \in [Rooms -> {"none", "solo", "duel", "battle"}]
      /\ members' \in [Rooms -> SUBSET Clients]
      /\ clientRoom' \in [Clients -> Rooms \cup {NoRoom}]
      /\ listed' \subseteq Rooms
  BY <1>1 DEF OpenRoom, TypeOK
<1>5. clientRoom' = [clientRoom EXCEPT ![c] = r] /\ kind' = [kind EXCEPT ![r] = k]
  BY <1>1 DEF OpenRoom
<1>6. Pointers'
  BY <1>1, <1>2, <1>5 DEF Pointers, RunPointers, MatchPointers, TypeOK, Born
<1>7. TypeOK'
  BY <1>2, <1>3, <1>4, <1>5, <1>1 DEF TypeOK, Pointers, RunPointers, Rooms, NoRoom
<1>8. EntriesAreTimed'
  BY <1>2 DEF EntriesAreTimed, InMap
<1> QED
  BY <1>6, <1>7, <1>8

LEMMA TypeJoinRoom ==
  ASSUME TypeInv, NEW c \in Clients, (\E r \in Rooms : LookUpRoom(c, r)) \/ EnterRoom(c)
  PROVE  TypeInv'
<1> USE DEF TypeInv
<1>1. UNCHANGED <<link, run, queue, match, entry, timer, phase, closing, refused, kind,
                  listed>>
  BY DEF LookUpRoom, EnterRoom, matchmaker, graces, rooms
<1>2. EntriesAreTimed'
  BY <1>1 DEF EntriesAreTimed, InMap
<1>3. CASE \E r \in Rooms : LookUpRoom(c, r)
  <2>1. PICK r \in Rooms : /\ kind[r] = "battle" /\ link[c] = "open" /\ busy[c] = Free
                           /\ busy' = [busy EXCEPT ![c] = [op |-> "joining", room |-> r]]
    BY <1>3 DEF LookUpRoom, Handles
  <2>2. UNCHANGED <<clientRoom, members>> /\ messages' \in 0..MaxMessages
    BY <1>3, HubBounds DEF LookUpRoom, Handles, rooms, TypeOK
  <2>3. Pointers'
    BY <1>1, <2>1 DEF Pointers, RunPointers, MatchPointers, TypeOK, Free
  <2>4. TypeOK'
    BY <1>1, <2>1, <2>2 DEF TypeOK, Handling
  <2> QED
    BY <1>2, <2>3, <2>4
<1>4. CASE EnterRoom(c)
  <2>1. /\ busy[c].op = "joining" /\ link[c] = "open" /\ busy[c].room \in Rooms
        /\ busy' = [busy EXCEPT ![c] = Free] /\ UNCHANGED messages
    BY <1>4 DEF EnterRoom, Pointers
  <2>2. /\ members' \in [Rooms -> SUBSET Clients]
        /\ clientRoom' \in [Clients -> Rooms \cup {NoRoom}]
        /\ \A d \in Clients \ {c} : clientRoom'[d] = clientRoom[d]
    <3> DEFINE r == busy[c].room
    <3>1. AddPlayer(r, c) /\ r \in Rooms
      BY <1>4, <2>1 DEF EnterRoom
    <3> HIDE DEF r
    <3>2. \/ /\ members' = [members EXCEPT ![r] = @ \cup {c}]
             /\ clientRoom' = [clientRoom EXCEPT ![c] = r]
          \/ UNCHANGED <<members, clientRoom>>
      BY <3>1 DEF AddPlayer
    <3>3. members \in [Rooms -> SUBSET Clients] /\ clientRoom \in [Clients -> Rooms \cup {NoRoom}]
      BY DEF TypeOK
    <3> QED
      BY <3>1, <3>2, <3>3
  <2>3. Pointers'
    BY <1>1, <2>1 DEF Pointers, RunPointers, MatchPointers, TypeOK, Free
  <2>4. busy' \in [Clients -> Handling]
    BY <2>1 DEF TypeOK, Handling, Free
  <2>5. TypeOK'
    BY <1>1, <2>1, <2>2, <2>4 DEF TypeOK, Pointers, RunPointers
  <2> QED
    BY <1>2, <2>3, <2>5
<1> QED
  BY <1>3, <1>4

LEMMA TypeJoinQueue ==
  ASSUME TypeInv, NEW c \in Clients, NEW b \in Buckets, JoinQueue(c, b)
  PROVE  TypeInv'
<1> USE DEF TypeInv
<1>1. UNCHANGED <<link, busy, clientRoom, refused, run, match, entry, timer, rooms>>
  BY DEF JoinQueue, connections, graces
<1>2. messages' \in 0..MaxMessages
  BY HubBounds DEF JoinQueue, Handles, TypeOK
<1>3. queue' \in Seq(Entries)
  BY DEF JoinQueue, TypeOK, Entries
<1> QED
  BY <1>1, <1>2, <1>3 DEF rooms, TypeOK, Pointers, RunPointers, MatchPointers,
     EntriesAreTimed, InMap

LEMMA TypeMeetOpponent ==
  ASSUME TypeInv, NEW c \in Clients, NEW b \in Buckets, MeetOpponent(c, b)
  PROVE  TypeInv'
<1> USE DEF TypeInv
<1>1. PICK i \in First(Candidates(b)), r \in NewRoom :
        /\ OpenRoom(r, "duel", queue[i].client)
        /\ queue' = RemoveAt(queue, i)
        /\ match' = [step |-> "guest", room |-> r, guest |-> c]
        /\ busy' = [busy EXCEPT ![c] = [op |-> "matching", room |-> r]]
  BY DEF MeetOpponent
<1>2. UNCHANGED <<link, refused, entry, timer, phase, listed, closing, run>>
  BY DEF MeetOpponent, graces
<1>3. link[c] = "open" /\ messages' \in 0..MaxMessages /\ busy[c] = Free
  BY HubBounds DEF MeetOpponent, Handles, TypeOK
<1>4. r \in Rooms /\ kind[r] = "none"
  BY DEF NewRoom, First, Born
<1>5. i \in 1..Len(queue) /\ queue[i] \in Entries
  <2>1. i \in DOMAIN queue
    BY DEF First, Candidates
  <2>2. queue \in Seq(Entries)
    BY DEF TypeOK
  <2> QED
    BY <2>1, <2>2, SequenceElement
<1>6. queue' \in Seq(Entries)
  BY <1>1, <1>5, RemoveAtLemma DEF TypeOK
<1> DEFINE d == queue[i].client
<1>7. d \in Clients
  BY <1>5 DEF Entries
<1> HIDE DEF d
<1>8. /\ kind' = [kind EXCEPT ![r] = "duel"]
      /\ members' = [members EXCEPT ![r] = {d}]
      /\ clientRoom' = [clientRoom EXCEPT ![d] = r]
  BY <1>1 DEF OpenRoom, d
<1>9. Pointers'
  BY <1>1, <1>2, <1>3, <1>4, <1>8 DEF Pointers, RunPointers, MatchPointers, TypeOK, Free
<1>10. TypeOK'
  <2>1. /\ kind' \in [Rooms -> {"none", "solo", "duel", "battle"}]
        /\ members' \in [Rooms -> SUBSET Clients]
        /\ clientRoom' \in [Clients -> Rooms \cup {NoRoom}]
    BY <1>4, <1>7, <1>8 DEF TypeOK
  <2>2. \A e \in Clients : clientRoom[e] # NoRoom => clientRoom'[e] # NoRoom
    BY <1>4, <1>8 DEF TypeOK, Rooms, NoRoom
  <2>3. match' \in [step : {"none", "guest", "list"}, room : Rooms \cup {NoRoom},
                    guest : Clients \cup {NoClient}]
    BY <1>1, <1>4
  <2>4. busy' \in [Clients -> Handling]
    BY <1>1, <1>4 DEF TypeOK, Handling
  <2>5. run.op \in {"gracing", "removing"} => run.c \in Clients
    BY DEF Pointers, RunPointers
  <2> QED
    BY <1>2, <1>3, <1>6, <2>1, <2>2, <2>3, <2>4, <2>5 DEF TypeOK
<1>11. EntriesAreTimed'
  BY <1>2 DEF EntriesAreTimed, InMap
<1> QED
  BY <1>9, <1>10, <1>11

LEMMA TypeMatch ==
  ASSUME TypeInv, GuestEnters \/ ListMatch
  PROVE  TypeInv'
<1> USE DEF TypeInv
<1>1. CASE GuestEnters
  <2> DEFINE r == match.room
             c == match.guest
  <2>1. /\ match.step = "guest" /\ AddPlayer(r, c)
        /\ match' = [match EXCEPT !.step = "list"]
        /\ UNCHANGED <<link, busy, refused, queue, entry, timer, kind, phase, listed,
                      closing, run, messages>>
    BY <1>1 DEF GuestEnters, graces
  <2>2. c \in Clients /\ r \in Rooms /\ link[c] = "open"
    BY <2>1 DEF Pointers, MatchPointers
  <2> HIDE DEF r, c
  <2>3. \/ /\ members' = [members EXCEPT ![r] = @ \cup {c}]
           /\ clientRoom' = [clientRoom EXCEPT ![c] = r]
        \/ UNCHANGED <<members, clientRoom>>
    BY <2>1 DEF AddPlayer
  <2>4. members \in [Rooms -> SUBSET Clients] /\ clientRoom \in [Clients -> Rooms \cup {NoRoom}]
    BY DEF TypeOK
  <2>5. /\ members' \in [Rooms -> SUBSET Clients]
        /\ clientRoom' \in [Clients -> Rooms \cup {NoRoom}]
        /\ \A d \in Clients \ {c} : clientRoom'[d] = clientRoom[d]
    BY <2>2, <2>3, <2>4
  <2>6. Pointers'
    BY <2>1 DEF Pointers, RunPointers, MatchPointers, TypeOK
  <2>7. TypeOK'
    <3>1. match' \in [step : {"none", "guest", "list"}, room : Rooms \cup {NoRoom},
                      guest : Clients \cup {NoClient}]
      BY <2>1 DEF TypeOK
    <3>2. /\ run.op \in {"gracing", "removing"} => run.c \in Clients \ {c}
          /\ \A d \in Clients : timer[d] # "none" => d # c
      BY <2>2 DEF Pointers, RunPointers
    <3> QED
      BY <2>1, <2>5, <3>1, <3>2 DEF TypeOK
  <2>8. EntriesAreTimed'
    BY <2>1 DEF EntriesAreTimed, InMap
  <2> QED
    BY <2>6, <2>7, <2>8
<1>2. CASE ListMatch
  <2>1. /\ match.step = "list"
        /\ listed' = listed \cup {match.room}
        /\ busy' = [busy EXCEPT ![match.guest] = Free]
        /\ match' = NoMatch
        /\ UNCHANGED <<link, clientRoom, refused, queue, entry, timer, kind, phase, members,
                      closing, run, messages>>
    BY <1>2 DEF ListMatch, graces
  <2>2. match.guest \in Clients /\ match.room \in Rooms
    BY <2>1 DEF Pointers, MatchPointers
  <2>3. busy' \in [Clients -> Handling]
    BY <2>1 DEF TypeOK, Handling, Free
  <2>4. Pointers'
    BY <2>1, <2>2 DEF Pointers, RunPointers, MatchPointers, NoMatch, TypeOK, Free
  <2>5. TypeOK'
    BY <2>1, <2>2, <2>3 DEF TypeOK, NoMatch
  <2>6. EntriesAreTimed'
    BY <2>1 DEF EntriesAreTimed, InMap
  <2> QED
    BY <2>4, <2>5, <2>6
<1> QED
  BY <1>1, <1>2

\* What RemovePlayer, called by anybody, leaves of the types.
LEMMA TypeRemovePlayer ==
  ASSUME TypeOK, NEW r \in Rooms, NEW c \in Clients, RemovePlayer(r, c)
  PROVE  /\ members' \in [Rooms -> SUBSET Clients]
         /\ phase' \in [Rooms -> {"waiting", "active", "finished"}]
         /\ closing' \subseteq Rooms
         /\ UNCHANGED <<kind, listed>>
  BY DEF RemovePlayer, TypeOK

LEMMA TypeLeave ==
  ASSUME TypeInv, NEW c \in Clients, LeaveRoom(c) \/ ForgetRoom(c)
  PROVE  TypeInv'
<1> USE DEF TypeInv
<1>1. UNCHANGED <<link, refused, queue, match, entry, timer, run>>
  BY DEF LeaveRoom, ForgetRoom, matchmaker, graces
<1>2. EntriesAreTimed'
  BY <1>1 DEF EntriesAreTimed, InMap
<1>3. CASE LeaveRoom(c)
  <2>1. /\ link[c] = "open" /\ busy[c] = Free /\ messages' \in 0..MaxMessages
        /\ UNCHANGED clientRoom
    BY <1>3, HubBounds DEF LeaveRoom, Handles, TypeOK
  <2>2. CASE clientRoom[c] = NoRoom
    <3>1. /\ busy' = [busy EXCEPT ![c] = [op |-> "unqueueing", room |-> NoRoom]]
          /\ UNCHANGED <<kind, phase, members, listed, closing>>
      BY <1>3, <2>2 DEF LeaveRoom, rooms
    <3>2. Pointers'
      BY <1>1, <2>1, <3>1 DEF Pointers, RunPointers, MatchPointers, TypeOK, Free
    <3>3. busy' \in [Clients -> Handling]
      BY <3>1 DEF TypeOK, Handling
    <3>4. TypeOK'
      BY <1>1, <2>1, <3>1, <3>3 DEF TypeOK
    <3> QED
      BY <1>2, <3>2, <3>4
  <2>3. CASE clientRoom[c] # NoRoom
    <3>1. /\ RemovePlayer(clientRoom[c], c) /\ clientRoom[c] \in Rooms
          /\ busy' = [busy EXCEPT ![c] = [op |-> "leaving", room |-> clientRoom[c]]]
      BY <1>3, <2>3 DEF LeaveRoom, TypeOK
    <3>2. Pointers'
      BY <1>1, <2>1, <3>1, TypeRemovePlayer
         DEF Pointers, RunPointers, MatchPointers, TypeOK, Free
    <3>3. busy' \in [Clients -> Handling]
      BY <3>1 DEF TypeOK, Handling
    <3>4. TypeOK'
      BY <1>1, <2>1, <3>1, <3>3, TypeRemovePlayer DEF TypeOK
    <3> QED
      BY <1>2, <3>2, <3>4
  <2> QED
    BY <2>2, <2>3
<1>4. CASE ForgetRoom(c)
  <2>1. /\ busy[c].op = "leaving" /\ link[c] = "open"
        /\ clientRoom' = [clientRoom EXCEPT ![c] = NoRoom]
        /\ busy' = [busy EXCEPT ![c] = [op |-> "unqueueing", room |-> NoRoom]]
        /\ UNCHANGED <<kind, phase, members, listed, closing, messages>>
    BY <1>4 DEF ForgetRoom, SetRoomNil, rooms, Pointers
  <2>2. Pointers'
    BY <1>1, <2>1 DEF Pointers, RunPointers, MatchPointers, TypeOK
  <2>3. busy' \in [Clients -> Handling]
    BY <2>1 DEF TypeOK, Handling
  <2>4. TypeOK'
    BY <1>1, <2>1, <2>3 DEF TypeOK, Pointers, RunPointers
  <2> QED
    BY <1>2, <2>2, <2>4
<1> QED
  BY <1>3, <1>4

\* Taking an entry out of the queue.
LEMMA TypeUnqueue ==
  ASSUME TypeOK, NEW u, Unqueue(u)
  PROVE  queue' \in Seq(Entries)
<1>1. queue \in Seq(Entries)
  BY DEF TypeOK
<1>2. CASE EntriesOf(u) = {}
  BY <1>1, <1>2 DEF Unqueue
<1>3. CASE EntriesOf(u) # {}
  <2>1. PICK i \in DOMAIN queue : queue' = RemoveAt(queue, i)
    BY <1>3 DEF Unqueue, First, EntriesOf
  <2>2. i \in 1..Len(queue)
    BY <1>1, SequenceElement
  <2> QED
    BY <1>1, <2>1, <2>2, RemoveAtLemma
<1> QED
  BY <1>2, <1>3

LEMMA TypeDropOrUnqueue ==
  ASSUME TypeInv, NEW c \in Clients, LeaveQueue(c) \/ Drop(c)
  PROVE  TypeInv'
<1> USE DEF TypeInv
<1>1. UNCHANGED <<clientRoom, refused, match, entry, timer, kind, phase, members, listed,
                  closing, run, messages>>
  BY DEF LeaveQueue, Drop, matchmaker, graces, rooms
<1>2. CASE LeaveQueue(c)
  <2>1. /\ busy[c].op = "unqueueing" /\ match = NoMatch
        /\ busy' = [busy EXCEPT ![c] = Free]
        /\ UNCHANGED link
    BY <1>2 DEF LeaveQueue
  <2>2. queue' \in Seq(Entries)
    BY <1>2, TypeUnqueue DEF LeaveQueue
  <2>3. busy' \in [Clients -> Handling]
    BY <2>1 DEF TypeOK, Handling, Free
  <2>4. Pointers'
    BY <1>1, <2>1 DEF Pointers, RunPointers, MatchPointers, TypeOK, Free, NoMatch
  <2>5. TypeOK'
    BY <1>1, <2>1, <2>2, <2>3 DEF TypeOK
  <2>6. EntriesAreTimed'
    BY <1>1, <2>1 DEF EntriesAreTimed, InMap
  <2> QED
    BY <2>4, <2>5, <2>6
<1>3. CASE Drop(c)
  <2>1. /\ link[c] = "open" /\ busy[c] = Free
        /\ link' = [link EXCEPT ![c] = "exiting"]
        /\ UNCHANGED <<busy, queue>>
    BY <1>3 DEF Drop, matchmaker
  <2>2. Pointers'
    BY <1>1, <2>1 DEF Pointers, RunPointers, MatchPointers, TypeOK, Free
  <2>3. TypeOK'
    BY <1>1, <2>1 DEF TypeOK
  <2>4. EntriesAreTimed'
    BY <1>1, <2>1 DEF EntriesAreTimed, InMap, TypeOK
  <2> QED
    BY <2>2, <2>3, <2>4
<1> QED
  BY <1>2, <1>3

LEMMA TypeRegister ==
  ASSUME TypeInv, NEW c \in Clients, Register(c) \/ Unregister(c)
  PROVE  TypeInv'
<1> USE DEF TypeInv
<1>1. UNCHANGED <<busy, clientRoom, refused, queue, match, entry, timer, kind, phase,
                  members, listed, closing, messages>>
  BY DEF Register, Unregister, matchmaker, graces, rooms
<1>2. /\ run = Idle
      /\ \/ /\ link[c] = "idle" /\ link' = [link EXCEPT ![c] = "open"]
            /\ run' = [op |-> "registered", c |-> c, old |-> NoClient]
         \/ /\ link[c] = "exiting" /\ link' = [link EXCEPT ![c] = "closed"]
            /\ run' = [op |-> "closed", c |-> c, old |-> NoClient]
  BY DEF Register, Unregister
<1>3. Pointers'
  BY <1>1, <1>2 DEF Pointers, RunPointers, MatchPointers, TypeOK
<1>4. TypeOK'
  BY <1>1, <1>2 DEF TypeOK
<1>5. EntriesAreTimed'
  BY <1>1, <1>2 DEF EntriesAreTimed, InMap, TypeOK
<1> QED
  BY <1>3, <1>4, <1>5

LEMMA TypeReconnect ==
  ASSUME TypeInv, TakeEntry \/ TakeSeat
  PROVE  TypeInv'
<1> USE DEF TypeInv
<1>1. UNCHANGED <<link, busy, queue, match, kind, phase, listed, closing, messages>>
  BY DEF TakeEntry, TakeSeat, connections, matchmaker, rooms
<1> DEFINE new == run.c
<1>2. CASE TakeEntry
  <2> DEFINE u == UserOf[new]
             old == entry[u]
  <2>1. run.op = "registered" /\ new \in Clients /\ u \in Users
        /\ UNCHANGED <<clientRoom, refused, members>>
    BY <1>2, HubUsers DEF TakeEntry, Pointers, RunPointers, connections, rooms
  <2>2. CASE old = NoClient
    <3>1. run' = Idle /\ UNCHANGED <<entry, timer>>
      BY <1>2, <2>2 DEF TakeEntry, graces
    <3> QED
      BY <1>1, <2>1, <3>1 DEF TypeOK, Pointers, RunPointers, MatchPointers,
         EntriesAreTimed, InMap, Idle
  <2>3. CASE old # NoClient
    <3>1. /\ entry' = [entry EXCEPT ![u] = NoClient]
          /\ timer' = [timer EXCEPT ![old] = IF @ = "running" THEN "none" ELSE @]
          /\ run' = [run EXCEPT !.op = "taking", !.old = old]
      BY <1>2, <2>3 DEF TakeEntry, DeleteEntry
    <3>2. old \in Clients /\ link[old] = "closed" /\ UserOf[old] = u
      BY <2>1, <2>3 DEF TypeOK, EntriesAreTimed, InMap
    <3> HIDE DEF new, u, old
    <3>3. Pointers'
      BY <1>1, <2>1, <3>1, <3>2 DEF Pointers, RunPointers, MatchPointers, TypeOK, new
    <3>4. TypeOK'
      BY <1>1, <2>1, <3>1, <3>2 DEF TypeOK
    <3>5. EntriesAreTimed'
      BY <1>1, <2>1, <3>1, <3>2 DEF EntriesAreTimed, InMap, TypeOK
    <3> QED
      BY <3>3, <3>4, <3>5
  <2> QED
    BY <2>2, <2>3
<1>3. CASE TakeSeat
  <2> DEFINE old == run.old
             r == clientRoom[old]
  <2>1. /\ run.op = "taking" /\ new \in Clients /\ link[new] \in {"open", "exiting"}
        /\ old \in Clients /\ link[old] = "closed"
    BY <1>3 DEF TakeSeat, Pointers, RunPointers
  <2>2. run' = Idle /\ UNCHANGED <<entry, timer>>
    BY <1>3 DEF TakeSeat, graces
  <2>3. \/ /\ members' = [members EXCEPT ![r] = (@ \ {old}) \cup {new}]
           /\ clientRoom' = [clientRoom EXCEPT ![new] = r]
           /\ UNCHANGED refused
        \/ refused' = refused \cup {old} /\ UNCHANGED <<members, clientRoom>>
    BY <1>3 DEF TakeSeat
  <2> HIDE DEF new, old, r
  <2>4. /\ members \in [Rooms -> SUBSET Clients] /\ refused \subseteq Clients
        /\ clientRoom \in [Clients -> Rooms \cup {NoRoom}]
        /\ r \in Rooms \cup {NoRoom}
    BY <2>1 DEF TypeOK, r
  <2>5. /\ members' \in [Rooms -> SUBSET Clients] /\ refused' \subseteq Clients
        /\ clientRoom' \in [Clients -> Rooms \cup {NoRoom}]
        /\ \A d \in Clients \ {new} : clientRoom'[d] = clientRoom[d]
    BY <2>1, <2>3, <2>4
  <2>6. Pointers'
    BY <1>1, <2>2 DEF Pointers, RunPointers, MatchPointers, TypeOK, Idle
  <2>7. TypeOK'
    <3>1. \A d \in Clients : timer[d] # "none" => d # new
      BY <2>1 DEF Pointers
    <3> QED
      BY <1>1, <2>2, <2>5, <3>1 DEF TypeOK, Idle
  <2>8. EntriesAreTimed'
    BY <1>1, <2>2 DEF EntriesAreTimed, InMap
  <2> QED
    BY <2>6, <2>7, <2>8
<1> QED
  BY <1>2, <1>3

LEMMA TypeUnregister ==
  ASSUME TypeInv, RemoveFromQueue \/ ReadRoomState \/ StartGrace \/ RemoveDropped
  PROVE  TypeInv'
<1> USE DEF TypeInv
<1>1. UNCHANGED <<link, busy, clientRoom, refused, match, kind, listed, messages>>
  BY DEF RemoveFromQueue, ReadRoomState, StartGrace, RemoveDropped, RemovePlayer,
     connections, matchmaker, rooms
<1> DEFINE c == run.c
<1>2. run.op # "idle" /\ c \in Clients /\ link[c] = "closed"
  BY DEF RemoveFromQueue, ReadRoomState, StartGrace, RemoveDropped, Pointers, RunPointers
<1>3. CASE RemoveFromQueue
  <2>1. /\ run.op = "closed" /\ run' = [run EXCEPT !.op = "unqueued"]
        /\ UNCHANGED <<entry, timer, phase, members, closing>>
    BY <1>3 DEF RemoveFromQueue, graces, rooms
  <2>2. queue' \in Seq(Entries)
    BY <1>3, TypeUnqueue DEF RemoveFromQueue
  <2>3. /\ run' \in [op : {"unqueued"}, c : Clients, old : Clients \cup {NoClient}]
        /\ run'.c = c
    BY <1>2, <2>1 DEF TypeOK
  <2>4. Pointers'
    BY <1>1, <1>2, <2>1, <2>3 DEF Pointers, RunPointers, MatchPointers
  <2>5. TypeOK'
    BY <1>1, <2>1, <2>2, <2>3 DEF TypeOK
  <2>6. EntriesAreTimed'
    BY <1>1, <2>1 DEF EntriesAreTimed, InMap
  <2> QED
    BY <2>4, <2>5, <2>6
<1>4. CASE ReadRoomState
  <2>1. /\ run.op = "unqueued"
        /\ UNCHANGED <<entry, timer, phase, members, closing, queue>>
        /\ \/ run' = Idle
           \/ /\ clientRoom[c] # NoRoom
              /\ \E op \in {"gracing", "removing"} : run' = [run EXCEPT !.op = op]
    BY <1>4 DEF ReadRoomState, Decide, graces, rooms, matchmaker
  <2>2. Pointers'
    <3>1. \/ run'.op = "idle"
          \/ run'.op \in {"gracing", "removing"} /\ run'.c = c
      BY <2>1 DEF TypeOK, Idle
    <3> QED
      BY <1>1, <1>2, <2>1, <3>1 DEF Pointers, RunPointers, MatchPointers
  <2>3. TypeOK'
    BY <1>1, <1>2, <2>1 DEF TypeOK, Idle
  <2>4. EntriesAreTimed'
    BY <1>1, <2>1 DEF EntriesAreTimed, InMap
  <2> QED
    BY <2>2, <2>3, <2>4
<1>5. CASE StartGrace
  <2>1. run.op = "gracing" /\ clientRoom[c] # NoRoom
        /\ UNCHANGED <<phase, members, closing, queue>>
    BY <1>5 DEF StartGrace, rooms, matchmaker, TypeOK
  <2>2. CASE Cardinality(InMap) >= MaxDropped
    <3>1. run' = [run EXCEPT !.op = "removing"] /\ UNCHANGED <<entry, timer>>
      BY <1>5, <2>2 DEF StartGrace, RemoveAtOnce, graces
    <3>2. Pointers'
      BY <1>1, <1>2, <2>1, <3>1 DEF Pointers, RunPointers, MatchPointers, TypeOK
    <3>3. TypeOK'
      BY <1>1, <1>2, <2>1, <3>1 DEF TypeOK
    <3>4. EntriesAreTimed'
      BY <1>1, <3>1 DEF EntriesAreTimed, InMap
    <3> QED
      BY <3>2, <3>3, <3>4
  <2>3. CASE ~(Cardinality(InMap) >= MaxDropped)
    <3> DEFINE u == UserOf[c]
    <3>1. /\ entry' = [entry EXCEPT ![u] = c]
          /\ timer' = [timer EXCEPT ![c] = "running"]
          /\ run' = Idle /\ u \in Users
      BY <1>2, <1>5, <2>3, HubUsers DEF StartGrace
    <3> HIDE DEF c
    <3>2. Pointers'
      BY <1>1, <1>2, <2>1, <3>1 DEF Pointers, RunPointers, MatchPointers, TypeOK, Idle
    <3>3. TypeOK'
      BY <1>1, <1>2, <2>1, <3>1 DEF TypeOK, Idle
    <3>4. EntriesAreTimed'
      BY <1>1, <1>2, <2>1, <3>1 DEF EntriesAreTimed, InMap, TypeOK
    <3> QED
      BY <3>2, <3>3, <3>4
  <2> QED
    BY <2>2, <2>3
<1>6. CASE RemoveDropped
  <2>1. /\ run' = Idle /\ RemovePlayer(clientRoom[c], c) /\ clientRoom[c] \in Rooms
        /\ UNCHANGED <<queue, entry, timer>>
    BY <1>2, <1>6 DEF RemoveDropped, matchmaker, graces, TypeOK
  <2>2. Pointers'
    BY <1>1, <2>1 DEF Pointers, RunPointers, MatchPointers, Idle
  <2>3. TypeOK'
    BY <1>1, <1>2, <2>1, TypeRemovePlayer DEF TypeOK, Idle
  <2>4. EntriesAreTimed'
    BY <1>1, <2>1 DEF EntriesAreTimed, InMap
  <2> QED
    BY <2>2, <2>3, <2>4
<1> QED
  BY <1>3, <1>4, <1>5, <1>6

LEMMA TypeGrace ==
  ASSUME TypeInv, NEW c \in Clients, GraceTimerFires(c) \/ Expire(c) \/ RemoveExpired(c)
  PROVE  TypeInv'
<1> USE DEF TypeInv
<1>1. UNCHANGED <<link, busy, clientRoom, refused, queue, match, kind, listed, run,
                  messages>>
  BY DEF GraceTimerFires, Expire, RemoveExpired, RemovePlayer, connections, matchmaker,
     rooms
<1>2. /\ timer[c] # "none" /\ link[c] = "closed" /\ clientRoom[c] \in Rooms
      /\ \E t \in {"none", "fired", "removing"} : timer' = [timer EXCEPT ![c] = t]
  BY DEF GraceTimerFires, Expire, RemoveExpired, Pointers, TypeOK
<1>3. Pointers'
  BY <1>1, <1>2 DEF Pointers, RunPointers, MatchPointers, TypeOK
<1>4. entry' \in [Users -> Clients \cup {NoClient}]
  BY DEF GraceTimerFires, Expire, RemoveExpired, DeleteOwnEntry, TypeOK
<1>5. /\ members' \in [Rooms -> SUBSET Clients]
      /\ phase' \in [Rooms -> {"waiting", "active", "finished"}]
      /\ closing' \subseteq Rooms
  BY <1>2, TypeRemovePlayer DEF GraceTimerFires, Expire, RemoveExpired, rooms, TypeOK
<1>6. TypeOK'
  BY <1>1, <1>2, <1>4, <1>5 DEF TypeOK
<1>7. EntriesAreTimed'
  <2>1. CASE GraceTimerFires(c)
    BY <1>1, <2>1 DEF GraceTimerFires, EntriesAreTimed, InMap, TypeOK
  <2>2. CASE Expire(c)
    BY <1>1, <2>2, HubUsers DEF Expire, DeleteOwnEntry, EntriesAreTimed, InMap, TypeOK
  <2>3. CASE RemoveExpired(c)
    BY <1>1, <2>3 DEF RemoveExpired, EntriesAreTimed, InMap, TypeOK
  <2> QED
    BY <2>1, <2>2, <2>3
<1> QED
  BY <1>3, <1>6, <1>7

LEMMA TypeGame ==
  ASSUME TypeInv, NEW r \in Rooms, Play(r) \/ EndGame(r) \/ RemoveRoom(r)
  PROVE  TypeInv'
<1> USE DEF TypeInv
<1>1. UNCHANGED <<link, busy, clientRoom, refused, queue, match, entry, timer, kind,
                  members, run, messages>>
  BY DEF Play, EndGame, RemoveRoom, connections, matchmaker, graces
<1>2. /\ phase' \in [Rooms -> {"waiting", "active", "finished"}]
      /\ closing' \subseteq Rooms /\ listed' \subseteq Rooms
  BY DEF Play, EndGame, RemoveRoom, TypeOK
<1> QED
  BY <1>1, <1>2 DEF TypeOK, Pointers, RunPointers, MatchPointers, EntriesAreTimed, InMap

LEMMA TypeStep == TypeInv /\ [Next]_vars => TypeInv'
<1> SUFFICES ASSUME TypeInv, [Next]_vars PROVE TypeInv'
  OBVIOUS
<1>1. CASE UNCHANGED vars
  BY <1>1 DEF vars, connections, matchmaker, graces, rooms, TypeInv, TypeOK, Pointers,
     RunPointers, MatchPointers, EntriesAreTimed, InMap
<1> QED
  BY <1>1, NextCases, TypeCreateRoom, TypeJoinRoom, TypeJoinQueue, TypeMeetOpponent,
     TypeMatch, TypeLeave, TypeDropOrUnqueue, TypeRegister, TypeReconnect,
     TypeUnregister, TypeGrace, TypeGame

\* Hub is type correct, and no pointer that is used is nil.
THEOREM TypeCorrect == Spec => []TypeOK
<1>1. TypeInv => TypeOK
  BY DEF TypeInv
<1> QED
  BY <1>1, TypeInit, TypeStep, PTL DEF Spec

\* No entry of the table of disconnected players outlives its grace timer.
THEOREM EntriesAreAlwaysTimed == Spec => []EntriesAreTimed
<1>1. TypeInv => EntriesAreTimed
  BY DEF TypeInv
<1> QED
  BY <1>1, TypeInit, TypeStep, PTL DEF Spec

\* An entry of the table goes away only with its own timer or its own user.
THEOREM EntriesAreKept == Spec => EntryKept
<1> DEFINE Kept == \A u \in InMap : entry'[u] = NoClient =>
                     timer'[entry[u]] = "removing" \/ run'.old = entry[u]
<1>1. TypeInv /\ [Next]_vars => Kept
  <2> SUFFICES ASSUME TypeInv, [Next]_vars, NEW u \in InMap, entry'[u] = NoClient
               PROVE  timer'[entry[u]] = "removing" \/ run'.old = entry[u]
    OBVIOUS
  <2>1. u \in Users /\ entry[u] # NoClient /\ entry[u] \in Clients
    BY DEF InMap, TypeInv, TypeOK
  <2>2. CASE TakeEntry
    <3> DEFINE v == UserOf[run.c]
    <3>1. \/ UNCHANGED entry
          \/ /\ entry' = [entry EXCEPT ![v] = NoClient]
             /\ run' = [run EXCEPT !.op = "taking", !.old = entry[v]]
      BY <2>2 DEF TakeEntry, DeleteEntry, graces
    <3>2. (entry \in [Users -> Clients \cup {NoClient}] /\ run'.old = entry[v]) \/ UNCHANGED entry
      BY <3>1 DEF TypeInv, TypeOK
    <3> QED
      BY <2>1, <3>1, <3>2
  <2>3. CASE \E c \in Clients : Expire(c)
    BY <2>1, <2>3 DEF Expire, DeleteOwnEntry, TypeInv, TypeOK
  <2>4. CASE StartGrace
    <3>1. run.c \in Clients
      BY <2>4 DEF StartGrace, TypeInv, Pointers, RunPointers
    <3>2. UNCHANGED entry \/ entry' = [entry EXCEPT ![UserOf[run.c]] = run.c]
      BY <2>4 DEF StartGrace, graces
    <3> QED
      BY <2>1, <3>1, <3>2, HubUsers DEF TypeInv, TypeOK
  <2>5. CASE UNCHANGED entry
    BY <2>1, <2>5
  <2>6. \/ TakeEntry \/ (\E c \in Clients : Expire(c)) \/ StartGrace \/ UNCHANGED entry
    BY NextCases DEF CreateRoom, LookUpRoom, EnterRoom, JoinQueue, MeetOpponent,
       GuestEnters, ListMatch, LeaveRoom, ForgetRoom, LeaveQueue, Drop, Register,
       Unregister, TakeSeat, RemoveFromQueue, ReadRoomState, RemoveDropped,
       GraceTimerFires, RemoveExpired, Play, EndGame, RemoveRoom, graces, vars
  <2> QED
    BY <2>2, <2>3, <2>4, <2>5, <2>6
<1> QED
  BY <1>1, TypeInit, TypeStep, PTL DEF Spec, EntryKept

-----------------------------------------------------------------------------
(***************************************************************************)
(* The local queue is sound.                                               *)
(***************************************************************************)
LEMMA QueueInit == Init => QueueIsSound
  BY DEF Init, QueueIsSound, WaitersArePresent, WaitersAreDistinct

\* A queue without its i-th entry has no new entries, and not that one.
LEMMA Shrinks ==
  ASSUME TypeOK, WaitersAreDistinct,
         NEW i \in DOMAIN queue, queue' = RemoveAt(queue, i)
  PROVE  /\ WaitersAreDistinct'
         /\ \A j \in DOMAIN queue' :
              \E k \in DOMAIN queue : k # i /\ queue'[j] = queue[k]
<1> DEFINE from(j) == IF j < i THEN j ELSE j + 1
<1>1. queue \in Seq(Entries) /\ i \in 1..Len(queue)
  BY SequenceElement DEF TypeOK
<1>2. /\ queue' \in Seq(Entries) /\ Len(queue') = Len(queue) - 1
      /\ \A j \in 1..(Len(queue) - 1) :
           queue'[j] = IF j < i THEN queue[j] ELSE queue[j + 1]
  BY <1>1, RemoveAtLemma
<1>3. DOMAIN queue' = 1..(Len(queue) - 1) /\ DOMAIN queue = 1..Len(queue)
  BY <1>1, <1>2
<1>4. ASSUME NEW j \in DOMAIN queue'
      PROVE  from(j) \in DOMAIN queue /\ from(j) # i /\ queue'[j] = queue[from(j)]
  BY <1>1, <1>2, <1>3
<1>5. \A j \in DOMAIN queue' : \E k \in DOMAIN queue : k # i /\ queue'[j] = queue[k]
  BY <1>4
<1>6. ASSUME NEW j \in DOMAIN queue', NEW k \in DOMAIN queue',
             UserOf[queue'[j].client] = UserOf[queue'[k].client]
      PROVE  j = k
  <2>1. from(j) = from(k)
    BY <1>4, <1>6 DEF WaitersAreDistinct
  <2> QED
    BY <1>3, <2>1
<1> QED
  BY <1>5, <1>6 DEF WaitersAreDistinct

LEMMA QueueStep == TypeInv /\ QueueIsSound /\ [Next]_vars => QueueIsSound'
<1> SUFFICES ASSUME TypeInv, QueueIsSound, [Next]_vars PROVE QueueIsSound'
  OBVIOUS
<1> USE DEF QueueIsSound, TypeInv
<1>0. queue \in Seq(Entries) /\ link \in [Clients -> {"idle", "open", "exiting", "closed"}]
      /\ \A i \in DOMAIN queue : queue[i].client \in Clients
  <2>1. queue \in Seq(Entries)
    BY DEF TypeOK
  <2>2. ASSUME NEW i \in DOMAIN queue PROVE queue[i] \in Entries
    BY <2>1, SequenceElement
  <2> QED
    BY <2>1, <2>2 DEF TypeOK, Entries
<1>1. ASSUME NEW c \in Clients, NEW b \in Buckets, JoinQueue(c, b) PROVE QueueIsSound'
  <2>1. /\ link[c] = "open" /\ ~Waits(UserOf[c])
        /\ queue' = Append(queue, [client |-> c, bucket |-> b])
        /\ UNCHANGED <<link, run>>
    BY <1>1 DEF JoinQueue, Handles, connections
  <2>2. /\ DOMAIN queue' = 1..(Len(queue) + 1) /\ DOMAIN queue = 1..Len(queue)
        /\ Len(queue) \in Nat
        /\ \A i \in DOMAIN queue : queue'[i] = queue[i]
        /\ queue'[Len(queue) + 1].client = c
    BY <1>0, <2>1
  <2>3. WaitersArePresent'
    BY <2>1, <2>2 DEF WaitersArePresent, Online
  <2>4. \A i \in DOMAIN queue : UserOf[queue[i].client] # UserOf[c]
    BY <2>1 DEF Waits
  <2>5. WaitersAreDistinct'
    BY <2>2, <2>4 DEF WaitersAreDistinct
  <2> QED
    BY <2>3, <2>5
<1>2. ASSUME NEW c \in Clients, NEW b \in Buckets, MeetOpponent(c, b) PROVE QueueIsSound'
  <2>1. PICK i \in DOMAIN queue : queue' = RemoveAt(queue, i)
    BY <1>2 DEF MeetOpponent, First, Candidates
  <2>2. UNCHANGED <<link, run>>
    BY <1>2 DEF MeetOpponent
  <2> QED
    BY <2>1, <2>2, Shrinks DEF WaitersArePresent, Online
<1>3. ASSUME NEW c \in Clients, LeaveQueue(c) PROVE QueueIsSound'
  <2>1. \/ UNCHANGED queue
        \/ \E i \in DOMAIN queue : queue' = RemoveAt(queue, i)
    BY <1>3 DEF LeaveQueue, Unqueue, First, EntriesOf
  <2>2. UNCHANGED <<link, run>>
    BY <1>3 DEF LeaveQueue
  <2>3. CASE UNCHANGED queue
    BY <2>2, <2>3 DEF WaitersArePresent, WaitersAreDistinct, Online
  <2>4. CASE \E i \in DOMAIN queue : queue' = RemoveAt(queue, i)
    BY <2>2, <2>4, Shrinks DEF WaitersArePresent, Online
  <2> QED
    BY <2>1, <2>3, <2>4
<1>4. ASSUME RemoveFromQueue PROVE QueueIsSound'
  <2> DEFINE u == UserOf[run.c]
  <2>1. run.op = "closed" /\ Unqueue(u) /\ UNCHANGED link
    BY <1>4 DEF RemoveFromQueue, connections
  <2>2. CASE EntriesOf(u) = {}
    <3>1. UNCHANGED queue /\ \A i \in DOMAIN queue : queue[i].client # run.c
      BY <2>1, <2>2 DEF Unqueue, EntriesOf
    <3> QED
      BY <2>1, <3>1 DEF WaitersArePresent, WaitersAreDistinct, Online
  <2>3. CASE EntriesOf(u) # {}
    <3>1. PICK i \in DOMAIN queue : UserOf[queue[i].client] = u /\ queue' = RemoveAt(queue, i)
      BY <2>1, <2>3 DEF Unqueue, EntriesOf, First
    <3>2. \A k \in DOMAIN queue : k # i => queue[k].client # run.c
      BY <3>1 DEF WaitersAreDistinct
    <3> QED
      BY <2>1, <3>1, <3>2, Shrinks DEF WaitersArePresent, Online
  <2> QED
    BY <2>2, <2>3
<1>5. ASSUME NEW c \in Clients, Register(c) \/ Unregister(c) \/ Drop(c)
      PROVE  QueueIsSound'
  BY <1>0, <1>5 DEF Register, Unregister, Drop, matchmaker, WaitersArePresent,
     WaitersAreDistinct, Online, Idle
<1>6. CASE UNCHANGED <<link, queue>> /\ (run.op = "closed" => UNCHANGED run)
  BY <1>6 DEF WaitersArePresent, WaitersAreDistinct, Online
<1> QED
  BY <1>1, <1>2, <1>3, <1>4, <1>5, <1>6, NextCases
     DEF CreateRoom, LookUpRoom, EnterRoom, GuestEnters, ListMatch, LeaveRoom, ForgetRoom,
         TakeEntry, TakeSeat, ReadRoomState, StartGrace, RemoveDropped, GraceTimerFires,
         Expire, RemoveExpired, Play, EndGame, RemoveRoom, matchmaker, connections, vars

\* Nobody waits in the queue who is gone or waits already.
THEOREM QueueIsAlwaysSound == Spec => []QueueIsSound
  BY TypeInit, TypeStep, QueueInit, QueueStep, PTL DEF Spec

-----------------------------------------------------------------------------
(***************************************************************************)
(* Seats.  Rooms that are pointed to have been born, so that opening a new *)
(* room takes nobody's seat, and a connection comes without a room.        *)
(***************************************************************************)
RoomsAreBorn ==
  /\ \A c \in Clients : clientRoom[c] # NoRoom => kind[clientRoom[c]] # "none"
  /\ \A c \in Clients : link[c] = "idle" => clientRoom[c] = NoRoom
  /\ match.step # "none" => kind[match.room] # "none"

SeatInv == NoForgottenSeat /\ RoomKnowsItsClient /\ RoomsAreBorn

LEMMA SeatInit == Init => SeatInv
  BY DEF Init, SeatInv, NoForgottenSeat, RoomKnowsItsClient, RoomsAreBorn, HasSeat,
         Online, NoMatch

\* A connection that is closed, or whose reader has no part in the step, keeps what
\* the three invariants say of it when its own state stays.
LEMMA SeatOpen ==
  ASSUME TypeInv, SeatInv, NEW c \in Clients, NEW r \in Rooms \ Born, NEW k,
         k # "none", OpenRoom(r, k, c), UNCHANGED <<link, timer, run, refused>>,
         Online(c) \/ (run.op = "closed" /\ run.c = c),
         \A d \in Clients : busy'[d] = busy[d] \/ busy[d].op # "leaving"
  PROVE  NoForgottenSeat' /\ RoomKnowsItsClient'
<1> USE DEF TypeInv, SeatInv
<1>1. /\ members' = [members EXCEPT ![r] = {c}]
      /\ clientRoom' = [clientRoom EXCEPT ![c] = r]
  BY DEF OpenRoom
<1>2. /\ members \in [Rooms -> SUBSET Clients]
      /\ clientRoom \in [Clients -> Rooms \cup {NoRoom}]
      /\ NoRoom \notin Rooms
  BY DEF TypeOK, Rooms, NoRoom
<1>3. HasSeat(c)' /\ r \in Rooms
  BY <1>1, <1>2 DEF HasSeat
<1>4. ASSUME NEW d \in Clients, d # c
      PROVE  clientRoom'[d] = clientRoom[d] /\ HasSeat(d)' = HasSeat(d)
  BY <1>1, <1>2, <1>4 DEF HasSeat, RoomsAreBorn, Born
<1>5. NoForgottenSeat'
  BY <1>3, <1>4 DEF NoForgottenSeat, Online
<1>6. RoomKnowsItsClient'
  BY <1>3, <1>4 DEF RoomKnowsItsClient, Online
<1> QED
  BY <1>5, <1>6

\* Entering a room that is there changes nothing for the others.
LEMMA SeatAdd ==
  ASSUME TypeInv, SeatInv, NEW c \in Clients, NEW r \in Rooms, kind[r] # "none",
         AddPlayer(r, c), UNCHANGED <<link, timer, run, refused, kind>>, Online(c),
         \A d \in Clients : busy'[d] = busy[d] \/ busy[d].op # "leaving"
  PROVE  /\ NoForgottenSeat' /\ RoomKnowsItsClient'
         /\ \A d \in Clients : clientRoom'[d] # NoRoom => kind'[clientRoom'[d]] # "none"
         /\ \A d \in Clients : link'[d] = "idle" => clientRoom'[d] = NoRoom
<1> USE DEF TypeInv, SeatInv
<1>1. /\ members \in [Rooms -> SUBSET Clients]
      /\ clientRoom \in [Clients -> Rooms \cup {NoRoom}]
      /\ NoRoom \notin Rooms
  BY DEF TypeOK, Rooms, NoRoom
<1>2. \/ UNCHANGED <<members, clientRoom>>
      \/ /\ members' = [members EXCEPT ![r] = @ \cup {c}]
         /\ clientRoom' = [clientRoom EXCEPT ![c] = r]
  BY DEF AddPlayer
<1>3. CASE UNCHANGED <<members, clientRoom>>
  BY <1>3 DEF NoForgottenSeat, RoomKnowsItsClient, RoomsAreBorn, HasSeat, Online
<1>4. CASE /\ members' = [members EXCEPT ![r] = @ \cup {c}]
           /\ clientRoom' = [clientRoom EXCEPT ![c] = r]
  <2>1. HasSeat(c)'
    BY <1>1, <1>4 DEF HasSeat
  <2>2. ASSUME NEW d \in Clients, d # c
        PROVE  clientRoom'[d] = clientRoom[d] /\ HasSeat(d)' = HasSeat(d)
    BY <1>1, <1>4, <2>2 DEF HasSeat
  <2>3. NoForgottenSeat'
    BY <2>2 DEF NoForgottenSeat, Online
  <2>4. RoomKnowsItsClient'
    BY <2>1, <2>2 DEF RoomKnowsItsClient, Online
  <2>5. /\ \A d \in Clients : clientRoom'[d] # NoRoom => kind'[clientRoom'[d]] # "none"
        /\ \A d \in Clients : link'[d] = "idle" => clientRoom'[d] = NoRoom
    BY <1>1, <1>4, <2>2 DEF RoomsAreBorn, Online
  <2> QED
    BY <2>3, <2>4, <2>5
<1> QED
  BY <1>2, <1>3, <1>4

\* A connection that leaves its room loses its seat, the others keep theirs.
LEMMA SeatRemove ==
  ASSUME TypeInv, NEW c \in Clients, clientRoom[c] \in Rooms,
         RemovePlayer(clientRoom[c], c), UNCHANGED clientRoom
  PROVE  /\ ~HasSeat(c)'
         /\ \A d \in Clients \ {c} : HasSeat(d)' = HasSeat(d)
  BY DEF RemovePlayer, HasSeat, TypeInv, TypeOK

LEMMA SeatEnter ==
  ASSUME TypeInv, QueueIsSound, SeatInv, NEW c \in Clients,
         \/ \E k \in {"solo", "battle"} : CreateRoom(c, k)
         \/ \E r \in Rooms : LookUpRoom(c, r)
         \/ EnterRoom(c)
         \/ \E b \in Buckets : JoinQueue(c, b) \/ MeetOpponent(c, b)
  PROVE  SeatInv'
<1> USE DEF TypeInv, SeatInv
<1>1. ASSUME NEW k \in {"solo", "battle"}, CreateRoom(c, k) PROVE SeatInv'
  <2>1. PICK r \in Rooms \ Born : OpenRoom(r, k, c)
    BY <1>1 DEF CreateRoom, NewRoom, First
  <2>2. /\ UNCHANGED <<link, timer, run, refused, busy, match>> /\ link[c] = "open"
    BY <1>1 DEF CreateRoom, Handles, matchmaker, graces
  <2>3. NoForgottenSeat' /\ RoomKnowsItsClient'
    BY <2>1, <2>2, SeatOpen DEF Online
  <2>4. RoomsAreBorn'
    BY <2>1, <2>2 DEF OpenRoom, RoomsAreBorn, TypeOK, Pointers, MatchPointers
  <2> QED
    BY <2>3, <2>4
<1>2. ASSUME NEW r \in Rooms, LookUpRoom(c, r) PROVE SeatInv'
  <2>1. /\ UNCHANGED <<link, timer, run, refused, clientRoom, members, kind, match>>
        /\ busy[c].op = "none" /\ busy' = [busy EXCEPT ![c] = [op |-> "joining", room |-> r]]
    BY <1>2 DEF LookUpRoom, Handles, Free, matchmaker, graces, rooms
  <2>2. \A d \in Clients : busy'[d] = busy[d] \/ busy[d].op = "none"
    BY <2>1 DEF TypeOK
  <2> QED
    BY <2>1, <2>2 DEF NoForgottenSeat, RoomKnowsItsClient, RoomsAreBorn, HasSeat, Online
<1>3. ASSUME EnterRoom(c) PROVE SeatInv'
  <2> DEFINE r == busy[c].room
  <2>1. /\ busy[c].op = "joining" /\ r \in Rooms /\ kind[r] = "battle" /\ Online(c)
        /\ AddPlayer(r, c) /\ busy' = [busy EXCEPT ![c] = Free]
        /\ UNCHANGED <<link, timer, run, refused, kind, match>>
    BY <1>3 DEF EnterRoom, Pointers, Online, matchmaker, graces
  <2>2. \A d \in Clients : busy'[d] = busy[d] \/ busy[d].op # "leaving"
    BY <2>1 DEF TypeOK
  <2>3. kind[r] # "none"
    BY <2>1
  <2> HIDE DEF r
  <2> QED
    BY <2>1, <2>2, <2>3, SeatAdd DEF RoomsAreBorn
<1>4. ASSUME NEW b \in Buckets, JoinQueue(c, b) PROVE SeatInv'
  <2>1. UNCHANGED <<link, timer, run, refused, clientRoom, members, kind, match, busy>>
    BY <1>4 DEF JoinQueue, connections, graces, rooms
  <2> QED
    BY <2>1 DEF NoForgottenSeat, RoomKnowsItsClient, RoomsAreBorn, HasSeat, Online
<1>5. ASSUME NEW b \in Buckets, MeetOpponent(c, b) PROVE SeatInv'
  <2>1. PICK i \in First(Candidates(b)), r \in NewRoom :
          /\ OpenRoom(r, "duel", queue[i].client)
          /\ match' = [step |-> "guest", room |-> r, guest |-> c]
          /\ busy' = [busy EXCEPT ![c] = [op |-> "matching", room |-> r]]
    BY <1>5 DEF MeetOpponent
  <2> DEFINE d == queue[i].client
  <2>2. /\ i \in DOMAIN queue /\ r \in Rooms \ Born
        /\ UNCHANGED <<link, timer, run, refused>> /\ busy[c].op = "none"
    BY <1>5 DEF MeetOpponent, First, Candidates, NewRoom, graces, Handles, Free
  <2>3. d \in Clients
    <3>1. queue \in Seq(Entries)
      BY DEF TypeOK
    <3>2. queue[i] \in Entries
      BY <2>2, <3>1, SequenceElement
    <3> QED
      BY <3>2 DEF Entries
  <2>4. Online(d) \/ (run.op = "closed" /\ run.c = d)
    BY <2>2 DEF QueueIsSound, WaitersArePresent
  <2>5. \A e \in Clients : busy'[e] = busy[e] \/ busy[e].op # "leaving"
    BY <2>1, <2>2 DEF TypeOK
  <2> HIDE DEF d
  <2>6. OpenRoom(r, "duel", d)
    BY <2>1 DEF d
  <2>7. NoForgottenSeat' /\ RoomKnowsItsClient'
    BY <2>2, <2>3, <2>4, <2>5, <2>6, SeatOpen
  <2>8. RoomsAreBorn'
    <3>1. link[d] # "idle"
      BY <2>4 DEF Online, Pointers, RunPointers
    <3> QED
      BY <2>1, <2>2, <2>3, <2>6, <3>1 DEF OpenRoom, RoomsAreBorn, TypeOK
  <2> QED
    BY <2>7, <2>8
<1> QED
  BY <1>1, <1>2, <1>3, <1>4, <1>5

LEMMA SeatMatch ==
  ASSUME TypeInv, SeatInv, GuestEnters \/ ListMatch
  PROVE  SeatInv'
<1> USE DEF TypeInv, SeatInv
<1>1. CASE GuestEnters
  <2> DEFINE r == match.room
             c == match.guest
  <2>1. /\ match.step = "guest" /\ AddPlayer(r, c)
        /\ match' = [match EXCEPT !.step = "list"]
        /\ UNCHANGED <<link, timer, run, refused, kind, busy>>
    BY <1>1 DEF GuestEnters, graces
  <2>2. c \in Clients /\ r \in Rooms /\ link[c] = "open" /\ kind[r] # "none"
    BY <2>1 DEF Pointers, MatchPointers, RoomsAreBorn
  <2>3. match'.room = r
    BY <2>1 DEF TypeOK
  <2> HIDE DEF r, c
  <2> QED
    BY <2>1, <2>2, <2>3, SeatAdd DEF RoomsAreBorn, Online
<1>2. CASE ListMatch
  <2>1. /\ match.step = "list" /\ match' = NoMatch
        /\ busy' = [busy EXCEPT ![match.guest] = Free]
        /\ UNCHANGED <<link, timer, run, refused, kind, clientRoom, members>>
    BY <1>2 DEF ListMatch, graces
  <2>2. \A d \in Clients : busy'[d] = busy[d] \/ busy[d].op = "matching"
    BY <2>1 DEF TypeOK, Pointers, MatchPointers
  <2> QED
    BY <2>1, <2>2 DEF NoForgottenSeat, RoomKnowsItsClient, RoomsAreBorn, HasSeat, Online,
       NoMatch
<1> QED
  BY <1>1, <1>2

LEMMA SeatLeave ==
  ASSUME TypeInv, SeatInv, NEW c \in Clients,
         LeaveRoom(c) \/ ForgetRoom(c) \/ LeaveQueue(c) \/ Drop(c)
  PROVE  SeatInv'
<1> USE DEF TypeInv, SeatInv
<1>1. UNCHANGED <<timer, run, refused, kind, match>>
  BY DEF LeaveRoom, ForgetRoom, LeaveQueue, Drop, matchmaker, graces, rooms, RemovePlayer
<1>2. busy \in [Clients -> Handling] /\ clientRoom \in [Clients -> Rooms \cup {NoRoom}]
      /\ link \in [Clients -> {"idle", "open", "exiting", "closed"}]
  BY DEF TypeOK
<1>3. CASE LeaveRoom(c)
  <2>1. link[c] = "open" /\ UNCHANGED <<link, clientRoom>>
    BY <1>3 DEF LeaveRoom, Handles
  <2>2. CASE clientRoom[c] = NoRoom
    <3>1. /\ busy' = [busy EXCEPT ![c] = [op |-> "unqueueing", room |-> NoRoom]]
          /\ UNCHANGED members
      BY <1>3, <2>2 DEF LeaveRoom, rooms
    <3> QED
      BY <1>1, <1>2, <2>1, <2>2, <3>1
         DEF NoForgottenSeat, RoomKnowsItsClient, RoomsAreBorn, HasSeat, Online
  <2>3. CASE clientRoom[c] # NoRoom
    <3>1. /\ clientRoom[c] \in Rooms /\ RemovePlayer(clientRoom[c], c)
          /\ busy' = [busy EXCEPT ![c] = [op |-> "leaving", room |-> clientRoom[c]]]
      BY <1>2, <1>3, <2>3 DEF LeaveRoom
    <3>2. busy'[c].op = "leaving" /\ \A d \in Clients \ {c} : busy'[d] = busy[d]
      BY <1>2, <3>1
    <3>3. \A d \in Clients \ {c} : HasSeat(d)' = HasSeat(d)
      BY <2>1, <3>1, SeatRemove
    <3>4. NoForgottenSeat'
      BY <1>1, <2>1, <3>3 DEF NoForgottenSeat
    <3>5. RoomKnowsItsClient'
      BY <2>1, <3>2, <3>3 DEF RoomKnowsItsClient, Online
    <3> QED
      BY <1>1, <2>1, <3>4, <3>5 DEF RoomsAreBorn
  <2> QED
    BY <2>2, <2>3
<1>4. CASE ForgetRoom(c)
  <2>1. /\ busy[c].op = "leaving" /\ link[c] = "open" /\ UNCHANGED <<link, members>>
        /\ clientRoom' = [clientRoom EXCEPT ![c] = NoRoom]
        /\ busy' = [busy EXCEPT ![c] = [op |-> "unqueueing", room |-> NoRoom]]
    BY <1>4 DEF ForgetRoom, SetRoomNil, rooms, Pointers
  <2>2. /\ clientRoom'[c] = NoRoom
        /\ \A d \in Clients \ {c} : clientRoom'[d] = clientRoom[d] /\ busy'[d] = busy[d]
    BY <1>2, <2>1
  <2> QED
    BY <1>1, <2>1, <2>2
       DEF NoForgottenSeat, RoomKnowsItsClient, RoomsAreBorn, HasSeat, Online
<1>5. CASE LeaveQueue(c)
  <2>1. /\ busy[c].op = "unqueueing" /\ UNCHANGED <<link, members, clientRoom>>
        /\ busy' = [busy EXCEPT ![c] = Free]
    BY <1>5 DEF LeaveQueue, rooms
  <2>2. \A d \in Clients : busy'[d] = busy[d] \/ busy[d].op # "leaving"
    BY <1>2, <2>1
  <2> QED
    BY <1>1, <2>1, <2>2
       DEF NoForgottenSeat, RoomKnowsItsClient, RoomsAreBorn, HasSeat, Online
<1>6. CASE Drop(c)
  <2>1. /\ link[c] = "open" /\ link' = [link EXCEPT ![c] = "exiting"]
        /\ UNCHANGED <<busy, members, clientRoom>>
    BY <1>6 DEF Drop, rooms
  <2> QED
    BY <1>1, <1>2, <2>1
       DEF NoForgottenSeat, RoomKnowsItsClient, RoomsAreBorn, HasSeat, Online
<1> QED
  BY <1>3, <1>4, <1>5, <1>6

LEMMA SeatRegister ==
  ASSUME TypeInv, SeatInv, NEW c \in Clients, Register(c) \/ Unregister(c)
  PROVE  SeatInv'
<1> USE DEF TypeInv, SeatInv
<1>1. /\ UNCHANGED <<busy, clientRoom, refused, match, timer, kind, members>>
      /\ run = Idle
      /\ \/ /\ link[c] = "idle" /\ link' = [link EXCEPT ![c] = "open"]
         \/ /\ link[c] = "exiting" /\ link' = [link EXCEPT ![c] = "closed"]
            /\ run' = [op |-> "closed", c |-> c, old |-> NoClient]
  BY DEF Register, Unregister, matchmaker, graces, rooms
<1>2. link \in [Clients -> {"idle", "open", "exiting", "closed"}]
  BY DEF TypeOK
<1>3. \A d \in Clients \ {c} : link'[d] = link[d]
  BY <1>1, <1>2
<1>4. NoForgottenSeat'
  BY <1>1, <1>2, <1>3 DEF NoForgottenSeat, HasSeat, Idle
<1> QED
  BY <1>1, <1>2, <1>3, <1>4 DEF RoomKnowsItsClient, RoomsAreBorn, HasSeat, Online

LEMMA SeatReconnect ==
  ASSUME TypeInv, SeatInv, TakeEntry \/ TakeSeat
  PROVE  SeatInv'
<1> USE DEF TypeInv, SeatInv
<1>1. UNCHANGED <<link, busy, match, kind>>
  BY DEF TakeEntry, TakeSeat, connections, matchmaker, rooms
<1>2. CASE TakeEntry
  <2> DEFINE old == entry[UserOf[run.c]]
  <2>1. run.op = "registered" /\ UNCHANGED <<clientRoom, refused, members>>
    BY <1>2 DEF TakeEntry, connections, rooms
  <2>2. \/ run' = Idle /\ UNCHANGED timer
        \/ /\ timer' = [timer EXCEPT ![old] = IF @ = "running" THEN "none" ELSE @]
           /\ run' = [run EXCEPT !.op = "taking", !.old = old]
    BY <1>2 DEF TakeEntry, graces
  <2> HIDE DEF old
  <2>3. \A c \in Clients : timer'[c] = timer[c] \/ (run'.op = "taking" /\ run'.old = c)
    <3>1. /\ timer \in [Clients -> {"none", "running", "fired", "removing"}]
          /\ run = [op |-> run.op, c |-> run.c, old |-> run.old]
      BY DEF TypeOK
    <3>2. CASE UNCHANGED timer
      BY <3>2
    <3>3. CASE /\ timer' = [timer EXCEPT ![old] = IF @ = "running" THEN "none" ELSE @]
               /\ run' = [run EXCEPT !.op = "taking", !.old = old]
      <4>1. run'.op = "taking" /\ run'.old = old
        BY <3>1, <3>3
      <4>2. \A c \in Clients : c # old => timer'[c] = timer[c]
        BY <3>1, <3>3
      <4> QED
        BY <4>1, <4>2
    <3> QED
      BY <2>2, <3>2, <3>3
  <2>4. NoForgottenSeat'
    BY <1>1, <2>1, <2>3 DEF NoForgottenSeat, HasSeat
  <2> QED
    BY <1>1, <2>1, <2>4 DEF RoomKnowsItsClient, RoomsAreBorn, HasSeat, Online
<1>3. CASE TakeSeat
  <2>0. PICK old \in Clients, new \in Clients, r \in Rooms \cup {NoRoom} :
          old = run.old /\ new = run.c /\ r = clientRoom[old]
    BY <1>3 DEF TakeSeat, Pointers, RunPointers, TypeOK
  <2>1. /\ run.op = "taking" /\ Online(new) /\ link[old] = "closed"
        /\ run' = Idle /\ UNCHANGED timer
    BY <1>3, <2>0 DEF TakeSeat, Pointers, RunPointers, Online, graces
  <2>2. /\ members \in [Rooms -> SUBSET Clients] /\ refused \subseteq Clients
        /\ clientRoom \in [Clients -> Rooms \cup {NoRoom}]
        /\ NoRoom \notin Rooms
    BY DEF TypeOK, Rooms, NoRoom
  <2>3. \/ /\ r = NoRoom \/ old \in members[r]
           /\ members' = [members EXCEPT ![r] = (@ \ {old}) \cup {new}]
           /\ clientRoom' = [clientRoom EXCEPT ![new] = r]
           /\ UNCHANGED refused
        \/ refused' = refused \cup {old} /\ UNCHANGED <<members, clientRoom>>
    BY <1>3, <2>0 DEF TakeSeat
  <2>4. \A c \in Clients : c # old => run.old # c
    BY <2>0
  <2>5. r = clientRoom[old]
    BY <2>0
  <2>6. new # old /\ run.c = new
    BY <2>0, <2>1 DEF Online
  <2>7. CASE /\ members' = [members EXCEPT ![r] = (@ \ {old}) \cup {new}]
             /\ clientRoom' = [clientRoom EXCEPT ![new] = r]
             /\ UNCHANGED refused
    <3>1. ~HasSeat(old)'
      BY <2>1, <2>2, <2>5, <2>6, <2>7 DEF HasSeat
    <3>2. \A c \in Clients \ {old, new} :
            clientRoom'[c] = clientRoom[c] /\ HasSeat(c)' = HasSeat(c)
      BY <2>1, <2>2, <2>5, <2>6, <2>7 DEF HasSeat
    <3>3. clientRoom'[new] = r /\ (r # NoRoom => HasSeat(new)')
      BY <2>1, <2>2, <2>5, <2>6, <2>7 DEF HasSeat
    <3>4. NoForgottenSeat'
      <4> SUFFICES ASSUME NEW c \in Clients, link'[c] = "closed", HasSeat(c)',
                          c \notin refused'
                   PROVE  timer'[c] # "none"
        BY DEF NoForgottenSeat
      <4>1. c # old /\ c # new
        BY <1>1, <2>1, <3>1 DEF Online
      <4> QED
        BY <1>1, <2>1, <2>4, <2>7, <3>2, <4>1 DEF NoForgottenSeat
    <3>5. RoomKnowsItsClient'
      BY <1>1, <2>1, <3>2, <3>3 DEF RoomKnowsItsClient, Online
    <3>6. RoomsAreBorn'
      BY <1>1, <2>1, <2>5, <2>6, <3>2, <3>3, <2>7 DEF RoomsAreBorn, Online
    <3> QED
      BY <3>4, <3>5, <3>6
  <2>8. CASE refused' = refused \cup {old} /\ UNCHANGED <<members, clientRoom>>
    <3>1. NoForgottenSeat'
      BY <1>1, <2>1, <2>4, <2>8 DEF NoForgottenSeat, HasSeat
    <3> QED
      BY <1>1, <2>8, <3>1 DEF RoomKnowsItsClient, RoomsAreBorn, HasSeat, Online
  <2> QED
    BY <2>3, <2>7, <2>8
<1> QED
  BY <1>2, <1>3

LEMMA SeatUnregister ==
  ASSUME TypeInv, SeatInv,
         RemoveFromQueue \/ ReadRoomState \/ StartGrace \/ RemoveDropped
  PROVE  SeatInv'
<1> USE DEF TypeInv, SeatInv
<1>0. PICK c \in Clients : c = run.c
  BY DEF RemoveFromQueue, ReadRoomState, StartGrace, RemoveDropped, Pointers, RunPointers
<1>1. UNCHANGED <<link, busy, clientRoom, refused, match, kind>>
  BY DEF RemoveFromQueue, ReadRoomState, StartGrace, RemoveDropped, RemovePlayer,
     connections, matchmaker, rooms
<1>2. run.c = c /\ link[c] = "closed"
      /\ run.op \in {"closed", "unqueued", "gracing", "removing"}
  BY <1>0 DEF RemoveFromQueue, ReadRoomState, StartGrace, RemoveDropped, Pointers,
     RunPointers
<1>3. CASE RemoveFromQueue \/ ReadRoomState
  <2>1. UNCHANGED <<members, timer>>
    BY <1>3 DEF RemoveFromQueue, ReadRoomState, graces, rooms
  <2>2. \/ run' = Idle /\ clientRoom[c] = NoRoom
        \/ \E op \in {"unqueued", "gracing", "removing"} : run' = [run EXCEPT !.op = op]
    BY <1>2, <1>3 DEF RemoveFromQueue, ReadRoomState, Decide
  <2>3. \/ ~HasSeat(c)
        \/ run'.c = c /\ run'.op \in {"unqueued", "gracing", "removing"}
    BY <1>2, <2>2 DEF HasSeat, TypeOK
  <2>4. NoForgottenSeat'
    BY <1>1, <1>2, <2>1, <2>3 DEF NoForgottenSeat, HasSeat
  <2> QED
    BY <1>1, <2>1, <2>4 DEF RoomKnowsItsClient, RoomsAreBorn, HasSeat, Online
<1>4. CASE StartGrace
  <2>1. UNCHANGED members
    BY <1>4 DEF StartGrace, rooms
  <2>2. \/ run' = [run EXCEPT !.op = "removing"] /\ UNCHANGED timer
        \/ timer' = [timer EXCEPT ![c] = "running"]
    BY <1>2, <1>4 DEF StartGrace, RemoveAtOnce, graces
  <2>3. /\ \A d \in Clients \ {c} : timer'[d] = timer[d]
        /\ timer'[c] # "none" \/ (run'.c = c /\ run'.op = "removing")
    BY <1>2, <2>2 DEF TypeOK
  <2>4. NoForgottenSeat'
    BY <1>1, <1>2, <2>1, <2>3 DEF NoForgottenSeat, HasSeat
  <2> QED
    BY <1>1, <2>1, <2>4 DEF RoomKnowsItsClient, RoomsAreBorn, HasSeat, Online
<1>5. CASE RemoveDropped
  <2>1. UNCHANGED timer /\ RemovePlayer(clientRoom[c], c) /\ clientRoom[c] \in Rooms
    BY <1>2, <1>5 DEF RemoveDropped, graces, TypeOK
  <2>2. ~HasSeat(c)' /\ \A d \in Clients \ {c} : HasSeat(d)' = HasSeat(d)
    BY <1>1, <1>2, <2>1, SeatRemove
  <2>3. NoForgottenSeat'
    BY <1>1, <1>2, <2>1, <2>2 DEF NoForgottenSeat
  <2>4. RoomKnowsItsClient'
    BY <1>1, <1>2, <2>2 DEF RoomKnowsItsClient, Online
  <2> QED
    BY <1>1, <2>3, <2>4 DEF RoomsAreBorn
<1> QED
  BY <1>3, <1>4, <1>5

LEMMA SeatGrace ==
  ASSUME TypeInv, SeatInv, NEW c \in Clients,
         GraceTimerFires(c) \/ Expire(c) \/ RemoveExpired(c)
  PROVE  SeatInv'
<1> USE DEF TypeInv, SeatInv
<1>1. /\ UNCHANGED <<link, busy, clientRoom, refused, match, kind, run>>
      /\ link[c] = "closed" /\ clientRoom[c] \in Rooms
  BY DEF GraceTimerFires, Expire, RemoveExpired, RemovePlayer, connections, matchmaker,
     rooms, Pointers, TypeOK
<1>2. CASE GraceTimerFires(c) \/ Expire(c)
  <2>1. UNCHANGED members /\ \E t \in {"fired", "removing"} : timer' = [timer EXCEPT ![c] = t]
    BY <1>2 DEF GraceTimerFires, Expire, rooms
  <2>2. \A d \in Clients : timer[d] # "none" => timer'[d] # "none"
    BY <2>1 DEF TypeOK
  <2> QED
    BY <1>1, <2>1, <2>2
       DEF NoForgottenSeat, RoomKnowsItsClient, RoomsAreBorn, HasSeat, Online
<1>3. CASE RemoveExpired(c)
  <2>1. /\ RemovePlayer(clientRoom[c], c) /\ UNCHANGED clientRoom
        /\ timer' = [timer EXCEPT ![c] = "none"]
    BY <1>1, <1>3 DEF RemoveExpired
  <2>2. ~HasSeat(c)' /\ \A d \in Clients \ {c} : HasSeat(d)' = HasSeat(d)
    BY <1>1, <2>1, SeatRemove
  <2>3. NoForgottenSeat'
    BY <1>1, <2>1, <2>2 DEF NoForgottenSeat, TypeOK
  <2>4. RoomKnowsItsClient'
    BY <1>1, <2>2 DEF RoomKnowsItsClient, Online
  <2> QED
    BY <1>1, <2>3, <2>4 DEF RoomsAreBorn
<1> QED
  BY <1>2, <1>3

LEMMA SeatStep == TypeInv /\ QueueIsSound /\ SeatInv /\ [Next]_vars => SeatInv'
<1> SUFFICES ASSUME TypeInv, QueueIsSound, SeatInv, [Next]_vars PROVE SeatInv'
  OBVIOUS
<1>1. CASE UNCHANGED vars
  BY <1>1 DEF vars, connections, matchmaker, graces, rooms, SeatInv, NoForgottenSeat,
     RoomKnowsItsClient, RoomsAreBorn, HasSeat, Online
<1>2. ASSUME NEW r \in Rooms, Play(r) \/ EndGame(r) \/ RemoveRoom(r) PROVE SeatInv'
  BY <1>2 DEF Play, EndGame, RemoveRoom, connections, matchmaker, graces, SeatInv,
     NoForgottenSeat, RoomKnowsItsClient, RoomsAreBorn, HasSeat, Online
<1> QED
  BY <1>1, <1>2, NextCases, SeatEnter, SeatMatch, SeatLeave, SeatRegister, SeatReconnect,
     SeatUnregister, SeatGrace

LEMMA SeatsAlways == Spec => []SeatInv
  BY TypeInit, TypeStep, QueueInit, QueueStep, SeatInit, SeatStep, PTL DEF Spec

\* The seat of a connection that is gone is never forgotten.
THEOREM NoSeatIsForgotten == Spec => []NoForgottenSeat
<1>1. SeatInv => NoForgottenSeat
  BY DEF SeatInv
<1> QED
  BY <1>1, SeatsAlways, PTL

\* The room a connection's messages go to has its seat.
THEOREM RoomsKnowTheirClients == Spec => []RoomKnowsItsClient
<1>1. SeatInv => RoomKnowsItsClient
  BY DEF SeatInv
<1> QED
  BY <1>1, SeatsAlways, PTL

-----------------------------------------------------------------------------
(***************************************************************************)
(* Rooms keep their contract.  GraceInv says why a takeover is the Swap of *)
(* the contract: a room with a grace timer has left "waiting", so nobody   *)
(* has entered it since, and a connection that registers comes without a   *)
(* seat; hence the new connection is not in the room yet.                  *)
(***************************************************************************)
BeingClosed == run.op \in {"closed", "unqueued", "gracing", "removing"}

UnbornRooms ==
  \A r \in Rooms : kind[r] = "none" => phase[r] = "waiting" /\ members[r] = {}

NewcomersHaveNoSeat ==
  \A c \in Clients : link[c] = "idle" => \A r \in Rooms : c \notin members[r]

GraceRooms ==
  /\ \A c \in Clients : timer[c] # "none" => phase[clientRoom[c]] # "waiting"
  /\ BeingClosed => timer[run.c] = "none"
  /\ run.op = "gracing" => phase[clientRoom[run.c]] # "waiting"

TakeOvers ==
  /\ run.op = "registered" =>
       \A d \in Clients : timer[d] # "none" => run.c \notin members[clientRoom[d]]
  /\ run.op = "taking" =>
       /\ UserOf[run.old] = UserOf[run.c] /\ clientRoom[run.old] # NoRoom
       /\ phase[clientRoom[run.old]] # "waiting"
       /\ run.c \notin members[clientRoom[run.old]]

GraceInv == UnbornRooms /\ NewcomersHaveNoSeat /\ GraceRooms /\ TakeOvers

LEMMA GraceInit == Init => GraceInv
  BY DEF Init, GraceInv, UnbornRooms, NewcomersHaveNoSeat, GraceRooms, TakeOvers,
         BeingClosed, Idle

\* What every step but a takeover does to a room.
RoomStep(r) ==
  \/ phase'[r] \in {phase[r], "active"} /\ members'[r] = members[r]
  \/ phase[r] # "waiting" /\ phase'[r] = "finished" /\ members'[r] = members[r]
  \/ \E c \in Clients : /\ phase[r] = "waiting" /\ phase'[r] = phase[r] /\ link[c] # "idle"
                        /\ members'[r] = members[r] \cup {c}
  \/ \E c \in Clients : /\ phase'[r] \in {phase[r], "finished"}
                        /\ members'[r] = members[r] \ {c}

StaysUnborn(r) ==
  kind'[r] = "none" => kind[r] = "none" /\ phase'[r] = phase[r] /\ members'[r] = members[r]

AllRoomsStep == \A r \in Rooms : RoomStep(r) /\ StaysUnborn(r)

LEMMA NoRoomMoves ==
  ASSUME UNCHANGED <<kind, phase, members>>
  PROVE  AllRoomsStep
  BY DEF AllRoomsStep, RoomStep, StaysUnborn

LEMMA OpenMoves ==
  ASSUME TypeOK, UnbornRooms, NEW q \in Rooms \ Born, NEW k \in {"solo", "duel", "battle"},
         NEW c \in Clients, OpenRoom(q, k, c), link[c] # "idle", UNCHANGED phase
  PROVE  AllRoomsStep
<1>1. /\ kind' = [kind EXCEPT ![q] = k] /\ members' = [members EXCEPT ![q] = {c}]
      /\ kind[q] = "none" /\ members[q] = {} /\ phase[q] = "waiting"
  BY DEF OpenRoom, UnbornRooms, Born
<1>2. ASSUME NEW r \in Rooms PROVE RoomStep(r) /\ StaysUnborn(r)
  <2>1. CASE r = q
    <3>1. members'[r] = members[r] \cup {c} /\ kind'[r] # "none"
      BY <1>1, <2>1 DEF TypeOK
    <3> QED
      BY <1>1, <2>1, <3>1 DEF RoomStep, StaysUnborn
  <2>2. CASE r # q
    BY <1>1, <2>2 DEF RoomStep, StaysUnborn, TypeOK
  <2> QED
    BY <2>1, <2>2
<1> QED
  BY <1>2 DEF AllRoomsStep

LEMMA AddMoves ==
  ASSUME TypeOK, NEW q \in Rooms, kind[q] # "none", NEW c \in Clients, AddPlayer(q, c),
         link[c] # "idle", UNCHANGED <<phase, kind>>
  PROVE  AllRoomsStep
<1>1. \/ UNCHANGED members
      \/ phase[q] = "waiting" /\ members' = [members EXCEPT ![q] = @ \cup {c}]
  BY DEF AddPlayer
<1>2. ASSUME NEW r \in Rooms PROVE RoomStep(r) /\ StaysUnborn(r)
  BY <1>1 DEF RoomStep, StaysUnborn, TypeOK
<1> QED
  BY <1>2 DEF AllRoomsStep

LEMMA RemoveMoves ==
  ASSUME TypeOK, NEW q \in Rooms, kind[q] # "none", NEW c \in Clients, RemovePlayer(q, c)
  PROVE  AllRoomsStep
<1>1. /\ members' = [members EXCEPT ![q] = @ \ {c}] /\ UNCHANGED kind
      /\ phase' \in {phase, [phase EXCEPT ![q] = "finished"]}
  BY DEF RemovePlayer
<1>2. ASSUME NEW r \in Rooms PROVE RoomStep(r) /\ StaysUnborn(r)
  <2>1. CASE r = q
    BY <1>1, <2>1 DEF RoomStep, StaysUnborn, TypeOK
  <2>2. CASE r # q
    BY <1>1, <2>2 DEF RoomStep, StaysUnborn, TypeOK
  <2> QED
    BY <2>1, <2>2
<1> QED
  BY <1>2 DEF AllRoomsStep

LEMMA GameMoves ==
  ASSUME TypeOK, NEW q \in Rooms, Play(q) \/ EndGame(q)
  PROVE  AllRoomsStep
<1>1. /\ kind[q] # "none" /\ UNCHANGED <<members, kind>>
      /\ \/ phase' = [phase EXCEPT ![q] = "active"]
         \/ phase[q] # "waiting" /\ phase' = [phase EXCEPT ![q] = "finished"]
  BY DEF Play, EndGame, Born
<1>2. ASSUME NEW r \in Rooms PROVE RoomStep(r) /\ StaysUnborn(r)
  BY <1>1 DEF RoomStep, StaysUnborn, TypeOK
<1> QED
  BY <1>2 DEF AllRoomsStep

LEMMA RoomMoves ==
  TypeInv /\ QueueIsSound /\ SeatInv /\ GraceInv /\ [Next]_vars
    => AllRoomsStep \/ TakeSeat
<1> SUFFICES ASSUME TypeInv, QueueIsSound, SeatInv, GraceInv, [Next]_vars
             PROVE  AllRoomsStep \/ TakeSeat
  OBVIOUS
<1> USE DEF TypeInv, SeatInv, GraceInv
<1>1. ASSUME NEW c \in Clients, NEW k \in {"solo", "battle"}, CreateRoom(c, k)
      PROVE  AllRoomsStep
  <2>1. /\ \E r \in Rooms \ Born : OpenRoom(r, k, c)
        /\ link[c] = "open" /\ UNCHANGED phase
    BY <1>1 DEF CreateRoom, NewRoom, First, Handles
  <2> QED
    BY <2>1, OpenMoves
<1>2. ASSUME NEW c \in Clients, EnterRoom(c) PROVE AllRoomsStep
  <2> DEFINE r == busy[c].room
  <2>1. /\ r \in Rooms /\ kind[r] # "none" /\ link[c] = "open" /\ AddPlayer(r, c)
        /\ UNCHANGED <<phase, kind>>
    BY <1>2 DEF EnterRoom, Pointers
  <2> HIDE DEF r
  <2> QED
    BY <2>1, AddMoves
<1>3. ASSUME NEW c \in Clients, NEW b \in Buckets, MeetOpponent(c, b) PROVE AllRoomsStep
  <2>1. PICK i \in DOMAIN queue, r \in Rooms \ Born : OpenRoom(r, "duel", queue[i].client)
    BY <1>3 DEF MeetOpponent, First, Candidates, NewRoom
  <2>2. PICK d \in Clients : d = queue[i].client
    BY WaiterIsClient
  <2>3. link[d] # "idle"
    BY <2>2 DEF QueueIsSound, WaitersArePresent, Online, Pointers, RunPointers
  <2>4. OpenRoom(r, "duel", d) /\ UNCHANGED phase
    BY <1>3, <2>1, <2>2 DEF MeetOpponent
  <2> QED
    BY <2>3, <2>4, OpenMoves
<1>4. ASSUME GuestEnters PROVE AllRoomsStep
  <2> DEFINE r == match.room
             c == match.guest
  <2>1. /\ c \in Clients /\ r \in Rooms /\ link[c] = "open" /\ kind[r] # "none"
        /\ AddPlayer(r, c) /\ UNCHANGED <<phase, kind>>
    BY <1>4 DEF GuestEnters, Pointers, MatchPointers, RoomsAreBorn
  <2> HIDE DEF r, c
  <2> QED
    BY <2>1, AddMoves
<1>5. ASSUME NEW c \in Clients, clientRoom[c] \in Rooms, RemovePlayer(clientRoom[c], c)
      PROVE  AllRoomsStep
  BY <1>5, RemoveMoves DEF RoomsAreBorn, Rooms, NoRoom
<1>6. ASSUME NEW c \in Clients, LeaveRoom(c) PROVE AllRoomsStep
  BY <1>5, <1>6, NoRoomMoves DEF LeaveRoom, rooms, TypeOK
<1>7. ASSUME NEW c \in Clients, RemoveExpired(c) PROVE AllRoomsStep
  BY <1>5, <1>7 DEF RemoveExpired, TypeOK
<1>8. ASSUME RemoveDropped PROVE AllRoomsStep
  BY <1>5, <1>8 DEF RemoveDropped, TypeOK, Pointers, RunPointers
<1>9. ASSUME NEW r \in Rooms, Play(r) \/ EndGame(r) PROVE AllRoomsStep
  BY <1>9, GameMoves
<1> QED
  BY <1>1, <1>2, <1>3, <1>4, <1>6, <1>7, <1>8, <1>9, NoRoomMoves, NextCases
     DEF LookUpRoom, JoinQueue, ListMatch, ForgetRoom, LeaveQueue, Drop, Register,
         Unregister, TakeEntry, RemoveFromQueue, ReadRoomState, StartGrace,
         GraceTimerFires, Expire, RemoveRoom, rooms, vars

\* What AllRoomsStep leaves of a room: no way back to "waiting", no newcomers later.
LEMMA RoomsAfter ==
  ASSUME TypeOK, UnbornRooms, AllRoomsStep, NEW r \in Rooms
  PROVE  /\ phase[r] # "waiting" => phase'[r] # "waiting" /\ members'[r] \subseteq members[r]
         /\ \A c \in Clients : c \in members'[r] => c \in members[r] \/ link[c] # "idle"
         /\ kind'[r] = "none" => phase'[r] = "waiting" /\ members'[r] = {}
  BY DEF AllRoomsStep, RoomStep, StaysUnborn, UnbornRooms

\* Every step that starts no timer and no takeover.
LEMMA GraceFrame ==
  ASSUME TypeInv, TypeOK', GraceInv, AllRoomsStep,
         \A c \in Clients : timer'[c] # "none" => timer[c] # "none",
         \A c \in Clients : link'[c] = "idle" => link[c] = "idle",
         \A c \in Clients : clientRoom'[c] # clientRoom[c] =>
           link[c] # "closed" \/ (run.op = "closed" /\ run.c = c),
         \/ run' = run \/ run'.op = "idle"
         \/ BeingClosed /\ run'.c = run.c /\ run'.op \in {"unqueued", "removing"}
  PROVE  GraceInv'
<1> USE DEF TypeInv, GraceInv
<1>1. \A c \in Clients : timer[c] # "none" =>
        clientRoom'[c] = clientRoom[c] /\ clientRoom[c] \in Rooms
  BY DEF GraceRooms, BeingClosed, Pointers, TypeOK
<1>2. UnbornRooms'
  BY RoomsAfter DEF UnbornRooms, Rooms
<1>3. NewcomersHaveNoSeat'
  BY RoomsAfter DEF NewcomersHaveNoSeat, Rooms
<1>4. run'.op # "idle" => run'.c = run.c /\ run.c \in Clients
  BY DEF Pointers, RunPointers, BeingClosed
<1>5. GraceRooms'
  <2>1. \A c \in Clients : timer'[c] # "none" => phase'[clientRoom'[c]] # "waiting"
    BY <1>1, RoomsAfter DEF GraceRooms
  <2>2. BeingClosed' => timer'[run'.c] = "none"
    BY <1>4 DEF GraceRooms, BeingClosed
  <2>3. ASSUME run'.op = "gracing" PROVE phase'[clientRoom'[run'.c]] # "waiting"
    <3>1. run' = run /\ run.op = "gracing"
      BY <2>3
    <3>2. link[run.c] = "closed" /\ run.c \in Clients
      BY <3>1 DEF Pointers, RunPointers
    <3>3. clientRoom'[run.c] = clientRoom[run.c] /\ clientRoom[run.c] \in Rooms
      BY <3>1, <3>2 DEF TypeOK
    <3> QED
      BY <3>1, <3>3, RoomsAfter DEF GraceRooms
  <2> QED
    BY <2>1, <2>2, <2>3 DEF GraceRooms
<1>6. TakeOvers'
  <2>1. ASSUME run'.op = "registered", NEW d \in Clients, timer'[d] # "none"
        PROVE  run'.c \notin members'[clientRoom'[d]]
    <3>1. run' = run /\ timer[d] # "none"
      BY <2>1 DEF BeingClosed
    <3>2. clientRoom'[d] = clientRoom[d] /\ clientRoom[d] \in Rooms
      BY <1>1, <3>1
    <3>3. phase[clientRoom[d]] # "waiting" /\ run.c \notin members[clientRoom[d]]
      BY <2>1, <3>1 DEF GraceRooms, TakeOvers
    <3> QED
      BY <3>1, <3>2, <3>3, RoomsAfter
  <2>2. ASSUME run'.op = "taking"
        PROVE  /\ UserOf[run'.old] = UserOf[run'.c] /\ clientRoom'[run'.old] # NoRoom
               /\ phase'[clientRoom'[run'.old]] # "waiting"
               /\ run'.c \notin members'[clientRoom'[run'.old]]
    <3>1. run' = run /\ run.op = "taking"
      BY <2>2
    <3>2. link[run.old] = "closed" /\ run.old \in Clients
      BY <3>1 DEF Pointers, RunPointers
    <3>3. clientRoom'[run.old] = clientRoom[run.old] /\ clientRoom[run.old] \in Rooms
      BY <3>1, <3>2 DEF TypeOK, TakeOvers
    <3> QED
      BY <3>1, <3>3, RoomsAfter DEF TakeOvers
  <2> QED
    BY <2>1, <2>2 DEF TakeOvers
<1> QED
  BY <1>2, <1>3, <1>5, <1>6

LEMMA GraceRegister ==
  ASSUME TypeInv, GraceInv, NEW c \in Clients, Register(c) \/ Unregister(c)
  PROVE  GraceInv'
<1> USE DEF TypeInv, GraceInv
<1>1. /\ UNCHANGED <<clientRoom, timer, kind, phase, members>>
      /\ link[c] \in {"idle", "exiting"} /\ timer[c] = "none"
      /\ \A d \in Clients : link'[d] = "idle" => link[d] = "idle"
  BY DEF Register, Unregister, graces, rooms, TypeOK, Pointers
<1>2. UnbornRooms' /\ NewcomersHaveNoSeat'
  BY <1>1 DEF UnbornRooms, NewcomersHaveNoSeat
<1>3. run'.c = c /\ run'.op \in {"registered", "closed"}
  BY DEF Register, Unregister
<1>4. GraceRooms'
  BY <1>1, <1>3 DEF GraceRooms, BeingClosed
<1>5. run'.op = "registered" => \A r \in Rooms : c \notin members[r]
  BY DEF Register, Unregister, NewcomersHaveNoSeat
<1>6. \A d \in Clients : timer[d] # "none" => clientRoom[d] \in Rooms
  BY DEF TypeOK
<1>7. TakeOvers'
  BY <1>1, <1>3, <1>5, <1>6 DEF TakeOvers
<1> QED
  BY <1>2, <1>4, <1>7

LEMMA GraceTakeEntry ==
  ASSUME TypeInv, GraceInv, TakeEntry
  PROVE  GraceInv'
<1> USE DEF TypeInv, GraceInv
<1>1. PICK new \in Clients, old \in Clients \cup {NoClient} :
        new = run.c /\ old = entry[UserOf[run.c]]
  BY HubUsers DEF TakeEntry, Pointers, RunPointers, TypeOK
<1>2. /\ UNCHANGED <<link, clientRoom, kind, phase, members>>
      /\ run.op = "registered"
      /\ \A d \in Clients : timer'[d] # "none" => timer[d] # "none"
  BY DEF TakeEntry, connections, rooms, graces, TypeOK
<1>3. UnbornRooms' /\ NewcomersHaveNoSeat'
  BY <1>2 DEF UnbornRooms, NewcomersHaveNoSeat
<1>4. \/ run'.op = "idle"
      \/ run'.op = "taking" /\ run'.old = old /\ run'.c = new /\ old # NoClient
  <2>1. \/ run' = Idle
        \/ run' = [run EXCEPT !.op = "taking", !.old = old] /\ old # NoClient
    BY <1>1 DEF TakeEntry
  <2>2. run \in [op : {"idle", "registered", "taking", "closed", "unqueued", "gracing",
                       "removing"},
                 c : Clients \cup {NoClient}, old : Clients \cup {NoClient}]
    BY DEF TypeOK
  <2>3. ASSUME run' = [run EXCEPT !.op = "taking", !.old = old]
        PROVE  run'.op = "taking" /\ run'.old = old /\ run'.c = run.c
    BY <2>2, <2>3
  <2>4. run' = Idle => run'.op = "idle"
    BY DEF Idle
  <2> QED
    BY <1>1, <2>1, <2>3, <2>4
<1>5. GraceRooms'
  BY <1>2, <1>4 DEF GraceRooms, BeingClosed
<1>6. CASE old # NoClient
  <2>1. UserOf[new] \in InMap
    BY <1>1, <1>6, HubUsers DEF InMap
  <2>2. /\ UserOf[old] = UserOf[new] /\ timer[old] # "none" /\ old \in Clients
        /\ clientRoom[old] # NoRoom
    BY <1>1, <1>6, <2>1 DEF EntriesAreTimed, InMap, TypeOK
  <2>3. phase[clientRoom[old]] # "waiting" /\ new \notin members[clientRoom[old]]
    BY <1>1, <1>2, <2>2 DEF GraceRooms, TakeOvers
  <2>4. TakeOvers'
    BY <1>2, <1>4, <2>2, <2>3 DEF TakeOvers
  <2> QED
    BY <1>3, <1>5, <2>4
<1>7. CASE old = NoClient
  BY <1>3, <1>4, <1>5, <1>7 DEF TakeOvers
<1> QED
  BY <1>6, <1>7

LEMMA GraceTakeSeat ==
  ASSUME TypeInv, GraceInv, TakeSeat
  PROVE  GraceInv'
<1> USE DEF TypeInv, GraceInv
<1>1. PICK old \in Clients, new \in Clients, r \in Rooms :
        old = run.old /\ new = run.c /\ r = clientRoom[old]
  BY DEF TakeSeat, Pointers, RunPointers, TypeOK, TakeOvers
<1>2. /\ UNCHANGED <<link, timer, kind, phase>> /\ run'.op = "idle"
      /\ link[new] \in {"open", "exiting"} /\ timer[new] = "none"
      /\ phase[r] # "waiting" /\ kind[r] # "none"
      /\ members' \in {members, [members EXCEPT ![r] = (@ \ {old}) \cup {new}]}
      /\ clientRoom' \in {clientRoom, [clientRoom EXCEPT ![new] = r]}
  BY <1>1 DEF TakeSeat, Idle, graces, Pointers, RunPointers, TakeOvers, UnbornRooms
<1>3. UnbornRooms'
  BY <1>2 DEF UnbornRooms, TypeOK
<1>4. NewcomersHaveNoSeat'
  <2>1. ASSUME NEW q \in Rooms PROVE members'[q] \subseteq members[q] \cup {new}
    BY <1>2 DEF TypeOK
  <2> QED
    BY <1>2, <2>1 DEF NewcomersHaveNoSeat, Rooms
<1>5. GraceRooms'
  BY <1>2 DEF GraceRooms, BeingClosed, TypeOK
<1>6. TakeOvers'
  BY <1>2 DEF TakeOvers
<1> QED
  BY <1>3, <1>4, <1>5, <1>6

LEMMA GraceStart ==
  ASSUME TypeInv, GraceInv, ReadRoomState \/ StartGrace
  PROVE  GraceInv'
<1> USE DEF TypeInv, GraceInv
<1>1. PICK c \in Clients : c = run.c
  BY DEF ReadRoomState, StartGrace, Pointers, RunPointers
<1>2. /\ UNCHANGED <<link, clientRoom, kind, phase, members>>
      /\ BeingClosed /\ timer[c] = "none"
  BY <1>1 DEF ReadRoomState, StartGrace, BeingClosed, GraceRooms, connections, rooms
<1>3. UnbornRooms' /\ NewcomersHaveNoSeat'
  BY <1>2 DEF UnbornRooms, NewcomersHaveNoSeat
<1>4. CASE ReadRoomState
  <2>1. /\ UNCHANGED timer /\ run'.op \in {"idle", "gracing", "removing"}
        /\ run'.op # "idle" => run'.c = c
        /\ run'.op = "gracing" => phase[clientRoom[c]] = "active"
    BY <1>1, <1>4 DEF ReadRoomState, Decide, Idle, graces, TypeOK
  <2> QED
    BY <1>2, <1>3, <2>1 DEF GraceRooms, TakeOvers, BeingClosed
<1>5. CASE StartGrace
  <2>1. run'.op \in {"idle", "removing"} /\ run.op = "gracing"
    BY <1>5 DEF StartGrace, RemoveAtOnce, Idle, TypeOK
  <2>2. \/ UNCHANGED timer /\ run'.op = "removing" /\ run'.c = c
        \/ timer' = [timer EXCEPT ![c] = "running"] /\ run'.op = "idle"
    BY <1>1, <1>5 DEF StartGrace, RemoveAtOnce, graces, Idle, TypeOK
  <2>3. phase[clientRoom[c]] # "waiting"
    BY <1>1, <2>1 DEF GraceRooms
  <2>4. GraceRooms'
    BY <1>2, <2>1, <2>2, <2>3 DEF GraceRooms, BeingClosed, TypeOK
  <2> QED
    BY <1>3, <2>1, <2>4 DEF TakeOvers
<1> QED
  BY <1>4, <1>5

LEMMA GraceStepAll ==
  TypeInv /\ QueueIsSound /\ SeatInv /\ GraceInv /\ [Next]_vars => GraceInv'
<1> SUFFICES ASSUME TypeInv, QueueIsSound, SeatInv, GraceInv, [Next]_vars PROVE GraceInv'
  OBVIOUS
<1>1. TypeOK'
  BY TypeStep DEF TypeInv
<1>2. CASE TakeSeat
  BY <1>2, GraceTakeSeat
<1>3. CASE AllRoomsStep
  <2> DEFINE
        KeepsRooms == \A c \in Clients : clientRoom'[c] # clientRoom[c] =>
                        link[c] # "closed" \/ (run.op = "closed" /\ run.c = c)
        KeepsTimers == \A c \in Clients : timer'[c] # "none" => timer[c] # "none"
        KeepsLinks == \A c \in Clients : link'[c] = "idle" => link[c] = "idle"
  <2>1. ASSUME KeepsRooms, UNCHANGED <<link, timer, run>> PROVE GraceInv'
    BY <1>1, <1>3, <2>1, GraceFrame
  <2>2. ASSUME NEW c \in Clients, NEW k \in {"solo", "battle"}, CreateRoom(c, k)
        PROVE  GraceInv'
    <3>1. KeepsRooms
      BY <2>2 DEF CreateRoom, OpenRoom, Handles, TypeInv, TypeOK
    <3> QED
      BY <2>1, <2>2, <3>1 DEF CreateRoom, graces
  <2>3. ASSUME NEW c \in Clients, EnterRoom(c) PROVE GraceInv'
    <3>1. KeepsRooms
      BY <2>3 DEF EnterRoom, AddPlayer, TypeInv, TypeOK, Pointers
    <3> QED
      BY <2>1, <2>3, <3>1 DEF EnterRoom, graces
  <2>4. ASSUME NEW c \in Clients, NEW b \in Buckets, MeetOpponent(c, b) PROVE GraceInv'
    <3>1. PICK i \in DOMAIN queue, d \in Clients :
            d = queue[i].client /\ \E r \in Rooms : OpenRoom(r, "duel", d)
      BY <2>4, WaiterIsClient DEF MeetOpponent, First, Candidates, NewRoom, TypeInv
    <3>2. Online(d) \/ (run.op = "closed" /\ run.c = d)
      BY <3>1 DEF QueueIsSound, WaitersArePresent
    <3>3. KeepsRooms
      BY <3>1, <3>2 DEF OpenRoom, Online, TypeInv, TypeOK
    <3> QED
      BY <2>1, <2>4, <3>3 DEF MeetOpponent, graces
  <2>5. ASSUME GuestEnters PROVE GraceInv'
    <3>1. KeepsRooms
      BY <2>5 DEF GuestEnters, AddPlayer, TypeInv, TypeOK, Pointers, MatchPointers
    <3> QED
      BY <2>1, <2>5, <3>1 DEF GuestEnters, graces
  <2>6. ASSUME NEW c \in Clients, ForgetRoom(c) PROVE GraceInv'
    <3>1. KeepsRooms
      BY <2>6 DEF ForgetRoom, SetRoomNil, TypeInv, TypeOK, Pointers
    <3> QED
      BY <2>1, <2>6, <3>1 DEF ForgetRoom, graces
  <2>7. CASE \/ UNCHANGED vars
             \/ \E c \in Clients, r \in Rooms : LookUpRoom(c, r)
             \/ \E c \in Clients, b \in Buckets : JoinQueue(c, b)
             \/ ListMatch
             \/ \E c \in Clients : LeaveRoom(c) \/ LeaveQueue(c)
             \/ \E r \in Rooms : Play(r) \/ EndGame(r) \/ RemoveRoom(r)
    <3>1. UNCHANGED <<link, timer, run, clientRoom>>
      BY <2>7 DEF vars, LookUpRoom, JoinQueue, ListMatch, LeaveRoom, LeaveQueue, Play,
         EndGame, RemoveRoom, connections, graces
    <3> QED
      BY <2>1, <3>1
  <2>8. CASE \/ \E c \in Clients : Drop(c) \/ GraceTimerFires(c) \/ Expire(c) \/ RemoveExpired(c)
             \/ RemoveFromQueue \/ RemoveDropped
    <3>1. UNCHANGED clientRoom
      BY <2>8 DEF Drop, GraceTimerFires, Expire, RemoveExpired, RemoveFromQueue,
         RemoveDropped, connections
    <3>2. KeepsTimers
      BY <2>8 DEF Drop, GraceTimerFires, Expire, RemoveExpired, RemoveFromQueue,
         RemoveDropped, graces, TypeInv, TypeOK
    <3>3. KeepsLinks
      BY <2>8 DEF Drop, GraceTimerFires, Expire, RemoveExpired, RemoveFromQueue,
         RemoveDropped, connections, TypeInv, TypeOK
    <3>4. run \in [op : {"idle", "registered", "taking", "closed", "unqueued", "gracing",
                         "removing"},
                   c : Clients \cup {NoClient}, old : Clients \cup {NoClient}]
      BY DEF TypeInv, TypeOK
    <3>5. \/ run' = run \/ run'.op = "idle"
          \/ BeingClosed /\ run'.c = run.c /\ run'.op \in {"unqueued", "removing"}
      BY <2>8, <3>4 DEF Drop, GraceTimerFires, Expire, RemoveExpired, RemoveFromQueue,
         RemoveDropped, Idle, BeingClosed
    <3> QED
      BY <1>1, <1>3, <3>1, <3>2, <3>3, <3>5, GraceFrame
  <2> HIDE DEF KeepsRooms, KeepsTimers, KeepsLinks
  <2> QED
    BY <1>2, <2>2, <2>3, <2>4, <2>5, <2>6, <2>7, <2>8, NextCases, GraceRegister,
       GraceTakeEntry, GraceStart
<1> QED
  BY <1>2, <1>3, RoomMoves

\* A takeover is the contract's Swap, or leaves the room alone.
LEMMA TakeSeatSwaps ==
  ASSUME TypeInv, GraceInv, TakeSeat, NEW q \in Rooms
  PROVE  \/ UNCHANGED <<phase[q], members[q]>>
         \/ \E old, new \in Clients : ContractOf(q)!Swap(old, new)
<1> USE DEF TypeInv, GraceInv
<1>1. PICK old \in Clients, new \in Clients, r \in Rooms :
        old = run.old /\ new = run.c /\ r = clientRoom[old]
  BY DEF TakeSeat, Pointers, RunPointers, TypeOK, TakeOvers
<1>2. /\ UNCHANGED phase
      /\ \/ UNCHANGED members
         \/ /\ phase[r] # "finished" /\ old \in members[r]
            /\ members' = [members EXCEPT ![r] = (@ \ {old}) \cup {new}]
      /\ new \notin members[r] /\ UserOf[old] = UserOf[new]
  BY <1>1 DEF TakeSeat, TakeOvers
<1>3. CASE q = r /\ ~UNCHANGED members
  <2>1. ContractOf(q)!Swap(old, new)
    BY <1>2, <1>3 DEF ContractOf!Swap, TypeOK
  <2> QED
    BY <2>1
<1>4. CASE q # r \/ UNCHANGED members
  BY <1>2, <1>4 DEF TypeOK
<1> QED
  BY <1>3, <1>4

LEMMA RoomStepIsAllowed ==
  ASSUME TypeOK, NEW r \in Rooms, RoomStep(r)
  PROVE  ContractOf(r)!Next \/ UNCHANGED <<phase[r], members[r]>>
<1>1. CASE phase'[r] \in {phase[r], "active"} /\ members'[r] = members[r]
  BY <1>1 DEF ContractOf!Next, ContractOf!Play
<1>2. CASE phase[r] # "waiting" /\ phase'[r] = "finished" /\ members'[r] = members[r]
  BY <1>2 DEF ContractOf!Next, ContractOf!End
<1>3. ASSUME NEW c \in Clients, phase[r] = "waiting", phase'[r] = phase[r],
             members'[r] = members[r] \cup {c}
      PROVE  ContractOf(r)!Next
  BY <1>3 DEF ContractOf!Next, ContractOf!Join
<1>4. ASSUME NEW c \in Clients, phase'[r] \in {phase[r], "finished"},
             members'[r] = members[r] \ {c}
      PROVE  ContractOf(r)!Next
  BY <1>4 DEF ContractOf!Next, ContractOf!Leave
<1> QED
  BY <1>1, <1>2, <1>3, <1>4 DEF RoomStep

\* Whatever happens to a room, its contract allows.
THEOREM RoomsAlwaysKeepContract == Spec => RoomsKeepContract
<1> DEFINE Inv == TypeInv /\ QueueIsSound /\ SeatInv /\ GraceInv
           Allowed == \A r \in Rooms : ContractOf(r)!Next \/ UNCHANGED <<phase[r], members[r]>>
<1>1. Init => Inv
  BY TypeInit, QueueInit, SeatInit, GraceInit
<1>2. Inv /\ [Next]_vars => Inv'
  BY TypeStep, QueueStep, SeatStep, GraceStepAll
<1>3. ASSUME Inv, [Next]_vars PROVE Allowed
  <2>1. CASE TakeSeat
    <3>1. ASSUME NEW r \in Rooms
          PROVE  ContractOf(r)!Next \/ UNCHANGED <<phase[r], members[r]>>
      <4>1. \/ UNCHANGED <<phase[r], members[r]>>
            \/ \E old, new \in Clients : ContractOf(r)!Swap(old, new)
        BY <1>3, <2>1, TakeSeatSwaps
      <4> QED
        BY <4>1 DEF ContractOf!Next
    <3> QED
      BY <3>1
  <2>2. CASE AllRoomsStep
    BY <1>3, <2>2, RoomStepIsAllowed DEF AllRoomsStep, TypeInv
  <2> QED
    BY <1>3, <2>1, <2>2, RoomMoves
<1> HIDE DEF Inv, Allowed
<1>4. Spec => [][Allowed]_vars
  BY <1>1, <1>2, <1>3, PTL DEF Spec
<1> QED
  BY <1>4, PTL DEF RoomsKeepContract, Allowed

-----------------------------------------------------------------------------
(***************************************************************************)
(* Duels are of two.  The seat kept for the guest of a match under way     *)
(* (m.mu is held) is taken by nobody else, and no member of its room is of *)
(* the guest's user: the opponent is not, because Enqueue refuses a user   *)
(* that waits already, and takeovers do not change the users of a room.    *)
(***************************************************************************)
SoundDuel(M) ==
  /\ IsFiniteSet(M) /\ Cardinality(M) <= 2
  /\ \A c, d \in M : UserOf[c] = UserOf[d] => c = d

SoundDuels == \A r \in Rooms : kind[r] = "duel" => SoundDuel(members[r])

GuestIsNew ==
  match.step = "guest" =>
    /\ kind[match.room] = "duel"
    /\ \A d \in members[match.room] : UserOf[d] # UserOf[match.guest]

DuelInv == SoundDuels /\ GuestIsNew

LEMMA DuelSingle == ASSUME NEW c PROVE SoundDuel({c})
<1>1. IsFiniteSet({c}) /\ Cardinality({c}) = 1
  BY FS_Singleton
<1> QED
  BY <1>1 DEF SoundDuel

LEMMA DuelShrinks ==
  ASSUME NEW M, SoundDuel(M), NEW c
  PROVE  SoundDuel(M \ {c})
<1>1. IsFiniteSet(M \ {c}) /\ Cardinality(M \ {c}) <= Cardinality(M) /\ Cardinality(M) \in Nat
      /\ Cardinality(M \ {c}) \in Nat
  BY FS_Subset, FS_CardinalityType DEF SoundDuel
<1> QED
  BY <1>1 DEF SoundDuel

LEMMA DuelGrows ==
  ASSUME NEW M, SoundDuel(M), Cardinality(M) < 2, NEW c,
         \A d \in M : UserOf[d] # UserOf[c]
  PROVE  SoundDuel(M \cup {c})
<1>1. /\ IsFiniteSet(M \cup {c}) /\ Cardinality(M) \in Nat
      /\ Cardinality(M \cup {c}) = IF c \in M THEN Cardinality(M) ELSE Cardinality(M) + 1
  BY FS_AddElement, FS_CardinalityType DEF SoundDuel
<1> QED
  BY <1>1 DEF SoundDuel

LEMMA DuelSwaps ==
  ASSUME NEW M, SoundDuel(M), NEW old \in M, NEW new, UserOf[new] = UserOf[old]
  PROVE  SoundDuel((M \ {old}) \cup {new})
<1>1. SoundDuel(M \ {old}) /\ IsFiniteSet(M) /\ Cardinality(M) \in Nat
  BY DuelShrinks, FS_CardinalityType DEF SoundDuel
<1>2. Cardinality(M \ {old}) = Cardinality(M) - 1
  BY <1>1, FS_RemoveElement
<1>3. Cardinality(M \ {old}) < 2
  BY <1>1, <1>2 DEF SoundDuel
<1>4. \A d \in M \ {old} : UserOf[d] # UserOf[new]
  BY DEF SoundDuel
<1> QED
  BY <1>1, <1>3, <1>4, DuelGrows

LEMMA DuelInit == Init => DuelInv
  BY DEF Init, DuelInv, SoundDuels, GuestIsNew, NoMatch

\* Rooms that lose a member at most, while the match under way stays or ends.
LEMMA DuelFrame ==
  ASSUME TypeInv, DuelInv, UNCHANGED kind, match' = match \/ match'.step # "guest",
         NEW q \in Rooms, NEW c \in Clients,
         members' \in {members, [members EXCEPT ![q] = @ \ {c}]}
  PROVE  DuelInv'
<1> USE DEF DuelInv, TypeInv
<1>1. \A r \in Rooms : members'[r] \in {members[r], members[r] \ {c}}
  BY DEF TypeOK
<1>2. SoundDuels'
  BY <1>1, DuelShrinks DEF SoundDuels, Rooms
<1>3. match'.step = "guest" => match' = match /\ match.room \in Rooms
  BY DEF Pointers, MatchPointers
<1>4. GuestIsNew'
  BY <1>1, <1>3 DEF GuestIsNew
<1> QED
  BY <1>2, <1>4

LEMMA DuelOpen ==
  ASSUME TypeInv, DuelInv, NEW c \in Clients, NEW k \in {"solo", "battle"}, CreateRoom(c, k)
  PROVE  DuelInv'
<1> USE DEF DuelInv, TypeInv
<1>1. PICK r \in Rooms \ Born : OpenRoom(r, k, c)
  BY DEF CreateRoom, NewRoom, First
<1>2. /\ UNCHANGED match /\ k # "duel"
      /\ kind' = [kind EXCEPT ![r] = k] /\ members' = [members EXCEPT ![r] = {c}]
  BY <1>1 DEF CreateRoom, OpenRoom, matchmaker
<1>3. SoundDuels'
  BY <1>2 DEF SoundDuels, TypeOK, Rooms
<1>4. match.step = "guest" => match.room \in Rooms /\ match.room # r
  BY <1>1 DEF Pointers, MatchPointers, GuestIsNew, Born
<1>5. GuestIsNew'
  BY <1>2, <1>4 DEF GuestIsNew, TypeOK
<1> QED
  BY <1>3, <1>5

LEMMA DuelEnter ==
  ASSUME TypeInv, DuelInv, NEW c \in Clients, EnterRoom(c)
  PROVE  DuelInv'
<1> USE DEF DuelInv, TypeInv
<1>1. PICK q \in Rooms : q = busy[c].room /\ kind[q] = "battle"
  BY DEF EnterRoom, Pointers
<1>2. /\ UNCHANGED <<kind, match>>
      /\ members' \in {members, [members EXCEPT ![q] = @ \cup {c}]}
  BY <1>1 DEF EnterRoom, AddPlayer, matchmaker
<1>3. \A r \in Rooms : kind[r] = "duel" => members'[r] = members[r]
  BY <1>1, <1>2 DEF TypeOK
<1>4. SoundDuels'
  BY <1>2, <1>3 DEF SoundDuels, Rooms
<1>5. GuestIsNew'
  BY <1>2, <1>3 DEF GuestIsNew, Pointers, MatchPointers
<1> QED
  BY <1>4, <1>5

LEMMA DuelMeet ==
  ASSUME TypeInv, DuelInv, NEW c \in Clients, NEW b \in Buckets, MeetOpponent(c, b)
  PROVE  DuelInv'
<1> USE DEF DuelInv, TypeInv
<1>1. PICK i \in DOMAIN queue, r \in Rooms \ Born, d \in Clients :
        /\ d = queue[i].client /\ OpenRoom(r, "duel", d)
        /\ match' = [step |-> "guest", room |-> r, guest |-> c]
  BY WaiterIsClient DEF MeetOpponent, First, Candidates, NewRoom
<1>2. UserOf[d] # UserOf[c]
  BY <1>1 DEF MeetOpponent, Waits
<1>3. /\ kind' = [kind EXCEPT ![r] = "duel"] /\ members' = [members EXCEPT ![r] = {d}]
      /\ r \in Rooms
  BY <1>1 DEF OpenRoom
<1>4. kind'[r] = "duel" /\ members'[r] = {d}
  BY <1>3 DEF TypeOK
<1>5. \A q \in Rooms \ {r} : kind'[q] = kind[q] /\ members'[q] = members[q]
  BY <1>3 DEF TypeOK
<1>6. SoundDuels'
  BY <1>4, <1>5, DuelSingle DEF SoundDuels, Rooms
<1>7. GuestIsNew'
  BY <1>1, <1>2, <1>4 DEF GuestIsNew
<1> QED
  BY <1>6, <1>7

LEMMA DuelGuest ==
  ASSUME TypeInv, DuelInv, GuestEnters
  PROVE  DuelInv'
<1> USE DEF DuelInv, TypeInv
<1>1. PICK r \in Rooms, c \in Clients :
        r = match.room /\ c = match.guest /\ kind[r] = "duel" /\ AddPlayer(r, c)
  BY DEF GuestEnters, Pointers, MatchPointers, GuestIsNew
<1>2. UNCHANGED kind /\ match'.step # "guest"
  BY DEF GuestEnters, TypeOK
<1>3. \/ UNCHANGED members
      \/ /\ Cardinality(members[r]) < 2
         /\ members' = [members EXCEPT ![r] = @ \cup {c}]
  BY <1>1 DEF AddPlayer
<1>4. \A d \in members[r] : UserOf[d] # UserOf[c]
  BY <1>1 DEF GuestEnters, GuestIsNew
<1>5. SoundDuel(members'[r])
  <2>1. CASE UNCHANGED members
    BY <1>1, <2>1 DEF SoundDuels
  <2>2. CASE /\ Cardinality(members[r]) < 2
             /\ members' = [members EXCEPT ![r] = @ \cup {c}]
    <3>1. members'[r] = members[r] \cup {c}
      BY <2>2 DEF TypeOK
    <3> QED
      BY <1>1, <1>4, <2>2, <3>1, DuelGrows DEF SoundDuels
  <2> QED
    BY <1>3, <2>1, <2>2
<1>6. \A q \in Rooms \ {r} : members'[q] = members[q]
  BY <1>3 DEF TypeOK
<1>7. SoundDuels'
  BY <1>2, <1>5, <1>6 DEF SoundDuels, Rooms
<1> QED
  BY <1>2, <1>7 DEF GuestIsNew

LEMMA DuelTakeSeat ==
  ASSUME TypeInv, GraceInv, DuelInv, TakeSeat
  PROVE  DuelInv'
<1> USE DEF DuelInv, TypeInv, GraceInv
<1>1. PICK old \in Clients, new \in Clients, r \in Rooms :
        old = run.old /\ new = run.c /\ r = clientRoom[old]
  BY DEF TakeSeat, Pointers, RunPointers, TypeOK, TakeOvers
<1>2. /\ UNCHANGED <<kind, match>> /\ UserOf[new] = UserOf[old]
      /\ \/ UNCHANGED members
         \/ /\ old \in members[r]
            /\ members' = [members EXCEPT ![r] = (@ \ {old}) \cup {new}]
  BY <1>1 DEF TakeSeat, TakeOvers, matchmaker
<1>3. CASE UNCHANGED members
  BY <1>2, <1>3 DEF SoundDuels, GuestIsNew
<1>4. CASE /\ old \in members[r]
           /\ members' = [members EXCEPT ![r] = (@ \ {old}) \cup {new}]
  <2>1. /\ members'[r] = (members[r] \ {old}) \cup {new}
        /\ \A q \in Rooms \ {r} : members'[q] = members[q]
    BY <1>4 DEF TypeOK
  <2>2. kind[r] = "duel" => SoundDuel(members'[r])
    BY <1>2, <1>4, <2>1, DuelSwaps DEF SoundDuels
  <2>3. SoundDuels'
    BY <1>2, <2>1, <2>2 DEF SoundDuels, Rooms
  <2>4. \A q \in Rooms : \A d \in members'[q] : \E e \in members[q] : UserOf[e] = UserOf[d]
    BY <1>2, <1>4, <2>1
  <2>5. GuestIsNew'
    BY <1>2, <2>4 DEF GuestIsNew, Pointers, MatchPointers
  <2> QED
    BY <2>3, <2>5
<1> QED
  BY <1>2, <1>3, <1>4

LEMMA DuelStep ==
  TypeInv /\ QueueIsSound /\ SeatInv /\ GraceInv /\ DuelInv /\ [Next]_vars => DuelInv'
<1> SUFFICES ASSUME TypeInv, GraceInv, DuelInv, [Next]_vars PROVE DuelInv'
  OBVIOUS
<1>1. ASSUME UNCHANGED <<kind, members>>, match' = match \/ match'.step # "guest"
      PROVE  DuelInv'
  BY <1>1 DEF DuelInv, SoundDuels, GuestIsNew
<1>2. ASSUME NEW q \in Rooms, NEW c \in Clients, RemovePlayer(q, c), UNCHANGED match
      PROVE  DuelInv'
  BY <1>2, DuelFrame DEF RemovePlayer
<1>3. ASSUME NEW c \in Clients, LeaveRoom(c) \/ RemoveExpired(c) PROVE DuelInv'
  <2>1. /\ UNCHANGED match
        /\ \/ UNCHANGED rooms
           \/ clientRoom[c] \in Rooms /\ RemovePlayer(clientRoom[c], c)
    BY <1>3 DEF LeaveRoom, RemoveExpired, matchmaker, TypeInv, TypeOK
  <2> QED
    BY <1>1, <1>2, <2>1 DEF rooms
<1>4. ASSUME RemoveDropped PROVE DuelInv'
  <2>1. UNCHANGED match /\ run.c \in Clients /\ clientRoom[run.c] \in Rooms
        /\ RemovePlayer(clientRoom[run.c], run.c)
    BY <1>4 DEF RemoveDropped, matchmaker, TypeInv, TypeOK, Pointers, RunPointers
  <2> QED
    BY <1>2, <2>1
<1>5. ASSUME ListMatch PROVE DuelInv'
  BY <1>1, <1>5 DEF ListMatch, NoMatch
<1>6. CASE \/ UNCHANGED vars
           \/ \E c \in Clients, r \in Rooms : LookUpRoom(c, r)
           \/ \E c \in Clients, b \in Buckets : JoinQueue(c, b)
           \/ \E c \in Clients : ForgetRoom(c) \/ LeaveQueue(c) \/ Drop(c)
           \/ \E c \in Clients : Register(c) \/ Unregister(c)
           \/ TakeEntry \/ RemoveFromQueue \/ ReadRoomState \/ StartGrace
           \/ \E c \in Clients : GraceTimerFires(c) \/ Expire(c)
           \/ \E r \in Rooms : Play(r) \/ EndGame(r) \/ RemoveRoom(r)
  <2>1. UNCHANGED <<kind, members, match>>
    BY <1>6 DEF vars, LookUpRoom, JoinQueue, ForgetRoom, LeaveQueue, Drop, Register,
       Unregister, TakeEntry, RemoveFromQueue, ReadRoomState, StartGrace, GraceTimerFires,
       Expire, Play, EndGame, RemoveRoom, matchmaker, rooms
  <2> QED
    BY <1>1, <2>1
<1> QED
  BY <1>3, <1>4, <1>5, <1>6, NextCases, DuelOpen, DuelEnter, DuelMeet, DuelGuest, DuelTakeSeat

\* A duel never has more than two players, nor one user twice.
THEOREM DuelsAreOfTwo == Spec => []DuelOfTwo
<1> DEFINE Inv == TypeInv /\ QueueIsSound /\ SeatInv /\ GraceInv /\ DuelInv
<1>1. Init => Inv
  BY TypeInit, QueueInit, SeatInit, GraceInit, DuelInit
<1>2. Inv /\ [Next]_vars => Inv'
  BY TypeStep, QueueStep, SeatStep, GraceStepAll, DuelStep
<1>3. Inv => DuelOfTwo
  BY DEF DuelInv, SoundDuels, SoundDuel, DuelOfTwo
<1> HIDE DEF Inv
<1> QED
  BY <1>1, <1>2, <1>3, PTL DEF Spec
=============================================================================
