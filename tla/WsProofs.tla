------------------------------ MODULE WsProofs ------------------------------
(***************************************************************************)
(* Theorems about the connection hook alone, for every set of messages,    *)
(* every number of reconnection attempts and every bound.  GameProofs      *)
(* carries them over to the page that uses the hook.                       *)
(***************************************************************************)
EXTENDS WsClient, SequenceTheorems, TLAPS

\* The cases a proof about WsNext has to look at.
LEMMA WsCases ==
  ASSUME [WsNext]_wsVars
  PROVE  \/ Connect \/ Disconnect \/ \E m \in Messages : Send(m)
         \/ Opened \/ ConnectTimeout \/ Taken \/ PeerCloses \/ TimerFires \/ TokenLost
         \/ \E code \in Codes : Closed(code)
         \/ \E code \in Codes : StaleClosed(code)
         \/ UNCHANGED wsVars
  BY DEF WsNext, Events

-----------------------------------------------------------------------------
(***************************************************************************)
(* The hook is type correct: in particular it never attempts to reconnect  *)
(* more than MaxAttempts times in a row.                                   *)
(***************************************************************************)
LEMMA TypeInit == WsInit => TypeOK
<1> SUFFICES ASSUME WsInit PROVE TypeOK
  OBVIOUS
<1> USE DEF WsInit
<1>1. /\ wsRef \in Live \cup {"closing", "closed", "null"} /\ token \in Tokens
      /\ connected \in BOOLEAN /\ latest \in BOOLEAN
      /\ intentionalClose \in BOOLEAN /\ refused \in BOOLEAN
  BY Zenon DEF Tokens
<1>2. /\ closing \in Nat /\ stray \in Nat /\ orphans \in Nat
      /\ reconnectAttempts \in 0..MaxAttempts
  BY BoundsAssumption
<1>3. /\ msgQueue \in Seq(Messages) /\ asked \in Seq(Messages) /\ wired \in Seq(Messages)
  BY EmptySeq
<1> QED
  BY <1>1, <1>2, <1>3 DEF TypeOK

LEMMA LetGoType ==
  ASSUME TypeOK, NEW st, LetGo(st) PROVE closing' \in Nat /\ stray' \in Nat
  BY DEF TypeOK, LetGo

LEMMA DialType == ASSUME TypeOK, Dial
                  PROVE  /\ wsRef' \in Live \cup {"closing", "closed", "null"}
                         /\ closing' \in Nat /\ stray' \in Nat
                         /\ intentionalClose' \in BOOLEAN /\ refused' \in BOOLEAN
<1>1. CASE wsRef \in Live
  BY <1>1, Zenon DEF TypeOK, Dial
<1>2. CASE wsRef \notin Live
  <2>1. closing' \in Nat /\ stray' \in Nat
    BY <1>2, LetGoType DEF Dial
  <2>2. wsRef' = "connecting" /\ intentionalClose' = FALSE /\ refused' = FALSE
    BY <1>2 DEF Dial
  <2> QED
    BY <2>1, <2>2, Zenon DEF Live
<1> QED
  BY <1>1, <1>2

LEMMA OnCloseType ==
  ASSUME TypeOK, NEW code \in Codes, OnClose(code)
  PROVE  /\ connected' \in BOOLEAN /\ refused' \in BOOLEAN /\ token' \in Tokens
         /\ reconnectAttempts' \in 0..MaxAttempts /\ latest' \in BOOLEAN /\ orphans' \in Nat
         /\ intentionalClose' \in BOOLEAN /\ msgQueue' \in Seq(Messages)
<1>1. connected' \in BOOLEAN /\ intentionalClose' \in BOOLEAN
  BY Zenon DEF TypeOK, OnClose
<1>2. refused' \in BOOLEAN /\ token' \in Tokens
  BY Zenon DEF TypeOK, OnClose, Tokens
<1>3. CASE GiveUp
  BY <1>3, <1>1, <1>2, Zenon DEF TypeOK, OnClose, GiveUp
<1>4. CASE ~GiveUp
  <2>1. Schedule /\ reconnectAttempts < MaxAttempts
    BY <1>4 DEF OnClose, Retry
  <2>2. latest' \in BOOLEAN
    BY <2>1, Zenon DEF Schedule
  <2>3. reconnectAttempts' \in 0..MaxAttempts /\ orphans' \in Nat
    BY <2>1, BoundsAssumption DEF TypeOK, Schedule
  <2> QED
    BY <2>2, <2>3, <1>1, <1>2 DEF TypeOK, OnClose
<1> QED
  BY <1>3, <1>4

LEMMA WireLostType ==
  ASSUME TypeOK, WireLost PROVE asked' \in Seq(Messages) /\ wired' \in Seq(Messages)
<1>1. wired' \in Seq(Messages)
  BY EmptySeq DEF WireLost
<1>2. Len(wired) \in Nat /\ Len(asked) \in Nat
  BY LenProperties DEF TypeOK
<1>3. \A i \in Len(wired) + 1 .. Len(asked) : asked[i] \in Messages
  BY <1>2, ElementOfSeq DEF TypeOK
<1>4. asked' \in Seq(Messages)
  BY <1>2, <1>3, SubSeqProperties DEF WireLost
<1> QED
  BY <1>1, <1>4

LEMMA TypeStep == TypeOK /\ [WsNext]_wsVars => TypeOK'
<1> SUFFICES ASSUME TypeOK, [WsNext]_wsVars PROVE TypeOK'
  OBVIOUS
<1> USE DEF TypeOK
<1>1. CASE Connect
  BY <1>1, DialType DEF Connect
<1>2. CASE Disconnect
  <2>1. closing' \in Nat /\ stray' \in Nat
    BY <1>2, LetGoType DEF Disconnect
  <2>2. msgQueue' \in Seq(Messages) /\ asked' \in Seq(Messages) /\ wired' \in Seq(Messages)
    BY <1>2, EmptySeq DEF Disconnect
  <2>3. reconnectAttempts' \in 0..MaxAttempts /\ orphans' \in Nat
    BY <1>2, BoundsAssumption DEF Disconnect
  <2>4. /\ wsRef' = "null" /\ token' \in Tokens
        /\ connected' \in BOOLEAN /\ latest' \in BOOLEAN
        /\ intentionalClose' \in BOOLEAN /\ refused' \in BOOLEAN
    BY <1>2, Zenon DEF Disconnect
  <2> QED
    BY <2>1, <2>2, <2>3, <2>4
<1>3. ASSUME NEW m \in Messages, Send(m) PROVE TypeOK'
  <2>1. msgQueue' \in Seq(Messages) /\ asked' \in Seq(Messages) /\ wired' \in Seq(Messages)
    <3>1. /\ Append(msgQueue, m) \in Seq(Messages) /\ Append(asked, m) \in Seq(Messages)
          /\ Append(wired, m) \in Seq(Messages)
      BY AppendProperties, <1>3
    <3> QED
      BY <1>3, <3>1, Zenon DEF Send
  <2> QED
    BY <2>1, <1>3 DEF Send
<1>4. CASE Opened
  <2>1. msgQueue' \in Seq(Messages) /\ asked' \in Seq(Messages) /\ wired' \in Seq(Messages)
    BY <1>4, EmptySeq, ConcatProperties DEF Opened
  <2>2. reconnectAttempts' \in 0..MaxAttempts
    BY <1>4, BoundsAssumption DEF Opened
  <2>3. wsRef' \in Live /\ connected' \in BOOLEAN
    BY <1>4, Zenon DEF Opened, Live
  <2> QED
    BY <2>1, <2>2, <2>3, <1>4 DEF Opened
<1>5. CASE ConnectTimeout
  BY <1>5 DEF ConnectTimeout, AfterClose, Live
<1>6. CASE Taken
  <2>1. wired' \in Seq(Messages)
    BY <1>6, HeadTailProperties DEF Taken
  <2>2. Len(asked) \in Nat /\ \A i \in 2 .. Len(asked) : asked[i] \in Messages
    BY LenProperties, ElementOfSeq
  <2>3. asked' \in Seq(Messages)
    BY <1>6, <2>2, SubSeqProperties DEF Taken
  <2> QED
    BY <2>1, <2>3, <1>6 DEF Taken, sockets, timers
<1>7. CASE PeerCloses
  BY <1>7, WireLostType DEF PeerCloses
<1>8. CASE TimerFires
  <2>1. latest' \in BOOLEAN
    BY <1>8, Zenon DEF TimerFires
  <2>2. orphans' \in Nat
    BY <1>8 DEF TimerFires
  <2> QED
    BY <2>1, <2>2, <1>8, DialType DEF TimerFires
<1>9. CASE TokenLost
  BY <1>9, BoundsAssumption DEF TokenLost, Tokens
<1>10. ASSUME NEW code \in Codes, Closed(code) PROVE TypeOK'
  BY <1>10, OnCloseType, WireLostType DEF Closed
<1>11. ASSUME NEW code \in Codes, StaleClosed(code) PROVE TypeOK'
  BY <1>11, OnCloseType DEF StaleClosed
<1>12. CASE UNCHANGED wsVars
  BY <1>12 DEF wsVars
<1> QED
  BY <1>1, <1>2, <1>3, <1>4, <1>5, <1>6, <1>7, <1>8, <1>9, <1>10, <1>11, <1>12, WsCases

THEOREM TypeCorrect == WsSpec => []TypeOK
  BY TypeInit, TypeStep, PTL DEF WsSpec

-----------------------------------------------------------------------------
(***************************************************************************)
(* The player is never connected twice by the hook itself.                 *)
(***************************************************************************)
LEMMA DialStray == ASSUME NoStray, Dial PROVE NoStray'
  BY DEF NoStray, Dial, LetGo

LEMMA StrayStep == NoStray /\ [WsNext]_wsVars => NoStray'
<1> SUFFICES ASSUME NoStray, [WsNext]_wsVars PROVE NoStray'
  OBVIOUS
<1>1. CASE Connect \/ TimerFires
  BY <1>1, DialStray DEF Connect, TimerFires
<1>2. CASE Disconnect
  BY <1>2 DEF Disconnect, LetGo, AfterClose, Live, NoStray
<1>3. CASE UNCHANGED stray
  BY <1>3 DEF NoStray
<1> QED
  BY <1>1, <1>2, <1>3, WsCases
     DEF Send, Opened, ConnectTimeout, Taken, PeerCloses, TokenLost, Closed, StaleClosed,
         sockets, wsVars

THEOREM NeverTwice == WsSpec => []NoStray
<1>1. WsInit => NoStray
  BY DEF WsInit, NoStray
<1> QED
  BY <1>1, StrayStep, PTL DEF WsSpec

-----------------------------------------------------------------------------
(***************************************************************************)
(* The hook loses, repeats and reorders nothing that it was asked to send. *)
(* While the socket is open nothing waits, so that what is sent over it    *)
(* cannot overtake what was queued before.                                 *)
(***************************************************************************)
OpenIsFlushed == wsRef = "open" => msgQueue = <<>>

OrderInv == TypeOK /\ InOrder /\ OpenIsFlushed

LEMMA WireLostInOrder ==
  ASSUME TypeOK, InOrder, WireLost PROVE asked' = msgQueue /\ wired' = <<>>
<1> USE DEF TypeOK, InOrder, WireLost
<1>1. Len(wired) \in Nat /\ Len(msgQueue) \in Nat
  BY LenProperties
<1>2. Len(asked) = Len(wired) + Len(msgQueue)
  BY ConcatProperties
<1>3. /\ \A i \in 1 .. Len(msgQueue) : asked[Len(wired) + i] = msgQueue[i]
      /\ \A i \in Len(wired) + 1 .. Len(asked) : asked[i] \in Messages
  BY <1>1, <1>2, ConcatProperties, ElementOfSeq
<1>4. /\ asked' \in Seq(Messages) /\ Len(asked') = Len(msgQueue)
      /\ \A i \in 1 .. Len(msgQueue) : asked'[i] = asked[Len(wired) + 1 + i - 1]
  BY <1>1, <1>2, <1>3, SubSeqProperties
<1>5. \A i \in 1 .. Len(msgQueue) : asked'[i] = msgQueue[i]
  BY <1>1, <1>3, <1>4
<1> QED
  BY <1>4, <1>5, SeqEqual

LEMMA OrderStep == OrderInv /\ [WsNext]_wsVars => OrderInv'
<1> SUFFICES ASSUME OrderInv, [WsNext]_wsVars PROVE InOrder' /\ OpenIsFlushed'
  BY TypeStep DEF OrderInv
<1> USE DEF OrderInv, OpenIsFlushed
<1>1. CASE Connect \/ TimerFires
  BY <1>1 DEF Connect, TimerFires, Dial, InOrder
<1>2. CASE Disconnect
  BY <1>2 DEF Disconnect, InOrder
<1>3. ASSUME NEW m \in Messages, Send(m) PROVE InOrder' /\ OpenIsFlushed'
  <2>1. CASE wsRef = "open"
    <3>1. wired \o msgQueue = wired /\ Append(wired, m) \o <<>> = Append(wired, m)
      BY <2>1, AppendProperties, ConcatEmptySeq DEF TypeOK
    <3> QED
      BY <1>3, <2>1, <3>1 DEF Send, InOrder
  <2>2. CASE wsRef # "open"
    <3>1. Append(msgQueue, m) = msgQueue \o <<m>> /\ Append(asked, m) = asked \o <<m>>
      BY AppendIsConcat DEF TypeOK
    <3>2. (wired \o msgQueue) \o <<m>> = wired \o (msgQueue \o <<m>>)
      BY ConcatAssociative DEF TypeOK
    <3> QED
      BY <1>3, <2>2, <3>1, <3>2 DEF Send, InOrder
  <2> QED
    BY <2>1, <2>2
<1>4. CASE Opened
  BY <1>4, ConcatProperties, ConcatEmptySeq DEF Opened, InOrder, TypeOK
<1>5. CASE Taken
  <2>1. wsRef' = wsRef /\ msgQueue' = <<>> /\ msgQueue = <<>> /\ wired # <<>>
    BY <1>5 DEF Taken, sockets
  <2>2. asked = wired
    BY <2>1, ConcatEmptySeq DEF TypeOK, InOrder
  <2>3. asked' = Tail(wired)
    BY <1>5, <2>1, <2>2, TailIsSubSeq DEF Taken, TypeOK
  <2>4. wired' = Tail(wired) /\ Tail(wired) \in Seq(Messages)
    BY <1>5, <2>1, HeadTailProperties DEF Taken, TypeOK
  <2> QED
    BY <2>1, <2>3, <2>4, ConcatEmptySeq DEF InOrder
<1>6. CASE PeerCloses
  BY <1>6, WireLostInOrder, ConcatEmptySeq DEF PeerCloses, TypeOK, InOrder
<1>7. ASSUME NEW code \in Codes, Closed(code) PROVE InOrder' /\ OpenIsFlushed'
  BY <1>7, WireLostInOrder, ConcatEmptySeq DEF Closed, OnClose, TypeOK, InOrder
<1>8. ASSUME NEW code \in Codes, StaleClosed(code) PROVE InOrder' /\ OpenIsFlushed'
  BY <1>8 DEF StaleClosed, OnClose, InOrder
<1>9. CASE ConnectTimeout
  BY <1>9 DEF ConnectTimeout, AfterClose, InOrder, Live
<1>10. CASE TokenLost \/ UNCHANGED wsVars
  BY <1>10 DEF TokenLost, wsVars, InOrder
<1> QED
  BY <1>1, <1>2, <1>3, <1>4, <1>5, <1>6, <1>7, <1>8, <1>9, <1>10, WsCases

THEOREM NothingOvertakes == WsSpec => []InOrder
<1>1. WsInit => OrderInv
  <2>1. WsInit => InOrder
    BY ConcatEmptySeq, EmptySeq DEF WsInit, InOrder
  <2> QED
    BY <2>1, TypeInit DEF WsInit, OrderInv, OpenIsFlushed
<1>2. OrderInv => InOrder
  BY DEF OrderInv
<1> QED
  BY <1>1, <1>2, OrderStep, PTL DEF WsSpec

-----------------------------------------------------------------------------
(***************************************************************************)
(* A connection that was lost comes back.  The close event of a socket     *)
(* that wsRef has let go of may come while another one is up or down: it   *)
(* never takes the way back away.                                          *)
(***************************************************************************)
WayBack == latest \/ orphans > 0 \/ reconnectAttempts = MaxAttempts \/ refused

\* Whatever socket closes, onclose leaves a way back unless the hook was told to hang up.
LEMMA OnCloseKeepsWayBack ==
  ASSUME TypeOK, NEW code \in Codes, OnClose(code), ~intentionalClose
  PROVE  WayBack'
<1>1. CASE Rejected(code)
  BY <1>1 DEF OnClose, WayBack
<1>2. CASE ~Rejected(code) /\ reconnectAttempts < MaxAttempts
  BY <1>2, Zenon DEF OnClose, Retry, Schedule, WayBack
<1>3. CASE ~Rejected(code) /\ reconnectAttempts = MaxAttempts
  <2>1. ~(reconnectAttempts < MaxAttempts)
    BY <1>3, BoundsAssumption
  <2>2. reconnectAttempts' = reconnectAttempts
    BY <1>3, <2>1, Zenon DEF OnClose, Retry, GiveUp
  <2> QED
    BY <1>3, <2>2 DEF WayBack
<1> QED
  BY <1>1, <1>2, <1>3, BoundsAssumption DEF TypeOK

LEMMA WayBackStep == TypeOK /\ AlwaysAWayBack /\ [WsNext]_wsVars => AlwaysAWayBack'
<1> SUFFICES ASSUME TypeOK, AlwaysAWayBack, [WsNext]_wsVars,
                    wsRef' = "closed", ~intentionalClose'
             PROVE  WayBack'
  BY DEF AlwaysAWayBack, WayBack
<1> USE DEF AlwaysAWayBack
<1>1. CASE Connect \/ TimerFires
  BY <1>1 DEF Connect, TimerFires, Dial, Live
<1>2. CASE Disconnect \/ Opened \/ ConnectTimeout \/ PeerCloses
  BY <1>2 DEF Disconnect, Opened, ConnectTimeout, PeerCloses, AfterClose, Live
<1>3. ASSUME NEW m \in Messages, Send(m) PROVE WayBack'
  BY <1>3, Zenon DEF Send, WayBack
<1>4. CASE Taken \/ TokenLost
  BY <1>4, Zenon DEF Taken, TokenLost, WayBack, sockets, timers
<1>5. ASSUME NEW code \in Codes, Closed(code) \/ StaleClosed(code) PROVE WayBack'
  <2>1. OnClose(code)
    BY <1>5, Zenon DEF Closed, StaleClosed
  <2>2. ~intentionalClose
    BY <2>1, Zenon DEF OnClose
  <2> QED
    BY <2>1, <2>2, OnCloseKeepsWayBack
<1>6. CASE UNCHANGED wsVars
  BY <1>6 DEF wsVars, WayBack
<1> QED
  BY <1>1, <1>2, <1>3, <1>4, <1>5, <1>6, WsCases

THEOREM LostConnectionsReturn == WsSpec => []AlwaysAWayBack
<1>1. WsInit => TypeOK /\ AlwaysAWayBack
  BY TypeInit DEF WsInit, AlwaysAWayBack
<1> QED
  BY <1>1, TypeStep, WayBackStep, PTL DEF WsSpec

-----------------------------------------------------------------------------
(***************************************************************************)
(* After disconnect() the hook is quiet: no late close event makes it try  *)
(* to reconnect.                                                           *)
(***************************************************************************)
LEMMA QuietStep == TypeOK /\ HungUpIsQuiet /\ [WsNext]_wsVars => HungUpIsQuiet'
<1> SUFFICES ASSUME TypeOK, HungUpIsQuiet, [WsNext]_wsVars, intentionalClose'
             PROVE  wsRef' = "null" /\ ~latest' /\ ~connected'
  BY DEF HungUpIsQuiet
<1> USE DEF HungUpIsQuiet
<1>1. CASE Connect \/ TimerFires
  BY <1>1 DEF Connect, TimerFires, Dial, Live
<1>2. CASE Disconnect
  BY <1>2, Zenon DEF Disconnect
<1>3. CASE Opened \/ ConnectTimeout \/ PeerCloses \/ Taken
  BY <1>3 DEF Opened, ConnectTimeout, PeerCloses, Taken, timers, sockets
<1>4. ASSUME NEW m \in Messages, Send(m) PROVE wsRef' = "null" /\ ~latest' /\ ~connected'
  BY <1>4 DEF Send
<1>5. ASSUME NEW code \in Codes, Closed(code) \/ StaleClosed(code)
      PROVE  wsRef' = "null" /\ ~latest' /\ ~connected'
  BY <1>5 DEF Closed, StaleClosed, OnClose, Rejected, Retry, GiveUp, Live
<1>6. CASE TokenLost \/ UNCHANGED wsVars
  <2>1. /\ intentionalClose' = intentionalClose /\ wsRef' = wsRef
        /\ latest' = latest /\ connected' = connected
    BY <1>6 DEF TokenLost, wsVars
  <2> QED
    BY <2>1, Zenon
<1> QED
  BY <1>1, <1>2, <1>3, <1>4, <1>5, <1>6, WsCases

THEOREM HangingUpIsFinal == WsSpec => []HungUpIsQuiet
<1>1. WsInit => TypeOK /\ HungUpIsQuiet
  BY TypeInit DEF WsInit, HungUpIsQuiet
<1> QED
  BY <1>1, TypeStep, QuietStep, PTL DEF WsSpec
=============================================================================
