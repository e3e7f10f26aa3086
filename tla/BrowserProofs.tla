---------------------------- MODULE BrowserProofs ----------------------------
(***************************************************************************)
(* Theorems about one tab of the browser, for every set of accounts and    *)
(* messages and every bound: what WsProofs shows of the hook holds though  *)
(* pages come and go over it, and the session, the connection and the      *)
(* pages fit together.                                                     *)
(***************************************************************************)
EXTENDS Browser, WsProofs, FiniteSetTheorems

\* The cases a proof about Next has to look at.
LEMMA BrowserCases ==
  ASSUME [Next]_vars
  PROVE  \/ \E p \in Pages : Load(p)
         \/ \E p \in Pages : Click(p)
         \/ \E a \in Accounts : Submit(a)
         \/ Logout \/ PrevPage \/ NextPage
         \/ \E lang \in Languages : ChooseLang(lang)
         \/ \E level : ChooseLevel(level)
         \/ \E quiz : ChooseQuiz(quiz)
         \/ Play \/ Quit \/ \E m \in Messages : Say(m)
         \/ Effects \/ Land
         \/ \E r \in logins : LoginAnswer(r)
         \/ \E a \in Users : StatsAnswer(a)
         \/ \E p \in 1..MaxPages : ListAnswer(p)
         \/ Connects \/ PeerEnds \/ Reconnects \/ Expires
         \/ \E code \in Codes : LineEnds(code)
         \/ \E code \in Codes : StaleLineEnds(code)
         \/ UNCHANGED vars
  BY DEF Next, Player, PageAnswers

-----------------------------------------------------------------------------
(***************************************************************************)
(* The line: a step of the tab is one of the hook's, or leaves the line    *)
(* alone, or hangs it up.                                                  *)
(***************************************************************************)
LEMMA ShowToLine ==
  ASSUME NEW u, NEW whose, NEW g, ShowTo(u, whose, g) PROVE HangUp \/ KeepLine
  BY DEF ShowTo, Crash

LEMMA StayLine == ASSUME NEW v, Stay(v) PROVE UNCHANGED wsVars
  BY DEF Stay

LEMMA LineCases ==
  ASSUME TypeOK, [Next]_vars
  PROVE  [WsNext]_wsVars \/ ((HangUp \/ KeepLine) /\ token' \in Tokens)
<1> USE DEF WsNext, Events, Tokens
<1>1. token \in Tokens
  BY DEF TypeOK
<1>2. ASSUME NEW p \in Pages, Load(p) PROVE HangUp /\ token' \in Tokens
  BY <1>1, <1>2 DEF Load
<1>3. CASE Effects
  BY <1>1, <1>3, ShowToLine DEF Effects, ForgetSession
<1>4. CASE Logout
  BY <1>4, ShowToLine DEF Logout, ForgetSession
<1>5. CASE Land
  BY <1>1, <1>5 DEF Land, Mount
<1>6. ASSUME NEW r \in logins, LoginAnswer(r) PROVE (HangUp \/ KeepLine) /\ token' \in Tokens
  BY <1>1, <1>6, ShowToLine DEF LoginAnswer, SignedIn, SignInFails
<1>7. ASSUME \/ PrevPage \/ NextPage \/ \E lang \in Languages : ChooseLang(lang)
             \/ (\E level : ChooseLevel(level)) \/ \E quiz : ChooseQuiz(quiz)
             \/ (\E a \in Users : StatsAnswer(a)) \/ \E p \in 1..MaxPages : ListAnswer(p)
      PROVE  UNCHANGED wsVars
  BY <1>7, StayLine DEF PrevPage, NextPage, FetchPage, ChooseLang, ChooseLevel, ChooseQuiz,
                        StatsAnswer, ListAnswer
<1>8. ASSUME (\E p \in Pages : Click(p)) \/ (\E a \in Accounts : Submit(a)) \/ UNCHANGED vars
      PROVE  UNCHANGED wsVars
  BY <1>8 DEF Click, Submit, vars
<1>9. ASSUME Play \/ Quit \/ \E m \in Messages : Say(m) PROVE WsNext
  BY <1>9 DEF Play, Quit, Say
<1>10. ASSUME Connects \/ PeerEnds \/ Reconnects \/ Expires PROVE WsNext
  BY <1>10 DEF Connects, PeerEnds, Reconnects, Expires
<1>11. ASSUME NEW code \in Codes, LineEnds(code) \/ StaleLineEnds(code) PROVE WsNext
  BY <1>11 DEF LineEnds, StaleLineEnds
<1> QED
  BY <1>2, <1>3, <1>4, <1>5, <1>6, <1>7, <1>8, <1>9, <1>10, <1>11, BrowserCases

-----------------------------------------------------------------------------
(* What holds of the hook holds of it in the tab. *)

\* The hook is type correct in the tab: it counts no more attempts than it may make.
THEOREM TabTypeCorrect == Spec => []TypeOK
<1>1. Init => TypeOK
  <2> SUFFICES ASSUME Init PROVE TypeOK
    OBVIOUS
  <2> USE DEF Init
  <2>1. /\ wsRef \in Live \cup {"closing", "closed", "null"} /\ token \in Tokens
        /\ connected \in BOOLEAN /\ latest \in BOOLEAN
        /\ intentionalClose \in BOOLEAN /\ refused \in BOOLEAN
    BY Zenon DEF Tokens
  <2>2. /\ closing \in Nat /\ stray \in Nat /\ orphans \in Nat
        /\ reconnectAttempts \in 0..MaxAttempts
    BY BoundsAssumption
  <2>3. msgQueue \in Seq(Messages) /\ asked \in Seq(Messages) /\ wired \in Seq(Messages)
    BY EmptySeq
  <2> QED
    BY <2>1, <2>2, <2>3 DEF TypeOK
<1>2. TypeOK /\ [Next]_vars => TypeOK'
  <2> SUFFICES ASSUME TypeOK, [Next]_vars PROVE TypeOK'
    OBVIOUS
  <2>1. CASE [WsNext]_wsVars
    BY <2>1, TypeStep
  <2>2. CASE HangUp /\ token' \in Tokens
    <3>1. /\ wsRef' = "null" /\ connected' \in BOOLEAN /\ latest' \in BOOLEAN
          /\ intentionalClose' \in BOOLEAN /\ refused' \in BOOLEAN
      BY <2>2, Zenon DEF HangUp
    <3>2. closing' \in Nat /\ stray' \in Nat /\ orphans' \in Nat /\ reconnectAttempts' \in 0..MaxAttempts
      BY <2>2, BoundsAssumption DEF HangUp
    <3>3. msgQueue' \in Seq(Messages) /\ asked' \in Seq(Messages) /\ wired' \in Seq(Messages)
      BY <2>2, EmptySeq DEF HangUp
    <3> QED
      BY <3>1, <3>2, <3>3, <2>2 DEF TypeOK
  <2>3. CASE KeepLine /\ token' \in Tokens
    BY <2>3 DEF KeepLine, TypeOK, sockets, traffic, timers
  <2> QED
    BY <2>1, <2>2, <2>3, LineCases
<1> QED
  BY <1>1, <1>2, PTL DEF Spec

\* A connection that was lost comes back, whatever pages and sessions come in between.
THEOREM TabConnectionsReturn == Spec => []AlwaysAWayBack
<1>1. Init => AlwaysAWayBack
  BY DEF Init, AlwaysAWayBack
<1>2. TypeOK /\ AlwaysAWayBack /\ [Next]_vars => AlwaysAWayBack'
  <2> SUFFICES ASSUME TypeOK, AlwaysAWayBack, [Next]_vars PROVE AlwaysAWayBack'
    OBVIOUS
  <2>1. CASE [WsNext]_wsVars
    BY <2>1, WayBackStep
  <2>2. CASE HangUp
    BY <2>2 DEF HangUp, AlwaysAWayBack
  <2>3. CASE KeepLine
    BY <2>3 DEF KeepLine, AlwaysAWayBack, sockets, timers
  <2> QED
    BY <2>1, <2>2, <2>3, LineCases
<1> QED
  BY <1>1, <1>2, TabTypeCorrect, PTL DEF Spec

-----------------------------------------------------------------------------
(***************************************************************************)
(* The connection goes with the play page, and so do all the sockets and   *)
(* timers that could touch it.                                             *)
(***************************************************************************)
LineInv ==
  page # "play" => wsRef = "null" /\ ~latest /\ ~connected /\ orphans = 0 /\ closing = 0

\* A page is left by hanging up only.
LEMMA ShowToLeaves ==
  ASSUME NEW u, NEW whose, NEW g, ShowTo(u, whose, g) PROVE HangUp \/ (KeepLine /\ UNCHANGED page)
  BY DEF ShowTo, Crash

LEMMA StayPage == ASSUME NEW v, Stay(v) PROVE UNCHANGED <<wsVars, page>>
  BY DEF Stay

LEMMA PageCases ==
  ASSUME [Next]_vars
  PROVE  \/ HangUp
         \/ KeepLine /\ UNCHANGED page
         \/ page = "play" /\ page' = "play"
         \/ (Events \/ TokenLost) /\ UNCHANGED page
<1>1. ASSUME NEW p \in Pages, Load(p) PROVE HangUp
  BY <1>1 DEF Load
<1>2. CASE Effects \/ Logout
  BY <1>2, ShowToLeaves DEF Effects, Logout
<1>3. CASE Land
  BY <1>3 DEF Land, Mount
<1>4. ASSUME NEW r \in logins, LoginAnswer(r) PROVE HangUp \/ (KeepLine /\ UNCHANGED page)
  BY <1>4, ShowToLeaves DEF LoginAnswer, SignedIn, SignInFails
<1>5. ASSUME \/ PrevPage \/ NextPage \/ \E lang \in Languages : ChooseLang(lang)
             \/ (\E level : ChooseLevel(level)) \/ \E quiz : ChooseQuiz(quiz)
             \/ (\E a \in Users : StatsAnswer(a)) \/ \E p \in 1..MaxPages : ListAnswer(p)
      PROVE  UNCHANGED <<wsVars, page>>
  BY <1>5, StayPage DEF PrevPage, NextPage, FetchPage, ChooseLang, ChooseLevel, ChooseQuiz,
                        StatsAnswer, ListAnswer
<1>6. ASSUME (\E p \in Pages : Click(p)) \/ (\E a \in Accounts : Submit(a)) \/ UNCHANGED vars
      PROVE  UNCHANGED <<wsVars, page>>
  BY <1>6 DEF Click, Submit, vars, tab
<1>7. UNCHANGED <<wsVars, page>> => KeepLine /\ UNCHANGED page
  BY DEF wsVars, KeepLine, sockets, traffic, timers
<1>8. ASSUME Play \/ Quit \/ \E m \in Messages : Say(m) PROVE page = "play" /\ page' = "play"
  BY <1>8 DEF Play, Quit, Say, Idle, OnLine
<1>9. ASSUME Connects \/ PeerEnds \/ Reconnects \/ Expires
      PROVE  (Events \/ TokenLost) /\ UNCHANGED page
  BY <1>9 DEF Connects, PeerEnds, Reconnects, Expires, Events, tab
<1>10. ASSUME NEW code \in Codes, LineEnds(code) \/ StaleLineEnds(code)
       PROVE  Events /\ UNCHANGED page
  BY <1>10 DEF LineEnds, StaleLineEnds, Ends, Events
<1> QED
  BY <1>1, <1>2, <1>3, <1>4, <1>5, <1>6, <1>7, <1>8, <1>9, <1>10, BrowserCases

LEMMA LineInvStep == LineInv /\ [Next]_vars => LineInv'
<1> SUFFICES ASSUME LineInv, [Next]_vars PROVE LineInv'
  OBVIOUS
<1> USE DEF LineInv
<1>1. CASE HangUp
  BY <1>1, Zenon DEF HangUp
<1>2. CASE KeepLine /\ UNCHANGED page
  <2>1. /\ wsRef' = wsRef /\ latest' = latest /\ connected' = connected
        /\ orphans' = orphans /\ closing' = closing /\ page' = page
    BY <1>2 DEF KeepLine, sockets, timers
  <2> QED
    BY <2>1, Zenon
<1>3. CASE page = "play" /\ page' = "play"
  BY <1>3
<1>4. CASE (Events \/ TokenLost) /\ UNCHANGED page
  <2>1. SUFFICES ASSUME page # "play" PROVE LineInv'
    BY <1>4
  <2>2. ~Events
    BY <2>1 DEF Events, Opened, ConnectTimeout, PeerCloses, TimerFires, Closed, StaleClosed, Live
  <2>3. /\ wsRef' = wsRef /\ latest' = latest /\ connected' = connected
        /\ orphans' = orphans /\ closing' = closing /\ page' = page
    BY <1>4, <2>2 DEF TokenLost
  <2> QED
    BY <2>3, Zenon
<1> QED
  BY <1>1, <1>2, <1>3, <1>4, PageCases

\* No page but the play page has a connection, a pending reconnection or the news of either.
THEOREM ConnectionGoesWithPage == Spec => []SocketOnlyOnPlay
<1>1. Init => LineInv
  BY DEF Init, LineInv
<1>2. LineInv => SocketOnlyOnPlay
  BY DEF LineInv, SocketOnlyOnPlay
<1> QED
  BY <1>1, <1>2, LineInvStep, PTL DEF Spec

-----------------------------------------------------------------------------
(***************************************************************************)
(* Whose session it is.  The token and the user in localStorage are always *)
(* written together; a tab that React has given up shows nobody.           *)
(***************************************************************************)
SessionInv ==
  /\ saved = owner
  /\ owner # NoOne /\ user # NoOne => owner = user
  /\ page = "error" => user = NoOne
  /\ going # "error"
  /\ logins \subseteq [of : Accounts, here : BOOLEAN]

\* Showing a user with whose token it is, or nobody, keeps the session in one piece.
LEMMA ShowToSession ==
  ASSUME NEW u, NEW whose, NEW g, ShowTo(u, whose, g), SessionInv, g # "error"
  PROVE  /\ user' \in {u, NoOne}
         /\ page' = "error" => user' = NoOne
         /\ going' # "error"
  BY DEF ShowTo, Crash, SentTo, SessionInv

LEMMA SessionStep == SessionInv /\ [Next]_vars => SessionInv'
<1> SUFFICES ASSUME SessionInv, [Next]_vars PROVE SessionInv'
  OBVIOUS
<1> USE DEF SessionInv
<1>1. ASSUME NEW p \in Pages, Load(p) PROVE SessionInv'
  BY <1>1 DEF Load, Pages, SentTo
<1>2. CASE Effects
  <2>1. /\ user' = NoOne \/ (user' = saved /\ token = "valid")
        /\ page' = "error" => user' = NoOne
        /\ going' # "error"
    BY <1>2, ShowToSession DEF Effects
  <2>2. owner' = saved' /\ logins' = logins
    BY <1>2 DEF Effects, ForgetSession
  <2>3. token = "valid" => owner' = owner
    BY <1>2 DEF Effects
  <2> QED
    BY <2>1, <2>2, <2>3
<1>3. CASE Logout
  BY <1>3, ShowToSession DEF Logout, ForgetSession
<1>4. CASE Land
  <2>1. CASE going = page
    BY <1>4, <2>1 DEF Land
  <2>2. CASE going # page
    <3>1. /\ user' = user /\ owner' = owner /\ saved' = saved
          /\ page' = going /\ going' = SentTo(going, user, "none")
          /\ logins' = {[r EXCEPT !.here = FALSE] : r \in logins}
      BY <1>4, <2>2 DEF Land, Mount
    <3>2. logins' \subseteq [of : Accounts, here : BOOLEAN]
      BY <3>1
    <3> QED
      BY <3>1, <3>2 DEF SentTo
  <2> QED
    BY <2>1, <2>2
<1>5. ASSUME NEW r \in logins, LoginAnswer(r) PROVE SessionInv'
  <2>1. r.of \in Accounts /\ logins' \subseteq logins
    BY <1>5 DEF LoginAnswer
  <2>2. CASE SignedIn(r)
    <3>1. /\ user' \in {r.of, NoOne}
          /\ page' = "error" => user' = NoOne
          /\ going' # "error"
      BY <2>2, ShowToSession DEF SignedIn
    <3> QED
      BY <2>1, <2>2, <3>1 DEF SignedIn
  <2>3. CASE SignInFails(r)
    BY <2>1, <2>3 DEF SignInFails
  <2> QED
    BY <1>5, <2>2, <2>3 DEF LoginAnswer
<1>6. ASSUME NEW p \in Pages, Click(p) PROVE SessionInv'
  BY <1>6 DEF Click, Pages
<1>7. ASSUME NEW a \in Accounts, Submit(a) PROVE SessionInv'
  <2>1. [of |-> a, here |-> TRUE] \in [of : Accounts, here : BOOLEAN]
    OBVIOUS
  <2> QED
    BY <1>7, <2>1 DEF Submit
<1>8. ASSUME \/ PrevPage \/ NextPage \/ \E lang \in Languages : ChooseLang(lang)
             \/ (\E level : ChooseLevel(level)) \/ \E quiz : ChooseQuiz(quiz)
             \/ (\E a \in Users : StatsAnswer(a)) \/ \E p \in 1..MaxPages : ListAnswer(p)
      PROVE  UNCHANGED <<user, owner, saved, page, going, logins>>
  <2>1. ASSUME NEW v, Stay(v) PROVE UNCHANGED <<user, owner, saved, page, going, logins>>
    BY <2>1 DEF Stay
  <2> QED
    BY <1>8, <2>1 DEF PrevPage, NextPage, FetchPage, ChooseLang, ChooseLevel, ChooseQuiz,
                      StatsAnswer, ListAnswer
<1>9. ASSUME \/ Play \/ Quit \/ \E m \in Messages : Say(m)
             \/ Connects \/ PeerEnds \/ Reconnects \/ UNCHANGED vars
      PROVE  UNCHANGED <<user, owner, saved, page, going, logins>>
  BY <1>9 DEF Play, Quit, Say, OnLine, Connects, PeerEnds, Reconnects, vars, tab
<1>10. CASE Expires
  BY <1>10 DEF Expires
<1>11. ASSUME NEW code \in Codes, LineEnds(code) \/ StaleLineEnds(code) PROVE SessionInv'
  <2>1. Ends(code)
    BY <1>11 DEF LineEnds, StaleLineEnds
  <2> QED
    BY <2>1 DEF Ends
<1>12. CASE UNCHANGED <<user, owner, saved, page, going, logins>>
  BY <1>12
<1> QED
  BY <1>1, <1>2, <1>3, <1>4, <1>5, <1>6, <1>7, <1>8, <1>9, <1>10, <1>11, <1>12, BrowserCases

\* The tab shows the user whose token it uses and whom a reload brings back.
THEOREM OneSession == Spec => []SessionsAgree
<1>1. Init => SessionInv
  BY DEF Init, SessionInv
<1>2. SessionInv => SessionsAgree
  BY DEF SessionInv, SessionsAgree
<1> QED
  BY <1>1, <1>2, SessionStep, PTL DEF Spec

-----------------------------------------------------------------------------
(***************************************************************************)
(* What a page shows.  Only the page in view changes it, or a navigation   *)
(* that mounts another; a late sign-in answer finds its form by its flag.  *)
(***************************************************************************)
FormInv == \A r \in logins : r.here => page = "login"

LoginsInv == logins \subseteq [of : Accounts, here : BOOLEAN] /\ FormInv

\* How page and view change together.
ViewStep ==
  \/ UNCHANGED <<page, view>>
  \/ \E p \in Pages, u \in Users : page' = p /\ view' = Fresh(p, u)
  \/ page' = "error"
  \/ page = "dashboard" /\ page' = "dashboard"
  \/ page = "login" /\ page' = "login"
  \/ page' = page /\ (PrevPage \/ NextPage \/ \E p \in 1..MaxPages : ListAnswer(p))
  \/ page = "play" /\ page' = "play" /\ \E lang \in Languages : ChooseLang(lang)
  \/ page = "play" /\ page' = "play" /\ \E level : ChooseLevel(level)
  \/ page = "play" /\ page' = "play" /\ \E quiz : ChooseQuiz(quiz)
  \/ page = "play" /\ page' = "play" /\ \E b \in BOOLEAN : view' = [view EXCEPT !.playing = b]

LEMMA ShowToView == ASSUME NEW u, NEW whose, NEW g, ShowTo(u, whose, g) PROVE ViewStep
  BY DEF ShowTo, Crash, ViewStep

LEMMA StayView == ASSUME NEW v, Stay(v) PROVE page' = page
  BY DEF Stay

\* The user and the navigation of a tab are of their types.
TabInv == user \in Users /\ saved \in Users /\ going \in Pages \cup {"none"}

LEMMA ShowToTab ==
  ASSUME NEW u \in Users, NEW whose, NEW g \in Pages \cup {"none"}, ShowTo(u, whose, g), TabInv
  PROVE  user' \in Users /\ going' \in Pages \cup {"none"}
  BY DEF ShowTo, Crash, SentTo, TabInv, Pages, Users

LEMMA TabStep == LoginsInv /\ TabInv /\ [Next]_vars => LoginsInv' /\ TabInv'
<1> SUFFICES ASSUME LoginsInv, TabInv, [Next]_vars PROVE LoginsInv' /\ TabInv'
  OBVIOUS
<1> USE DEF LoginsInv, FormInv
<1>1. ASSUME NEW p \in Pages, Load(p) PROVE LoginsInv' /\ TabInv'
  BY <1>1 DEF Load, SentTo, TabInv, Pages, Users
<1>2. CASE Effects \/ Logout
  <2>1. user' \in Users /\ going' \in Pages \cup {"none"} /\ saved' \in Users
    BY <1>2, ShowToTab DEF Effects, Logout, ForgetSession, TabInv, Users
  <2>2. logins' = logins /\ (page' = page \/ page = "play")
    BY <1>2 DEF Effects, Logout, ShowTo, HooksDiffer
  <2> QED
    BY <2>1, <2>2 DEF TabInv
<1>3. CASE Land
  <2>1. CASE going = page
    BY <1>3, <2>1 DEF Land, TabInv
  <2>2. CASE going # page
    <3>1. /\ user' = user /\ saved' = saved
          /\ going' = SentTo(going, user, "none")
          /\ logins' = {[r EXCEPT !.here = FALSE] : r \in logins}
      BY <1>3, <2>2 DEF Land, Mount
    <3>2. \A r \in [of : Accounts, here : BOOLEAN] :
            [r EXCEPT !.here = FALSE] \in [of : Accounts, here : {FALSE}]
      OBVIOUS
    <3>3. logins' \subseteq [of : Accounts, here : {FALSE}]
      BY <3>1, <3>2
    <3> QED
      BY <3>1, <3>3 DEF SentTo, TabInv, Pages
  <2> QED
    BY <2>1, <2>2
<1>4. ASSUME NEW r \in logins, LoginAnswer(r) PROVE LoginsInv' /\ TabInv'
  <2>1. r.of \in Users /\ logins' \subseteq logins
    BY <1>4 DEF LoginAnswer, Users
  <2>2. CASE SignedIn(r)
    <3>1. user' \in Users /\ going' \in Pages \cup {"none"} /\ saved' \in Users
      BY <2>1, <2>2, ShowToTab DEF SignedIn, Pages
    <3>2. page' = page \/ page = "play"
      BY <2>2 DEF SignedIn, ShowTo, HooksDiffer
    <3> QED
      BY <2>1, <3>1, <3>2 DEF TabInv
  <2>3. CASE SignInFails(r)
    BY <2>1, <2>3 DEF SignInFails, TabInv
  <2> QED
    BY <1>4, <2>2, <2>3 DEF LoginAnswer
<1>5. ASSUME NEW p \in Pages, Click(p) PROVE LoginsInv' /\ TabInv'
  BY <1>5 DEF Click, TabInv
<1>6. ASSUME NEW a \in Accounts, Submit(a) PROVE LoginsInv' /\ TabInv'
  <2>1. [of |-> a, here |-> TRUE] \in [of : Accounts, here : BOOLEAN]
    OBVIOUS
  <2> QED
    BY <1>6, <2>1 DEF Submit, TabInv
<1>7. CASE UNCHANGED <<user, saved, page, going, logins>>
  BY <1>7 DEF TabInv
<1>8. ASSUME \/ PrevPage \/ NextPage \/ \E lang \in Languages : ChooseLang(lang)
             \/ (\E level : ChooseLevel(level)) \/ \E quiz : ChooseQuiz(quiz)
             \/ (\E a \in Users : StatsAnswer(a)) \/ \E p \in 1..MaxPages : ListAnswer(p)
      PROVE  UNCHANGED <<user, saved, page, going, logins>>
  <2>1. ASSUME NEW v, Stay(v) PROVE UNCHANGED <<user, saved, page, going, logins>>
    BY <2>1 DEF Stay
  <2> QED
    BY <1>8, <2>1 DEF PrevPage, NextPage, FetchPage, ChooseLang, ChooseLevel, ChooseQuiz,
                      StatsAnswer, ListAnswer
<1>9. ASSUME \/ Play \/ Quit \/ \E m \in Messages : Say(m)
             \/ Connects \/ PeerEnds \/ Reconnects \/ UNCHANGED vars
      PROVE  UNCHANGED <<user, saved, page, going, logins>>
  BY <1>9 DEF Play, Quit, Say, OnLine, Connects, PeerEnds, Reconnects, vars, tab
<1>10. CASE Expires
  BY <1>10 DEF Expires, TabInv, Users
<1>11. ASSUME NEW code \in Codes, LineEnds(code) \/ StaleLineEnds(code)
       PROVE  LoginsInv' /\ TabInv'
  <2>1. Ends(code)
    BY <1>11 DEF LineEnds, StaleLineEnds
  <2> QED
    BY <2>1 DEF Ends, TabInv, Users, Pages
<1> QED
  BY <1>1, <1>2, <1>3, <1>4, <1>5, <1>6, <1>7, <1>8, <1>9, <1>10, <1>11, BrowserCases

LEMMA ViewCases ==
  ASSUME LoginsInv, TabInv, [Next]_vars
  PROVE  ViewStep
<1> USE DEF ViewStep
<1>1. ASSUME NEW p \in Pages, Load(p) PROVE ViewStep
  BY <1>1 DEF Load, Users
<1>2. CASE Effects \/ Logout
  BY <1>2, ShowToView DEF Effects, Logout
<1>3. CASE Land
  BY <1>3 DEF Land, Mount, TabInv
<1>4. ASSUME NEW r \in logins, LoginAnswer(r) PROVE ViewStep
  <2>1. CASE SignedIn(r)
    BY <2>1, ShowToView DEF SignedIn
  <2>2. CASE SignInFails(r)
    BY <2>2 DEF SignInFails, LoginsInv, FormInv
  <2> QED
    BY <1>4, <2>1, <2>2 DEF LoginAnswer
<1>5. ASSUME PrevPage \/ NextPage \/ \E p \in 1..MaxPages : ListAnswer(p) PROVE ViewStep
  BY <1>5, StayView DEF PrevPage, NextPage, FetchPage, ListAnswer
<1>6. ASSUME \/ \E lang \in Languages : ChooseLang(lang)
             \/ (\E level : ChooseLevel(level)) \/ \E quiz : ChooseQuiz(quiz)
      PROVE  ViewStep
  <2>1. page = "play" /\ page' = page
    BY <1>6, StayView DEF ChooseLang, ChooseLevel, ChooseQuiz, Idle
  <2> QED
    BY <1>6, <2>1
<1>7. ASSUME NEW a \in Users, StatsAnswer(a) PROVE ViewStep
  BY <1>7, StayView DEF StatsAnswer
<1>8. ASSUME NEW p \in Pages, Click(p) PROVE ViewStep
  BY <1>8 DEF Click
<1>9. ASSUME NEW a \in Accounts, Submit(a) PROVE ViewStep
  BY <1>9 DEF Submit
<1>10. CASE Play \/ Quit
  <2>1. page = "play" /\ page' = page
    BY <1>10 DEF Play, Quit, Idle, OnLine
  <2>2. \E b \in BOOLEAN : view' = [view EXCEPT !.playing = b]
    BY <1>10, Zenon DEF Play, Quit
  <2> QED
    BY <2>1, <2>2
<1>11. ASSUME (\E m \in Messages : Say(m)) \/ Connects \/ PeerEnds \/ Reconnects \/ Expires
       PROVE  UNCHANGED <<page, view>>
  BY <1>11 DEF Say, OnLine, Connects, PeerEnds, Reconnects, Expires, tab
<1>12. ASSUME NEW code \in Codes, LineEnds(code) \/ StaleLineEnds(code) PROVE ViewStep
  BY <1>12 DEF LineEnds, StaleLineEnds, Ends
<1>13. CASE UNCHANGED vars
  BY <1>13 DEF vars, tab
<1> QED
  BY <1>1, <1>2, <1>3, <1>4, <1>5, <1>6, <1>7, <1>8, <1>9, <1>10, <1>11, <1>12, <1>13, BrowserCases

-----------------------------------------------------------------------------
(***************************************************************************)
(* A mission is of one language.                                           *)
(***************************************************************************)
AllLevels == {"A1", "A2", "HSK1", "HSK2"}
AllQuizzes == {"meaning_to_word", "word_to_ipa", "word_to_pinyin"}

MissionInv ==
  page = "play" =>
    /\ view \in [lang : Languages, level : AllLevels, quiz : AllQuizzes, playing : BOOLEAN]
    /\ view.level \in Levels(view.lang) /\ view.quiz \in QuizTypes(view.lang)

LEMMA MissionStep == MissionInv /\ ViewStep => MissionInv'
<1> SUFFICES ASSUME MissionInv, ViewStep, page' = "play" PROVE MissionInv'
  BY DEF MissionInv
<1> USE DEF MissionInv
<1>1. CASE UNCHANGED <<page, view>>
  BY <1>1
<1>2. ASSUME NEW p \in Pages, NEW u \in Users, page' = p, view' = Fresh(p, u) PROVE MissionInv'
  BY <1>2 DEF Fresh, PlayPage, Languages, AllLevels, AllQuizzes, Levels, QuizTypes
<1>3. CASE page = "play" /\ \E lang \in Languages : ChooseLang(lang)
  BY <1>3 DEF ChooseLang, Stay, Languages, AllLevels, AllQuizzes, Levels, QuizTypes
<1>4. CASE page = "play" /\ \E level : ChooseLevel(level)
  BY <1>4 DEF ChooseLevel, Stay, Languages, AllLevels, AllQuizzes, Levels, QuizTypes
<1>5. CASE page = "play" /\ \E quiz : ChooseQuiz(quiz)
  BY <1>5 DEF ChooseQuiz, Stay, Languages, AllLevels, AllQuizzes, Levels, QuizTypes
<1>6. CASE page = "play" /\ \E b \in BOOLEAN : view' = [view EXCEPT !.playing = b]
  BY <1>6
<1>7. CASE page' = page /\ (PrevPage \/ NextPage \/ \E p \in 1..MaxPages : ListAnswer(p))
  BY <1>7 DEF PrevPage, NextPage, Shown, ListAnswer
<1> QED
  BY <1>1, <1>2, <1>3, <1>4, <1>5, <1>6, <1>7 DEF ViewStep

LEMMA TabInit == Init => LoginsInv /\ TabInv
  BY DEF Init, LoginsInv, FormInv, TabInv, Users, Pages

\* Whatever is chosen in whichever order, the level and the quiz type are of the language.
THEOREM MissionsAreOfOneLanguage == Spec => []MissionFits
<1>1. Init => MissionInv
  BY DEF Init, MissionInv
<1>2. MissionInv => MissionFits
  BY DEF MissionInv, MissionFits
<1>3. LoginsInv /\ TabInv /\ MissionInv /\ [Next]_vars => MissionInv'
  BY ViewCases, MissionStep
<1> QED
  BY <1>1, <1>2, <1>3, TabInit, TabStep, PTL DEF Spec

-----------------------------------------------------------------------------
(***************************************************************************)
(* The leaderboard waits for one answer at a time.                         *)
(***************************************************************************)
OneAsked(v) == v.loading /\ \E p \in Nat : v.asked = {p}

NoneAsked(v) == ~v.loading /\ v.asked = {}

ListInv ==
  page = "leaderboard" =>
    /\ view \in [page : Nat, total : Nat, asked : SUBSET Nat, loading : BOOLEAN]
    /\ OneAsked(view) \/ NoneAsked(view)
    /\ view.total > 0 => view.page \in 1..view.total

LEMMA FetchKeepsList ==
  ASSUME ListInv, page = "leaderboard", ~view.loading, NEW p \in Nat, FetchPage(p), page' = page
  PROVE  ListInv'
<1>1. view' = [view EXCEPT !.asked = @ \cup {p}, !.loading = TRUE]
  BY DEF FetchPage, Stay
<1>2. view.asked = {}
  BY Zenon DEF ListInv, OneAsked, NoneAsked
<1>3. /\ view' \in [page : Nat, total : Nat, asked : SUBSET Nat, loading : BOOLEAN]
      /\ view'.asked = {p} /\ view'.loading = TRUE
      /\ view'.page = view.page /\ view'.total = view.total
  BY <1>1, <1>2 DEF ListInv
<1>4. OneAsked(view)'
  BY <1>3, Zenon DEF OneAsked
<1>5. view'.total > 0 => view'.page \in 1..view'.total
  BY <1>3 DEF ListInv
<1> QED
  BY <1>3, <1>4, <1>5, Zenon DEF ListInv

LEMMA AnswerKeepsList ==
  ASSUME ListInv, NEW p \in 1..MaxPages, ListAnswer(p), page' = page
  PROVE  ListInv'
<1>1. page = "leaderboard" /\ p \in view.asked
  BY DEF ListAnswer
<1>2. view.asked = {p}
  BY <1>1, Zenon DEF ListInv, OneAsked, NoneAsked
<1>3. ASSUME NEW n \in 1..MaxPages, n >= p,
             view' = [page |-> p, total |-> n, asked |-> view.asked \ {p}, loading |-> FALSE]
      PROVE  ListInv'
  <2>1. view'.asked = {} /\ view'.loading = FALSE /\ view'.page = p /\ view'.total = n
    BY <1>2, <1>3
  <2>2. view' \in [page : Nat, total : Nat, asked : SUBSET Nat, loading : BOOLEAN]
    BY <1>2, <1>3, BrowserAssumption
  <2>3. NoneAsked(view)'
    BY <2>1, Zenon DEF NoneAsked
  <2>4. view'.page \in 1..view'.total
    BY <1>3, <2>1, BrowserAssumption
  <2> QED
    BY <2>2, <2>3, <2>4, Zenon DEF ListInv
<1>4. ASSUME view' = [view EXCEPT !.asked = @ \ {p}, !.loading = FALSE] PROVE ListInv'
  <2>1. /\ view' \in [page : Nat, total : Nat, asked : SUBSET Nat, loading : BOOLEAN]
        /\ view'.asked = {} /\ view'.loading = FALSE
        /\ view'.page = view.page /\ view'.total = view.total
    BY <1>1, <1>2, <1>4 DEF ListInv
  <2>2. NoneAsked(view)'
    BY <2>1, Zenon DEF NoneAsked
  <2>3. view'.total > 0 => view'.page \in 1..view'.total
    BY <1>1, <2>1 DEF ListInv
  <2> QED
    BY <2>1, <2>2, <2>3, Zenon DEF ListInv
<1> QED
  BY <1>3, <1>4 DEF ListAnswer, Stay

LEMMA ListStep == ListInv /\ ViewStep => ListInv'
<1> SUFFICES ASSUME ListInv, ViewStep, page' = "leaderboard" PROVE ListInv'
  BY DEF ListInv
<1>1. CASE UNCHANGED <<page, view>>
  BY <1>1 DEF ListInv, OneAsked, NoneAsked
<1>2. ASSUME NEW p \in Pages, NEW u \in Users, page' = p, view' = Fresh(p, u) PROVE ListInv'
  <2>1. view' = Leaderboard
    BY <1>2 DEF Fresh
  <2>2. OneAsked(view)'
    <3>1. view'.loading = TRUE /\ view'.asked = {1} /\ 1 \in Nat
      BY <2>1 DEF Leaderboard
    <3> QED
      BY <3>1, Zenon DEF OneAsked
  <2>3. /\ view' \in [page : Nat, total : Nat, asked : SUBSET Nat, loading : BOOLEAN]
        /\ ~(view'.total > 0)
    BY <2>1 DEF Leaderboard
  <2> QED
    BY <2>2, <2>3, Zenon DEF ListInv
<1>3. CASE page' = page /\ PrevPage
  <2>1. view.page - 1 \in Nat /\ page = "leaderboard" /\ ~view.loading /\ FetchPage(view.page - 1)
    BY <1>3 DEF PrevPage, Shown, ListInv
  <2> QED
    BY <1>3, <2>1, FetchKeepsList
<1>4. CASE page' = page /\ NextPage
  <2>1. view.page + 1 \in Nat /\ page = "leaderboard" /\ ~view.loading /\ FetchPage(view.page + 1)
    BY <1>4 DEF NextPage, Shown, ListInv
  <2> QED
    BY <1>4, <2>1, FetchKeepsList
<1>5. ASSUME NEW p \in 1..MaxPages, ListAnswer(p), page' = page PROVE ListInv'
  BY <1>5, AnswerKeepsList
<1> QED
  BY <1>1, <1>2, <1>3, <1>4, <1>5 DEF ViewStep

\* No answer of the leaderboard overtakes another, and the page shown is one of those counted.
THEOREM ListsStayInStep == Spec => []ListInStep
<1>1. Init => ListInv
  BY DEF Init, ListInv
<1>2. ListInv => ListInStep
  <2> SUFFICES ASSUME ListInv, page = "leaderboard"
               PROVE  /\ Cardinality(view.asked) <= 1
                      /\ (view.loading <=> view.asked # {})
                      /\ view.total > 0 => view.page \in 1..view.total
    BY DEF ListInStep
  <2>1. CASE OneAsked(view)
    <3>1. PICK p \in Nat : view.asked = {p}
      BY <2>1 DEF OneAsked
    <3>2. Cardinality(view.asked) = 1 /\ view.asked # {}
      BY <3>1, FS_Singleton
    <3> QED
      BY <2>1, <3>2 DEF OneAsked, ListInv
  <2>2. CASE NoneAsked(view)
    <3>1. Cardinality(view.asked) = 0
      BY <2>2, FS_EmptySet DEF NoneAsked
    <3> QED
      BY <2>2, <3>1 DEF NoneAsked, ListInv
  <2> QED
    BY <2>1, <2>2 DEF ListInv
<1>3. LoginsInv /\ TabInv /\ ListInv /\ [Next]_vars => ListInv'
  BY ViewCases, ListStep
<1> QED
  BY <1>1, <1>2, <1>3, TabInit, TabStep, PTL DEF Spec
=============================================================================
