------------------------------- MODULE Browser -------------------------------
(***************************************************************************)
(* One tab of the browser around the game: who is signed in (useAuth), the *)
(* pages and the navigation between them, the requests they make (api.ts), *)
(* the mission chosen on the play page, and the connection of WsClient,    *)
(* which lives as long as the play page does.                              *)
(* The router, React and localStorage are external: a navigation lands     *)
(* some time after it was asked for, and a late answer finds its page      *)
(* gone.  Of other tabs only that they may end the session.                *)
(***************************************************************************)
EXTENDS WsClient, FiniteSets

CONSTANTS
  Accounts,   \* who may sign in from this browser
  NoOne,
  MaxPages,   \* bound: pages of the leaderboard
  MaxLogins   \* bound: sign-in requests under way

ASSUME BrowserAssumption ==
  /\ NoOne \notin Accounts
  /\ MaxPages \in Nat \ {0} /\ MaxLogins \in Nat

VARIABLES
  user,       \* AuthContext: who the page takes the player for
  checking,   \* AuthContext's loading: the saved session has not been read yet
  owner,      \* whose token localStorage holds
  saved,      \* the user localStorage holds
  page,
  going,      \* the page a navigation under way leads to
  view,       \* the state of the page in view
  logins      \* sign-in requests under way: whose, and whether their form is still shown

tab  == <<user, checking, owner, saved, page, going, view, logins>>
vars == <<wsVars, tab>>

Pages   == {"home", "login", "play", "dashboard", "leaderboard"}
Users   == Accounts \cup {NoOne}

-----------------------------------------------------------------------------
(* The pages. *)

Languages       == {"en", "zh"}
Levels(lang)    == IF lang = "en" THEN {"A1", "A2"} ELSE {"HSK1", "HSK2"}
\* Of each language one quiz type they share and its own.
QuizTypes(lang) == {"meaning_to_word", IF lang = "en" THEN "word_to_ipa" ELSE "word_to_pinyin"}

\* What a page shows when it is mounted; the leaderboard asks for its first page at once.
LoginForm   == [busy |-> FALSE, error |-> FALSE]
Dashboard   == [of |-> NoOne, asked |-> {}, loading |-> TRUE]
Leaderboard == [page |-> 1, total |-> 0, asked |-> {1}, loading |-> TRUE]
PlayPage    == [lang |-> "en", level |-> "A1", quiz |-> "meaning_to_word", playing |-> FALSE]

\* The dashboard asks for its numbers whenever it is shown to another user.
AskedFor(u, whose, v) == IF u = NoOne THEN v ELSE [v EXCEPT !.asked = @ \cup {whose}]

Fresh(p, u) ==
  CASE p = "login"       -> LoginForm
    [] p = "dashboard"   -> AskedFor(u, owner, Dashboard)
    [] p = "leaderboard" -> Leaderboard
    [] p = "play"        -> PlayPage
    [] p = "home"        -> <<>>

\* Seeded fault: the login page keeps who is signed in already.
SentToLogin(p, u, g) == IF p \in {"play", "dashboard"} /\ u = NoOne THEN "login" ELSE g

\* Where the effects of page p, or its render, send user u at once; else g.
SentTo(p, u, g) ==
  CASE p = "login" /\ u # NoOne                 -> "play"
    [] p \in {"play", "dashboard"} /\ u = NoOne -> "login"
    [] OTHER                                    -> g

\* Seeded fault: nothing disconnects when the play page goes.
HangUpLater ==
  UNCHANGED <<sockets, connected, traffic, reconnectAttempts, timers, intentionalClose, refused>>

\* The play page goes, with its connection.  disconnect() can clear one timer only: one that it
\* cannot clear is not followed past its page.
HangUp ==
  /\ wsRef' = "null" /\ closing' = 0 /\ stray' = 0
  /\ connected' = FALSE
  /\ msgQueue' = <<>> /\ asked' = <<>> /\ wired' = <<>>
  /\ reconnectAttempts' = 0 /\ latest' = FALSE /\ orphans' = 0
  /\ intentionalClose' = FALSE /\ refused' = FALSE

KeepLine ==
  UNCHANGED <<sockets, connected, traffic, reconnectAttempts, timers, intentionalClose, refused>>

Mount(p, u) ==
  /\ HangUp
  /\ page' = p
  /\ going' = SentTo(p, u, "none")
  /\ view' = Fresh(p, u)
  /\ logins' = {[r EXCEPT !.here = FALSE] : r \in logins}

\* The play page calls more hooks for a user than for nobody: React gives the tab up.
HooksDiffer(u) == page = "play" /\ (user = NoOne) # (u = NoOne)

Crash ==
  /\ HangUp
  /\ page' = "error" /\ going' = "none" /\ view' = <<>>
  /\ user' = NoOne

\* The user becomes u, whose token is that of account whose, while a navigation to g begins.
ShowTo(u, whose, g) ==
  IF page = "error" THEN KeepLine /\ UNCHANGED <<user, page, going, view>>
  ELSE IF HooksDiffer(u) THEN Crash
  ELSE /\ KeepLine
       /\ user' = u
       /\ going' = IF u # user THEN SentTo(page, u, g) ELSE g
       /\ view' = IF u # user /\ page = "dashboard" THEN AskedFor(u, whose, view) ELSE view
       /\ UNCHANGED page

-----------------------------------------------------------------------------
(* Loading and navigation. *)

\* An address is typed or the page is reloaded: only localStorage survives.
Load(p) ==
  /\ HangUp
  /\ user' = NoOne /\ checking' = TRUE
  /\ page' = p /\ going' = SentTo(p, NoOne, "none") /\ view' = Fresh(p, NoOne)
  /\ logins' = {}
  /\ UNCHANGED <<token, owner, saved>>

ForgetSession == token' = "none" /\ owner' = NoOne /\ saved' = NoOne

\* The effects of the two providers, between the first render and the player's first event.
Effects ==
  /\ checking /\ page # "error"
  /\ checking' = FALSE
  /\ IF saved # NoOne /\ token \in {"expired", "garbled"}
     THEN ForgetSession
     ELSE UNCHANGED <<token, owner, saved>>
  /\ ShowTo(IF token = "valid" THEN saved ELSE NoOne, owner, going)
  /\ UNCHANGED <<logins>>

\* The links of the header: the pages that need an account are offered by who is signed in.
Offered(p) ==
  CASE p = "dashboard" -> user # NoOne
    [] p = "login"     -> user = NoOne
    [] OTHER           -> TRUE

Click(p) ==
  /\ page # "error" /\ ~checking /\ p # page /\ Offered(p)
  /\ going' = p
  /\ UNCHANGED <<wsVars, user, checking, owner, saved, page, view, logins>>

Land ==
  /\ going # "none"
  /\ IF going = page
     THEN /\ going' = "none"
          /\ KeepLine /\ UNCHANGED <<page, view, logins>>
     ELSE Mount(going, user)
  /\ UNCHANGED <<user, checking, token, owner, saved>>

-----------------------------------------------------------------------------
(* Signing in and out. *)

\* handleSubmit: the form is busy until the answer.
Submit(a) ==
  /\ page = "login" /\ ~checking /\ ~view.busy
  /\ Cardinality(logins) < MaxLogins
  /\ view' = [busy |-> TRUE, error |-> FALSE]
  /\ logins' = logins \cup {[of |-> a, here |-> TRUE]}
  /\ UNCHANGED <<wsVars, user, checking, owner, saved, page, going>>

\* Seeded fault: the new user is not saved with the new token.
SignedInHere(r) ==
  /\ token' = "valid" /\ owner' = r.of /\ UNCHANGED saved
  /\ ShowTo(r.of, r.of, "play")

\* handleAuth, and then router.push, whatever page is in view by now.
SignedIn(r) ==
  /\ token' = "valid" /\ owner' = r.of /\ saved' = r.of
  /\ ShowTo(r.of, r.of, "play")

SignInFails(r) ==
  /\ view' = IF r.here THEN [busy |-> FALSE, error |-> TRUE] ELSE view
  /\ KeepLine
  /\ UNCHANGED <<token, owner, saved, user, page, going>>

LoginAnswer(r) ==
  /\ r \in logins
  /\ logins' = logins \ {r}
  /\ SignedIn(r) \/ SignInFails(r)
  /\ UNCHANGED checking

Logout ==
  /\ page # "error" /\ user # NoOne
  /\ ForgetSession
  /\ ShowTo(NoOne, NoOne, going)
  /\ UNCHANGED <<checking, logins>>

-----------------------------------------------------------------------------
(* Dashboard and leaderboard. *)

Stay(v) ==
  /\ view' = v
  /\ UNCHANGED <<wsVars, user, checking, owner, saved, page, going, logins>>

\* An answer is whose the token was that asked; a failure leaves what was shown.
StatsAnswer(a) ==
  /\ page = "dashboard" /\ a \in view.asked
  /\ \E whose \in {a, view.of} :
       Stay([of |-> whose, asked |-> view.asked \ {a}, loading |-> FALSE])

FetchPage(p) == Stay([view EXCEPT !.asked = @ \cup {p}, !.loading = TRUE])

\* Seeded fault: the buttons are shown at all times.
AlwaysShown == page = "leaderboard"

\* The buttons are shown when nothing is loading.
Shown == page = "leaderboard" /\ ~view.loading

PrevPage == Shown /\ view.page > 1          /\ FetchPage(view.page - 1)
NextPage == Shown /\ view.page < view.total /\ FetchPage(view.page + 1)

\* Seeded fault: a request that fails leaves the page loading.
ListAnswerOrNone(p) ==
  /\ page = "leaderboard" /\ p \in view.asked
  /\ \/ \E n \in 1..MaxPages :
          /\ n >= view.total /\ n >= p
          /\ Stay([page |-> p, total |-> n, asked |-> view.asked \ {p}, loading |-> FALSE])
     \/ Stay([view EXCEPT !.asked = @ \ {p}])

\* Players are only ever added to the leaderboard.
ListAnswer(p) ==
  /\ page = "leaderboard" /\ p \in view.asked
  /\ \/ \E n \in 1..MaxPages :
          /\ n >= view.total /\ n >= p
          /\ Stay([page |-> p, total |-> n, asked |-> view.asked \ {p}, loading |-> FALSE])
     \/ Stay([view EXCEPT !.asked = @ \ {p}, !.loading = FALSE])

-----------------------------------------------------------------------------
(* The play page. *)

Idle == page = "play" /\ user # NoOne /\ ~view.playing

\* Seeded fault: the level of the other language stays selected.
ChooseLangOnly(lang) ==
  /\ Idle
  /\ Stay([view EXCEPT !.lang = lang, !.quiz = "meaning_to_word"])

\* handleLangChange: the level and the quiz type start anew.
ChooseLang(lang) ==
  /\ Idle
  /\ Stay([view EXCEPT !.lang = lang, !.level = IF lang = "en" THEN "A1" ELSE "HSK1",
                       !.quiz = "meaning_to_word"])

ChooseLevel(level) == Idle /\ level \in Levels(view.lang)    /\ Stay([view EXCEPT !.level = level])
ChooseQuiz(quiz)   == Idle /\ quiz  \in QuizTypes(view.lang) /\ Stay([view EXCEPT !.quiz = quiz])

OnLine == UNCHANGED <<user, checking, owner, saved, page, going, logins>>

\* What the game hook does with the connection; GameClient says when and why.
Play ==
  /\ Idle
  /\ Connect
  /\ view' = [view EXCEPT !.playing = TRUE]
  /\ OnLine

Say(m) ==
  /\ page = "play" /\ user # NoOne /\ view.playing
  /\ Send(m)
  /\ UNCHANGED view /\ OnLine

Quit ==
  /\ page = "play" /\ user # NoOne /\ view.playing
  /\ Disconnect
  /\ view' = [view EXCEPT !.playing = FALSE]
  /\ OnLine

-----------------------------------------------------------------------------
(* The connection's own steps. *)

Connects   == (Opened \/ ConnectTimeout) /\ UNCHANGED tab
PeerEnds   == PeerCloses /\ UNCHANGED tab
Reconnects == TimerFires /\ UNCHANGED tab

\* onclose, and with a token the server must refuse onAuthFailed: AuthContext is not told.
Ends(code) ==
  /\ IF Rejected(code)
     THEN owner' = NoOne /\ saved' = NoOne /\ going' = "login"
     ELSE UNCHANGED <<owner, saved, going>>
  /\ UNCHANGED <<user, checking, page, view, logins>>

LineEnds(code)      == Closed(code)      /\ Ends(code)
StaleLineEnds(code) == StaleClosed(code) /\ Ends(code)

\* The token goes by another tab's logout, by time, or is damaged.
Expires ==
  /\ TokenLost
  /\ owner' = IF token' = "none" THEN NoOne ELSE owner
  /\ saved' = IF token' = "none" THEN NoOne ELSE saved
  /\ UNCHANGED <<user, checking, page, going, view, logins>>

-----------------------------------------------------------------------------
Init ==
  /\ wsRef = "null" /\ closing = 0 /\ stray = 0 /\ connected = FALSE
  /\ msgQueue = <<>> /\ asked = <<>> /\ wired = <<>>
  /\ reconnectAttempts = 0 /\ latest = FALSE /\ orphans = 0
  /\ intentionalClose = FALSE /\ refused = FALSE
  /\ token = "none" /\ owner = NoOne /\ saved = NoOne
  /\ user = NoOne /\ checking = TRUE
  /\ page = "home" /\ going = "none" /\ view = <<>> /\ logins = {}

PageAnswers ==
  \/ \E a \in Users : StatsAnswer(a)
  \/ \E p \in 1..MaxPages : ListAnswer(p)

Player ==
  \/ \E p \in Pages : Load(p) \/ Click(p)
  \/ \E a \in Accounts : Submit(a)
  \/ Logout
  \/ PrevPage \/ NextPage
  \/ \E lang \in Languages : ChooseLang(lang)
  \/ \E level \in UNION {Levels(lang) : lang \in Languages} : ChooseLevel(level)
  \/ \E quiz \in UNION {QuizTypes(lang) : lang \in Languages} : ChooseQuiz(quiz)
  \/ Play \/ Quit \/ \E m \in Messages : Say(m)

Next ==
  \/ Player \/ Effects \/ Land \/ PageAnswers \/ Connects \/ PeerEnds \/ Reconnects \/ Expires
  \/ \E r \in logins : LoginAnswer(r)
  \/ \E code \in Codes : LineEnds(code) \/ StaleLineEnds(code)

Spec == Init /\ [][Next]_vars

\* What the browser does by itself with the sockets and timers it has.
LineMoves ==
  \/ Connects \/ Reconnects
  \/ \E code \in Codes : (wsRef = "closing" /\ LineEnds(code)) \/ StaleLineEnds(code)

\* Effects run, navigations land, requests are answered or fail, timers fire, and a socket that
\* is being opened or closed gets there or gives up.  The player owes nothing.
FairSpec ==
  /\ Spec
  /\ WF_vars(Effects) /\ WF_vars(Land) /\ WF_vars(PageAnswers) /\ WF_vars(LineMoves)

-----------------------------------------------------------------------------
(* Properties. *)

\* Who the page says is signed in is whose token goes with its requests and its connection, and
\* who a reload would bring back, through reloads, logouts, refused tokens and sign-ins that
\* overlap.
SessionsAgree ==
  user # NoOne /\ owner # NoOne => owner = user /\ saved = user

\* The connection goes with the play page, however it goes: by a link, a late answer's navigation,
\* a refused token, a reload or a crash.
SocketOnlyOnPlay == page # "play" => wsRef = "null" /\ ~latest /\ ~connected

\* The leaderboard waits for one answer at a time, so that answers cannot overtake each other, and
\* the page it shows is one of those it counts.
ListInStep ==
  page = "leaderboard" =>
    /\ Cardinality(view.asked) <= 1
    /\ (view.loading <=> view.asked # {})
    /\ view.total > 0 => view.page \in 1..view.total

\* A mission is of one language: its level and quiz type are among those the page offers for it,
\* in whichever order they were chosen, and after a game, a reload or a return to the page.
MissionFits == page = "play" => view.level \in Levels(view.lang) /\ view.quiz \in QuizTypes(view.lang)

\* A player who is signed in, or becomes so, is taken off the login page.
SignedInLeavesLogin == (page = "login" /\ user # NoOne) ~> (page # "login" \/ user = NoOne)

\* A dashboard or a leaderboard that nobody leaves stops loading, whether its request succeeds,
\* fails, or is never made because nobody is signed in.
LoadingEnds ==
  \A p \in {"dashboard", "leaderboard"} :
    (page = p /\ view.loading /\ ~checking) ~> (page # p \/ checking \/ ~view.loading)
=============================================================================
