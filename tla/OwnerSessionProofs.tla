------------------------- MODULE OwnerSessionProofs -------------------------
(***************************************************************************)
(* Theorems about OwnerSession for any number of tabs, logins, notes,      *)
(* requests on their way and cookies that expire: the last login begun     *)
(* survives the others, and a note is written under a session of the       *)
(* owner's account only.                                                   *)
(***************************************************************************)
EXTENDS OwnerSession, TLAPS

-----------------------------------------------------------------------------
(* Types *)

Page == [page : {"closed", "app", "google", "callback"}, login : Logins \cup {None},
         status : Statuses, csrf : Logins \cup {None}]

Call == [tab : Tabs \cup {None}, kind : {"session", "logout", "save", "callback"},
         nr : Nat, text : Notes \cup {None}, login : Logins \cup {None},
         flow : Logins \cup {None}, session : Logins \cup {None}, csrf : Logins \cup {None}]

TypeInv ==
    /\ logins \in Nat /\ strangers \subseteq Logins
    /\ flow \in Logins \cup {None} /\ session \in Logins \cup {None}
    /\ tab \in [Tabs -> Page]
    /\ calls \subseteq Call
    /\ overtaken \in BOOLEAN

-----------------------------------------------------------------------------
(* What a login that is not complete has not given yet *)

\* The tab is away, on Google's page or waiting for the callback's answer.
Away(t) == tab[t].page \in {"google", "callback"}

\* A callback is the one request of a tab that waits for it.
CallbackOfTab(c) ==
    c.kind = "callback" =>
        /\ c.tab \in Tabs /\ tab[c.tab].page = "callback"
        /\ c.login = tab[c.tab].login
        /\ \A d \in calls : d.kind = "callback" /\ d.tab = c.tab => d = c

\* Every tab that is away has a login of its own, and no cookie, nor a copy of it
\* in a request, is of a login that is not complete or of another account's.
OwnLogin ==
    \A t \in Tabs : Away(t) =>
        /\ tab[t].login \in Logins
        /\ \A u \in Tabs : Away(u) /\ tab[u].login = tab[t].login => u = t

NotYet(s) == s # None =>
    /\ s \notin strangers
    /\ \A t \in Tabs : Away(t) => s # tab[t].login

AwayInv ==
    /\ OwnLogin
    /\ \A c \in calls : CallbackOfTab(c) /\ NotYet(c.session)
    /\ NotYet(session)

\* The flow cookie is the last login's until its callback is sent, and the
\* callback carries it, for whichever account.
FlowInv ==
    ~overtaken /\ <<"flow", logins>> \notin outdated =>
        /\ \A t \in Tabs : tab[t].page = "google" /\ tab[t].login = logins => flow = logins
        /\ \A c \in calls : c.kind = "callback" /\ c.login = logins => c.flow = logins

SessionInv == TypeInv /\ AwayInv /\ FlowInv

-----------------------------------------------------------------------------
(* Operators *)

LEMMA RequestType ==
  ASSUME TypeInv, NEW t \in Tabs, NEW kind \in {"session", "logout", "save", "callback"},
         NEW nr \in Nat, NEW text \in Notes \cup {None}
  PROVE  Request(t, kind, nr, text) \in Call
BY DEF TypeInv, Request, Call, Page

\* A request without a listener is the one it was, for everybody but its tab.
LEMMA OrphanedCalls ==
  ASSUME NEW C, C \subseteq Call, NEW t,
         NEW kinds \in SUBSET {"session", "logout", "save"}, NEW c \in Orphaned(C, t, kinds)
  PROVE  /\ c \in Call
         /\ c.kind = "callback" => c \in C
         /\ \E d \in C : c.session = d.session /\ c.kind = d.kind
<1>1. CASE c \in C
  BY <1>1
<1>2. CASE c \notin C
  <2>1. PICK d \in C : d.kind \in kinds /\ c = [d EXCEPT !.tab = None]
    BY <1>2 DEF Orphaned
  <2>2. d \in Call
    OBVIOUS
  <2>3. c \in Call /\ c.kind = d.kind /\ c.session = d.session
    BY <2>1, <2>2 DEF Call
  <2>4. QED
    BY <2>1, <2>3
<1>3. QED
  BY <1>1, <1>2

LEMMA ShowType ==
  ASSUME TypeInv, NEW t, NEW status \in Statuses, NEW csrf \in Logins \cup {None},
         NEW C, C \subseteq calls, Show(t, Shows(tab[t], status, csrf), C)
  PROVE  /\ tab' \in [Tabs -> Page] /\ calls' \subseteq Call
         /\ \A u \in Tabs : tab'[u].page = tab[u].page /\ tab'[u].login = tab[u].login
         /\ \A c \in calls' : /\ c.kind = "callback" => c \in calls
                              /\ \E d \in calls : c.session = d.session
<1> DEFINE page == Shows(tab[t], status, csrf)
<1>1. tab' = [tab EXCEPT ![t] = page]
  BY DEF Show
<1>2. t \in Tabs => page \in Page /\ page.page = tab[t].page /\ page.login = tab[t].login
  BY DEF Shows, TypeInv, Page
<1>3. C \subseteq Call /\ {"save"} \in SUBSET {"session", "logout", "save"}
  BY DEF TypeInv
<1>4. calls' = C \/ calls' = Orphaned(C, t, {"save"})
  BY DEF Show
<1>5. CASE calls' = C
  BY <1>1, <1>2, <1>3, <1>5 DEF TypeInv
<1>6. CASE calls' = Orphaned(C, t, {"save"})
  <2>1. \A c \in calls' : /\ c \in Call
                          /\ c.kind = "callback" => c \in C
                          /\ \E d \in C : c.session = d.session
    BY <1>3, <1>6, OrphanedCalls
  <2>2. QED
    BY <1>1, <1>2, <2>1 DEF TypeInv
<1>7. QED
  BY <1>4, <1>5, <1>6

-----------------------------------------------------------------------------
(* Types are kept *)

LEMMA RepliesType == \A c : Replies(c) \subseteq {"ok", "refused", "lost"}
BY DEF Replies

\* The answer to a session request is shown with a status of a page.
LEMMA LoadAuthStateShows ==
  ASSUME NEW page, NEW c \in Call, NEW reply \in Replies(c)
  PROVE  \E status \in Statuses, csrf \in Logins \cup {None} :
            LoadAuthState(page, c, reply) = Shows(page, status, csrf)
<1>1. c.session \in Logins \cup {None}
  BY DEF Call
<1>2. CASE reply = "ok"
  BY <1>1, <1>2 DEF LoadAuthState, Statuses
<1>3. CASE reply = "refused"
  BY <1>3 DEF LoadAuthState, Statuses
<1>4. CASE reply = "lost"
  BY <1>4 DEF LoadAuthState, Statuses
<1>5. QED
  BY <1>2, <1>3, <1>4, RepliesType

\* What a step does to the tabs that are away and to the requests, unless it
\* begins, sends or answers a login.
TabsStay ==
    \A t \in Tabs :
        /\ Away(t)' <=> Away(t)
        /\ Away(t) => tab'[t].page = tab[t].page /\ tab'[t].login = tab[t].login

CallsStay ==
    \A c \in calls' :
        /\ c.kind = "callback" => c \in calls
        /\ c.session = session \/ \E d \in calls : c.session = d.session

\* The steps of the application, and the time.
PlainStep ==
    \/ \E t \in Tabs : Open(t) \/ Refresh(t) \/ Logout(t) \/ \E text \in Notes : SaveNote(t, text)
    \/ \E c \in calls : SessionAnswer(c) \/ LogoutAnswer(c) \/ SaveAnswer(c)
    \/ Expire

LoginStep ==
    \/ \E t \in Tabs : Login(t) \/ \E isOwner \in BOOLEAN : Consent(t, isOwner)
    \/ \E c \in calls : CallbackAnswer(c)

LeavesLogins ==
    /\ TypeInv'
    /\ TabsStay /\ CallsStay
    /\ UNCHANGED <<logins, strangers, overtaken>>
    /\ session' \in {session, None}

LEMMA SendsStays ==
  ASSUME TypeInv, NEW t \in Tabs, NEW kind \in {"session", "logout", "save"},
         NEW nr \in Nat, NEW text \in Notes \cup {None}
  PROVE  /\ Request(t, kind, nr, text) \in Call
         /\ Request(t, kind, nr, text).kind # "callback"
         /\ Request(t, kind, nr, text).session = session
<1>1. Request(t, kind, nr, text) \in Call
  BY RequestType
<1>2. QED
  BY <1>1 DEF Request

\* Answers and requests of the application leave what a login is about alone.
LEMMA PlainFrame ==
  ASSUME TypeInv, PlainStep
  PROVE  LeavesLogins
<1>1. ASSUME NEW t \in Tabs, Open(t) PROVE LeavesLogins
  <2>1. Loading(t) \in Page /\ Loading(t).page = "app"
    BY DEF Loading, Closed, Page, Statuses
  <2>2. tab' = [tab EXCEPT ![t] = Loading(t)] /\ tab[t].page = "closed"
    BY <1>1 DEF Open
  <2>3. tab' \in [Tabs -> Page] /\ TabsStay
    BY <2>1, <2>2 DEF TypeInv, TabsStay, Away
  <2>4. CallsStay /\ calls' \subseteq Call
    BY <1>1, SendsStays DEF Open, CallsStay, TypeInv
  <2>5. QED
    BY <1>1, <2>3, <2>4 DEF Open, LeavesLogins, TypeInv, Logins, Page, Call
<1>2. ASSUME NEW t \in Tabs, Refresh(t) PROVE LeavesLogins
  <2>1. PICK nr \in 1..MaxRefreshes : calls' = calls \cup {Request(t, "session", nr, None)}
    BY <1>2 DEF Refresh
  <2>2. nr \in Nat
    BY BoundsAssumption
  <2>3. CallsStay /\ calls' \subseteq Call
    BY <2>1, <2>2, SendsStays DEF CallsStay, TypeInv
  <2>4. QED
    BY <1>2, <2>3 DEF Refresh, LeavesLogins, TabsStay, Away, TypeInv, Logins, Page, Call
<1>3. ASSUME NEW t \in Tabs, Logout(t) \/ \E text \in Notes : SaveNote(t, text)
      PROVE  LeavesLogins
  <2>1. PICK kind \in {"logout", "save"}, text \in Notes \cup {None} :
           calls' = calls \cup {Request(t, kind, 1, text)}
    BY <1>3 DEF Logout, SaveNote, Sends
  <2>2. CallsStay /\ calls' \subseteq Call
    BY <2>1, SendsStays DEF CallsStay, TypeInv
  <2>3. UNCHANGED <<flow, session, logins, strangers, tab, overtaken>>
    BY <1>3 DEF Logout, SaveNote
  <2>4. QED
    BY <2>2, <2>3 DEF LeavesLogins, TabsStay, Away, TypeInv, Logins, Page, Call
<1>4. ASSUME NEW c \in calls, SessionAnswer(c) PROVE LeavesLogins
  <2>1. PICK reply \in Replies(c) :
           Show(c.tab, LoadAuthState(tab[c.tab], c, reply), calls \ {c})
    BY <1>4 DEF SessionAnswer
  <2>2. c \in Call
    BY DEF TypeInv
  <2>3. PICK status \in Statuses, csrf \in Logins \cup {None} :
           Show(c.tab, Shows(tab[c.tab], status, csrf), calls \ {c})
    BY <2>1, <2>2, LoadAuthStateShows
  <2>4. /\ tab' \in [Tabs -> Page] /\ calls' \subseteq Call
        /\ \A u \in Tabs : tab'[u].page = tab[u].page /\ tab'[u].login = tab[u].login
        /\ \A d \in calls' : /\ d.kind = "callback" => d \in calls
                             /\ \E b \in calls : d.session = b.session
    <3>1. calls \ {c} \subseteq calls
      OBVIOUS
    <3>2. QED
      BY <2>3, <3>1, ShowType
  <2>5. TabsStay /\ CallsStay
    BY <2>4 DEF TabsStay, CallsStay, Away
  <2>6. QED
    BY <1>4, <2>4, <2>5 DEF SessionAnswer, LeavesLogins, TypeInv, Logins, Page, Call
<1>5. ASSUME NEW c \in calls, LogoutAnswer(c) PROVE LeavesLogins
  <2>1. /\ tab' \in [Tabs -> Page] /\ calls' \subseteq Call
        /\ \A u \in Tabs : tab'[u].page = tab[u].page /\ tab'[u].login = tab[u].login
        /\ \A d \in calls' : /\ d.kind = "callback" => d \in calls
                             /\ \E b \in calls : d.session = b.session
    <3>1. CASE c.tab = None /\ tab' = tab /\ calls' = calls \ {c}
      BY <3>1 DEF TypeInv
    <3>2. CASE \E status \in Statuses : Show(c.tab, Shows(tab[c.tab], status, None), calls \ {c})
      <4>1. calls \ {c} \subseteq calls
        OBVIOUS
      <4>2. QED
        BY <3>2, <4>1, ShowType
    <3>3. QED
      BY <1>5, <3>1, <3>2 DEF LogoutAnswer, Statuses
  <2>2. TabsStay /\ CallsStay
    BY <2>1 DEF TabsStay, CallsStay, Away
  <2>3. session' \in {session, None} /\ UNCHANGED <<flow, logins, strangers, overtaken>>
    BY <1>5 DEF LogoutAnswer
  <2>4. QED
    BY <2>1, <2>2, <2>3 DEF LeavesLogins, TypeInv, Logins, Page, Call
<1>6. ASSUME NEW c \in calls, SaveAnswer(c) PROVE LeavesLogins
  BY <1>6 DEF SaveAnswer, LeavesLogins, TabsStay, CallsStay, Away, TypeInv, Logins, Page, Call
<1>7. CASE Expire
  BY <1>7 DEF Expire, LeavesLogins, TabsStay, CallsStay, Away, TypeInv, Logins, Page, Call
<1>8. QED
  BY <1>1, <1>2, <1>3, <1>4, <1>5, <1>6, <1>7 DEF PlainStep

LEMMA LoginTypes ==
  ASSUME TypeInv, AwayInv, LoginStep
  PROVE  TypeInv'
<1>1. ASSUME NEW t \in Tabs, Login(t) PROVE TypeInv'
  <2>1. logins' = logins + 1 /\ flow' = logins' /\ session' = session /\ strangers' = strangers
    BY <1>1 DEF Login
  <2>2. logins' \in Nat /\ Logins \subseteq Logins' /\ logins' \in Logins'
    BY <2>1 DEF TypeInv, Logins
  <2>3. Page \subseteq Page' /\ Call \subseteq Call'
    BY <2>2 DEF Page, Call, Statuses
  <2>4. [Closed EXCEPT !.page = "google", !.login = logins'] \in Page'
    BY <2>2 DEF Closed, Page, Statuses
  <2>5. tab' \in [Tabs -> Page']
    BY <1>1, <2>3, <2>4 DEF Login, TypeInv
  <2>6. calls' \subseteq Call
    BY <1>1, OrphanedCalls DEF Login, TypeInv
  <2>7. QED
    BY <1>1, <2>1, <2>2, <2>3, <2>5, <2>6 DEF Login, TypeInv
<1>2. ASSUME NEW t \in Tabs, NEW isOwner \in BOOLEAN, Consent(t, isOwner) PROVE TypeInv'
  <2>1. calls' \subseteq Call
    BY <1>2, RequestType DEF Consent, Sends, TypeInv
  <2>2. tab[t] \in Page
    BY DEF TypeInv
  <2>3. [tab[t] EXCEPT !.page = "callback"] \in Page
    BY <2>2 DEF Page
  <2>4. tab' \in [Tabs -> Page]
    BY <1>2, <2>3 DEF Consent, TypeInv
  <2>5. tab[t].login \in Logins
    BY <1>2 DEF Consent, AwayInv, OwnLogin, Away
  <2>6. strangers' \subseteq Logins
    BY <1>2, <2>5 DEF Consent, TypeInv
  <2>7. QED
    BY <1>2, <2>1, <2>4, <2>6 DEF Consent, TypeInv, Logins, Page, Call
<1>3. ASSUME NEW c \in calls, CallbackAnswer(c) PROVE TypeInv'
  <2>1. Closed \in Page
    BY DEF Closed, Page, Statuses
  <2>2. tab' \in [Tabs -> Page] /\ c \in Call
    BY <1>3, <2>1 DEF CallbackAnswer, TypeInv
  <2>3. overtaken' \in BOOLEAN
    BY <1>3 DEF CallbackAnswer, TypeInv
  <2>4. session' \in Logins \cup {None} /\ flow' \in Logins \cup {None}
    BY <1>3, <2>2 DEF CallbackAnswer, TypeInv, Call
  <2>5. QED
    BY <1>3, <2>2, <2>3, <2>4 DEF CallbackAnswer, TypeInv, Logins, Page, Call
<1>4. QED
  BY <1>1, <1>2, <1>3 DEF LoginStep

-----------------------------------------------------------------------------
(* A session is of a login that is complete *)

LEMMA AwayKept ==
  ASSUME TypeInv, AwayInv, LeavesLogins
  PROVE  AwayInv'
<1> USE DEF LeavesLogins
<1>1. OwnLogin'
  BY DEF AwayInv, OwnLogin, TabsStay, Away, Logins
<1>2. ASSUME NEW s, NotYet(s) PROVE NotYet(s)'
  BY <1>2 DEF NotYet, TabsStay
<1>3. NotYet(session)'
  BY <1>2 DEF AwayInv, NotYet
<1>4. ASSUME NEW c \in calls' PROVE CallbackOfTab(c)' /\ NotYet(c.session)'
  <2>1. NotYet(c.session)
    BY <1>4 DEF CallsStay, AwayInv
  <2>2. CASE c.kind = "callback"
    <3>1. c \in calls /\ CallbackOfTab(c)
      BY <1>4, <2>2 DEF CallsStay, AwayInv
    <3>2. c.tab \in Tabs /\ tab'[c.tab].page = "callback" /\ c.login = tab'[c.tab].login
      BY <2>2, <3>1 DEF CallbackOfTab, TabsStay, Away
    <3>3. QED
      BY <1>2, <2>1, <3>1, <3>2 DEF CallbackOfTab, CallsStay
  <2>3. QED
    BY <1>2, <2>1, <2>2 DEF CallbackOfTab
<1>5. QED
  BY <1>1, <1>3, <1>4 DEF AwayInv

LEMMA AwayLogin ==
  ASSUME TypeInv, AwayInv, NEW t \in Tabs, Login(t)
  PROVE  AwayInv'
<1>1. /\ logins' = logins + 1 /\ session' = session /\ strangers' = strangers
      /\ tab[t].page = "app"
      /\ tab'[t].page = "google" /\ tab'[t].login = logins'
      /\ \A u \in Tabs \ {t} : tab'[u] = tab[u]
  BY DEF Login, TypeInv, Closed
<1>2. logins' \notin Logins /\ Logins \subseteq Logins' /\ logins' \in Logins'
  BY <1>1 DEF TypeInv, Logins
<1>3. OwnLogin'
  <2>1. \A u \in Tabs : Away(u)' /\ u # t =>
          Away(u) /\ tab'[u] = tab[u] /\ tab[u].login \in Logins
    BY <1>1 DEF AwayInv, OwnLogin, Away
  <2>2. \A u \in Tabs : Away(u)' => tab'[u].login \in Logins'
    BY <1>1, <1>2, <2>1
  <2>3. ASSUME NEW u \in Tabs, NEW v \in Tabs, Away(u)', Away(v)',
               tab'[u].login = tab'[v].login
        PROVE  u = v
    <3>1. CASE u = t \/ v = t
      BY <1>1, <1>2, <2>1, <2>3, <3>1
    <3>2. CASE u # t /\ v # t
      BY <2>1, <2>3, <3>2 DEF AwayInv, OwnLogin
    <3>3. QED
      BY <3>1, <3>2
  <2>4. QED
    BY <2>2, <2>3 DEF OwnLogin
<1>4. ASSUME NEW s \in Logins \cup {None}, NotYet(s) PROVE NotYet(s)'
  BY <1>1, <1>2, <1>4 DEF NotYet, Away
<1>5. NotYet(session)'
  BY <1>1, <1>4 DEF AwayInv, TypeInv
<1>6. ASSUME NEW c \in calls' PROVE CallbackOfTab(c)' /\ NotYet(c.session)'
  <2>1. /\ c \in Call
        /\ c.kind = "callback" => c \in calls
        /\ \E d \in calls : c.session = d.session
    BY OrphanedCalls DEF Login, TypeInv
  <2>2. NotYet(c.session)
    BY <2>1 DEF AwayInv
  <2>3. NotYet(c.session)'
    BY <1>4, <2>1, <2>2 DEF Call
  <2>4. CASE c.kind = "callback"
    <3>1. CallbackOfTab(c)
      BY <2>1, <2>4 DEF AwayInv
    <3>2. c.tab # t
      BY <1>1, <2>4, <3>1 DEF CallbackOfTab
    <3>3. \A d \in calls' : d.kind = "callback" => d \in calls
      BY OrphanedCalls DEF Login, TypeInv
    <3>4. QED
      BY <1>1, <2>3, <2>4, <3>1, <3>2, <3>3 DEF CallbackOfTab
  <2>5. QED
    BY <2>3, <2>4 DEF CallbackOfTab
<1>7. QED
  BY <1>3, <1>5, <1>6 DEF AwayInv

LEMMA AwayConsent ==
  ASSUME TypeInv, AwayInv, NEW t \in Tabs, NEW isOwner \in BOOLEAN, Consent(t, isOwner)
  PROVE  AwayInv'
<1> DEFINE new == Request(t, "callback", 1, None)
<1>1. /\ logins' = logins /\ session' = session
      /\ strangers' \subseteq strangers \cup {tab[t].login}
      /\ tab[t].page = "google" /\ Away(t)
      /\ tab'[t].page = "callback" /\ tab'[t].login = tab[t].login
      /\ \A u \in Tabs \ {t} : tab'[u] = tab[u]
      /\ calls' = calls \cup {new}
  BY DEF Consent, Sends, TypeInv, Page, Away
<1>2. \A u \in Tabs : (Away(u)' <=> Away(u)) /\ tab'[u].login = tab[u].login
  BY <1>1 DEF Away
<1>3. OwnLogin'
  BY <1>1, <1>2 DEF AwayInv, OwnLogin, Logins
<1>4. ASSUME NEW s, NotYet(s) PROVE NotYet(s)'
  BY <1>1, <1>2, <1>4 DEF NotYet
<1>5. /\ new.tab = t /\ new.kind = "callback" /\ new.session = None
      /\ new.login = tab[t].login
  BY DEF Request
<1>6. \A c \in calls : c.kind = "callback" => c.tab # t
  BY <1>1 DEF AwayInv, CallbackOfTab
<1>7. ASSUME NEW c \in calls' PROVE CallbackOfTab(c)' /\ NotYet(c.session)'
  <2>1. CASE c = new
    BY <1>1, <1>5, <1>6, <2>1 DEF CallbackOfTab, NotYet
  <2>2. CASE c \in calls
    <3>1. CallbackOfTab(c) /\ NotYet(c.session)'
      BY <1>4, <2>2 DEF AwayInv
    <3>2. QED
      BY <1>1, <1>2, <1>5, <1>6, <2>2, <3>1 DEF CallbackOfTab
  <2>3. QED
    BY <1>1, <1>7, <2>1, <2>2
<1>8. QED
  BY <1>1, <1>3, <1>4, <1>7 DEF AwayInv

\* The login that a callback completes was the only one with its number.
LEMMA AwayCallback ==
  ASSUME TypeInv, AwayInv, NEW c \in calls, CallbackAnswer(c)
  PROVE  AwayInv'
<1>1. /\ c.kind = "callback" /\ calls' = calls \ {c}
      /\ logins' = logins /\ strangers' = strangers
      /\ CallbackOfTab(c)
      /\ session' # session => session' = c.login /\ c.login \notin strangers
  <2>1. "ok" \in Replies(c) => Accepted(c)
    BY DEF Replies
  <2>2. c.kind = "callback" => (Accepted(c) => c.login \notin strangers)
    BY DEF Accepted, CompleteLogin
  <2>3. QED
    BY <2>1, <2>2 DEF CallbackAnswer, AwayInv
<1>2. /\ c.tab \in Tabs /\ Away(c.tab) /\ tab[c.tab].login = c.login
      /\ tab'[c.tab].page = "closed"
      /\ \A u \in Tabs \ {c.tab} : tab'[u] = tab[u]
  BY <1>1 DEF CallbackOfTab, CallbackAnswer, TypeInv, Closed, Away
<1>3. \A u \in Tabs : Away(u)' => u # c.tab /\ Away(u) /\ tab'[u] = tab[u]
  BY <1>2 DEF Away
<1>4. OwnLogin'
  BY <1>1, <1>3 DEF AwayInv, OwnLogin, Logins
<1>5. ASSUME NEW s, NotYet(s) PROVE NotYet(s)'
  BY <1>1, <1>3, <1>5 DEF NotYet
<1>6. NotYet(session)'
  <2>1. CASE session' = session
    BY <1>5, <2>1 DEF AwayInv
  <2>2. CASE session' = c.login /\ c.login \notin strangers
    BY <1>1, <1>2, <1>3, <2>2 DEF NotYet, AwayInv, OwnLogin
  <2>3. QED
    BY <1>1, <2>1, <2>2
<1>7. ASSUME NEW d \in calls' PROVE CallbackOfTab(d)' /\ NotYet(d.session)'
  <2>1. d \in calls /\ d # c /\ CallbackOfTab(d) /\ NotYet(d.session)'
    BY <1>1, <1>5 DEF AwayInv
  <2>2. d.kind = "callback" => d.tab # c.tab
    BY <1>1, <2>1 DEF CallbackOfTab
  <2>3. QED
    BY <1>1, <1>2, <2>1, <2>2 DEF CallbackOfTab
<1>8. QED
  BY <1>4, <1>6, <1>7 DEF AwayInv

-----------------------------------------------------------------------------
(* The flow cookie is the last login's *)

LEMMA FlowKept ==
  ASSUME TypeInv, AwayInv, FlowInv, PlainStep, LeavesLogins
  PROVE  FlowInv'
<1>1. /\ logins' = logins /\ overtaken' = overtaken /\ outdated \subseteq outdated'
      /\ \A t \in Tabs : tab'[t].page = "google" => tab[t].page = "google" /\ tab'[t].login = tab[t].login
      /\ \A c \in calls' : c.kind = "callback" => c \in calls
  <2>1. outdated \subseteq outdated'
    BY DEF PlainStep, Open, Refresh, Logout, SaveNote, SessionAnswer, LogoutAnswer,
           SaveAnswer, Expire
  <2>2. QED
    BY <2>1 DEF LeavesLogins, TabsStay, Away, CallsStay
<1>2. flow' = flow \/ <<"flow", flow>> \in outdated'
  BY DEF PlainStep, Open, Refresh, Logout, SaveNote, SessionAnswer, LogoutAnswer,
         SaveAnswer, Expire
<1>3. QED
  BY <1>1, <1>2 DEF FlowInv

LEMMA FlowLogin ==
  ASSUME TypeInv, AwayInv, FlowInv, LoginStep
  PROVE  FlowInv'
<1>1. ASSUME NEW t \in Tabs, Login(t) PROVE FlowInv'
  <2>1. logins' \notin Logins /\ flow' = logins'
    BY <1>1 DEF Login, TypeInv, Logins
  <2>2. \A c \in calls' : c.kind = "callback" => c.login # logins'
    <3>1. \A c \in calls' : c.kind = "callback" => c \in calls
      BY <1>1, OrphanedCalls DEF Login, TypeInv
    <3>2. \A c \in calls : c.kind = "callback" => c.login \in Logins
      BY DEF AwayInv, CallbackOfTab, OwnLogin, Away
    <3>3. QED
      BY <2>1, <3>1, <3>2
  <2>3. QED
    BY <2>1, <2>2 DEF FlowInv
<1>2. ASSUME NEW t \in Tabs, NEW isOwner \in BOOLEAN, Consent(t, isOwner) PROVE FlowInv'
  <2> DEFINE new == Request(t, "callback", 1, None)
  <2>1. /\ UNCHANGED <<flow, logins, outdated, overtaken>>
        /\ tab[t].page = "google"
        /\ \A u \in Tabs : tab'[u].login = tab[u].login
        /\ \A u \in Tabs : tab'[u].page = "google" => tab[u].page = "google"
        /\ calls' = calls \cup {new}
    BY <1>2 DEF Consent, Sends, TypeInv, Page
  <2>2. new.login = tab[t].login /\ new.flow = flow
    BY DEF Request
  <2>3. QED
    BY <2>1, <2>2 DEF FlowInv
<1>3. ASSUME NEW c \in calls, CallbackAnswer(c) PROVE FlowInv'
  <2>1. /\ UNCHANGED <<logins, outdated>> /\ calls' = calls \ {c} /\ c.kind = "callback"
        /\ CallbackOfTab(c)
        /\ \/ UNCHANGED <<flow, overtaken>>
           \/ overtaken' = (overtaken \/ c.login # logins)
    BY <1>3 DEF CallbackAnswer, AwayInv
  <2>2. \A u \in Tabs : tab'[u].page = "google" => u # c.tab /\ tab'[u] = tab[u]
    BY <1>3, <2>1 DEF CallbackAnswer, CallbackOfTab, TypeInv, Closed
  <2>3. CASE UNCHANGED <<flow, overtaken>>
    BY <2>1, <2>2, <2>3 DEF FlowInv
  <2>4. CASE overtaken' = (overtaken \/ c.login # logins)
    <3>1. SUFFICES ASSUME ~overtaken, c.login = logins, <<"flow", logins>> \notin outdated
                   PROVE  FlowInv'
      BY <2>1, <2>4 DEF FlowInv
    <3>2. \A u \in Tabs : tab'[u].page = "google" => tab'[u].login # logins
      BY <2>1, <2>2, <3>1 DEF AwayInv, OwnLogin, CallbackOfTab, Away
    <3>3. \A d \in calls' : d.kind = "callback" /\ d.login = logins => d.flow = logins
      BY <2>1, <3>1 DEF FlowInv
    <3>4. QED
      BY <2>1, <3>2, <3>3 DEF FlowInv
  <2>5. QED
    BY <2>1, <2>3, <2>4
<1>4. QED
  BY <1>1, <1>2, <1>3 DEF LoginStep

-----------------------------------------------------------------------------
(* The theorems *)

LEMMA SessionInit == Init => SessionInv
<1> SUFFICES ASSUME Init PROVE SessionInv
  OBVIOUS
<1>1. TypeInv
  BY DEF Init, TypeInv, Logins, Page, Closed, Statuses
<1>2. AwayInv /\ FlowInv
  BY DEF Init, AwayInv, OwnLogin, NotYet, FlowInv, Away, Closed
<1>3. QED
  BY <1>1, <1>2 DEF SessionInv

LEMMA SessionStep == SessionInv /\ [Next]_vars => SessionInv'
<1> SUFFICES ASSUME SessionInv, [Next]_vars PROVE SessionInv'
  OBVIOUS
<1> USE DEF SessionInv
<1>1. CASE PlainStep
  BY <1>1, PlainFrame, AwayKept, FlowKept DEF LeavesLogins
<1>2. CASE LoginStep
  BY <1>2, LoginTypes, AwayLogin, AwayConsent, AwayCallback, FlowLogin DEF LoginStep
<1>3. CASE UNCHANGED vars
  BY <1>3 DEF vars, TypeInv, AwayInv, FlowInv, OwnLogin, CallbackOfTab, NotYet, Away,
              Logins, Page, Call
<1>4. QED
  BY <1>1, <1>2, <1>3 DEF Next, PlainStep, LoginStep

\* Types are correct; a login that is under way has its own number, and no cookie
\* or request holds its session yet (auth_routes.py, auth.py).
THEOREM SessionInvariant == Spec => []SessionInv
BY SessionInit, SessionStep, PTL DEF Spec

\* The last login begun succeeds if its owner consents, whatever other tabs do
\* with logins of their own (google_login, google_callback).
THEOREM LastLoginCorrect == Spec => []LastLoginSurvives
<1>1. SessionInv => LastLoginSurvives
  BY DEF SessionInv, FlowInv, LastLoginSurvives, Accepted, CompleteLogin
<1>2. QED
  BY <1>1, SessionInvariant, PTL

\* A note is written under a session of the owner's account only, by a tab that
\* had learned of that session (require_owner).
THEOREM WritesCorrect == Spec => WritesAreAuthorized
<1>1. SessionInv /\ [Next]_vars =>
        [note' # note =>
            \E c \in calls :
                /\ c.kind = "save" /\ c.text = note'
                /\ c.session \in Logins \ strangers
                /\ c.csrf = c.session]_vars
  <2> SUFFICES ASSUME SessionInv, Next, note' # note
               PROVE  \E c \in calls :
                        /\ c.kind = "save" /\ c.text = note'
                        /\ c.session \in Logins \ strangers
                        /\ c.csrf = c.session
    BY DEF vars
  <2>1. PICK c \in calls : SaveAnswer(c)
    BY DEF Next, Open, Login, Refresh, Logout, Consent, SaveNote, SessionAnswer,
           LogoutAnswer, CallbackAnswer, Expire
  <2>2. c.kind = "save" /\ c.text = note' /\ Accepted(c)
    BY <2>1 DEF SaveAnswer, Replies
  <2>3. c.session # None /\ c.csrf = c.session
    BY <2>2 DEF Accepted, RequireOwner
  <2>4. c.session \in Logins /\ NotYet(c.session)
    BY <2>3 DEF SessionInv, TypeInv, Call, AwayInv
  <2>5. QED
    BY <2>2, <2>3, <2>4 DEF NotYet
<1>2. QED
  BY <1>1, SessionInvariant, PTL DEF Spec, WritesAreAuthorized
=============================================================================
