---------------------------- MODULE OwnerSession ----------------------------
(***************************************************************************)
(* The owner's session: several tabs of one browser, which share two       *)
(* cookies, and the API behind them (api/auth.py, auth_routes.py, owner.py, *)
(* the front end's auth-provider.tsx and user-listing-controls.tsx).       *)
(* Requests carry the cookies of the moment they are sent and are answered *)
(* later, in any order; an answer changes the cookies when it arrives.     *)
(* The API keeps nothing of a session, so when it handles a request does   *)
(* not matter but for what expires meanwhile.  Google's consent page is    *)
(* external.  Tokens are abstract: login n has a flow cookie n, with its   *)
(* state, nonce and verifier, and creates session n, whose CSRF token is n.*)
(***************************************************************************)
EXTENDS Integers, FiniteSets

CONSTANTS
    None,
    Tabs,
    Notes,          \* texts of the private note
    Empty,          \* the one of a listing without a note
    MaxLogins,      \* bound: logins begun in a behaviour
    MaxRefreshes,   \* bound: session requests of a tab on their way at once
    MaxCommands,    \* bound: other requests on their way at once
    MaxExpiries     \* bound: cookies that expire in a behaviour

ASSUME NotesAssumption == Empty \notin Notes /\ None \notin Notes
ASSUME BoundsAssumption == {MaxLogins, MaxCommands, MaxExpiries} \subseteq Nat /\ MaxRefreshes \in Nat \ {0}

VARIABLES
    flow,           \* cookie sreality_oauth_flow: its login, or None
    session,        \* cookie sreality_session: its login, or None
    logins,         \* logins begun
    strangers,      \* those for which another account was selected
    outdated,       \* pairs of a kind of cookie and a login, whose exp has passed
    tab,            \* the page each tab shows and its React state
    calls,          \* requests without an answer yet
    note,           \* user_listing_data.private_note
    overtaken       \* a login succeeded since the last one was begun

vars == <<flow, session, logins, strangers, outdated, tab, calls, note, overtaken>>

Logins   == 1..logins
Statuses == {"loading", "unauthenticated", "error", "authenticated"}
Closed   == [page |-> "closed", login |-> None, status |-> "loading", csrf |-> None]

Init ==
    /\ flow = None /\ session = None
    /\ logins = 0 /\ strangers = {} /\ outdated = {}
    /\ tab = [t \in Tabs |-> Closed]
    /\ calls = {}
    /\ note = Empty
    /\ overtaken = FALSE

\* request of lib/api/client.ts, or a navigation: with the cookies of now, as far
\* as their handlers look at them.
Request(t, kind, nr, text) ==
    [tab |-> t, kind |-> kind, nr |-> nr, text |-> text,
     login   |-> IF kind = "callback" THEN tab[t].login ELSE None,
     flow    |-> IF kind = "callback" THEN flow ELSE None,
     session |-> IF kind = "callback" THEN None ELSE session,
     csrf    |-> IF kind = "session" THEN None ELSE tab[t].csrf]

Sends(t, kind, text) ==
    /\ Cardinality({c \in calls : c.kind # "session"}) < MaxCommands
    /\ \A c \in calls : ~(c.tab = t /\ c.kind = kind)
    /\ calls' = calls \cup {Request(t, kind, 1, text)}

\* Requests of tab t live on without a listener, if they can still have an effect.
Orphaned(C, t, kinds) ==
    LET gone == {c \in C : c.tab = t /\ c.kind \in kinds} IN
    (C \ gone) \cup {[c EXCEPT !.tab = None] : c \in {d \in gone : d.kind # "session"}}

\* setState
Shows(page, status, csrf) == [page EXCEPT !.status = status, !.csrf = csrf]

-----------------------------------------------------------------------------
(* Opening the application and signing in *)

Loading(t) == [Closed EXCEPT !.page = "app"]

\* The first effect of AuthProvider asks for the session.
Open(t) ==
    /\ tab[t].page = "closed"
    /\ tab' = [tab EXCEPT ![t] = Loading(t)]
    /\ calls' = calls \cup {Request(t, "session", 1, None)}
    /\ UNCHANGED <<flow, session, logins, strangers, outdated, note, overtaken>>

\* google_login, begin_login: the server keeps nothing of a flow, so the
\* request and its answer are one step.  The page is left.
Login(t) ==
    /\ tab[t].page = "app" /\ tab[t].status = "unauthenticated" /\ logins < MaxLogins
    /\ logins' = logins + 1
    /\ flow' = logins'
    /\ tab' = [tab EXCEPT ![t] = [Closed EXCEPT !.page = "google", !.login = logins']]
    /\ calls' = Orphaned(calls, t, {"session", "logout", "save"})
    /\ overtaken' = FALSE
    /\ UNCHANGED <<session, strangers, outdated, note>>

\* External: an account is selected and Google redirects to the callback.
Consent(t, isOwner) ==
    /\ tab[t].page = "google"
    /\ strangers' = IF isOwner THEN strangers ELSE strangers \cup {tab[t].login}
    /\ tab' = [tab EXCEPT ![t].page = "callback"]
    /\ Sends(t, "callback", None)
    /\ UNCHANGED <<flow, session, logins, outdated, note, overtaken>>

-----------------------------------------------------------------------------
(* Requests of the application *)

\* The tab becomes visible, or the owner retries after an error.
Refresh(t) ==
    /\ tab[t].page = "app"
    /\ \E nr \in 1..MaxRefreshes :
        /\ \A c \in calls : ~(c.tab = t /\ c.kind = "session" /\ c.nr = nr)
        /\ calls' = calls \cup {Request(t, "session", nr, None)}
    /\ UNCHANGED <<flow, session, logins, strangers, outdated, tab, note, overtaken>>

Logout(t) ==
    /\ tab[t].page = "app" /\ tab[t].status = "authenticated"
    /\ Sends(t, "logout", None)
    /\ UNCHANGED <<flow, session, logins, strangers, outdated, tab, note, overtaken>>

\* save of UserListingControls: one at a time as long as the form is mounted.
SaveNote(t, text) ==
    /\ tab[t].page = "app" /\ tab[t].status = "authenticated"
    /\ Sends(t, "save", text)
    /\ UNCHANGED <<flow, session, logins, strangers, outdated, tab, note, overtaken>>

-----------------------------------------------------------------------------
(* The API *)

\* The CSRF header is not compared.
RequireOwnerMutant(c) == c.session # None

\* authenticate; a request that is not a GET needs the CSRF token.
RequireOwner(c) == c.session # None /\ (c.kind = "session" \/ c.csrf = c.session)

\* complete_login: no flow, another state, nonce or verifier and another account
\* are refused.
CompleteLogin(c) == c.flow = c.login /\ c.login \notin strangers

Accepted(c) == IF c.kind = "callback" THEN CompleteLogin(c) ELSE RequireOwner(c)

\* The exp of its token passed while the request was on its way (loads).
Outdated(c) ==
    IF c.kind = "callback" THEN <<"flow", c.flow>> \in outdated
    ELSE <<"session", c.session>> \in outdated

\* The request, or its answer, may be lost.
Replies(c) ==
    {"lost"} \cup (IF Accepted(c) THEN {"ok"} ELSE {"refused"})
             \cup (IF Outdated(c) THEN {"refused"} ELSE {})

\* max_age of a cookie and exp of its token pass together.
Expire ==
    /\ Cardinality(outdated) < MaxExpiries
    /\ \/ /\ session # None
          /\ session' = None /\ outdated' = outdated \cup {<<"session", session>>}
          /\ flow' = flow
       \/ /\ flow # None
          /\ flow' = None /\ outdated' = outdated \cup {<<"flow", flow>>}
          /\ session' = session
    /\ UNCHANGED <<logins, strangers, tab, calls, note, overtaken>>

-----------------------------------------------------------------------------
(* Answers *)

\* A failed refresh leaves a page that is signed in as it was.
LoadAuthStateMutant(page, c, reply) ==
    CASE reply = "ok"                       -> Shows(page, "authenticated", c.session)
      [] page.status = "authenticated" /\ reply # "ok" -> page
      [] page.status # "authenticated" /\ reply # "ok" -> Shows(page, "unauthenticated", None)

LoadAuthState(page, c, reply) ==
    CASE reply = "ok"      -> Shows(page, "authenticated", c.session)
      [] reply = "refused" -> Shows(page, "unauthenticated", None)
      [] reply = "lost"    -> Shows(page, "error", None)

\* Without the form of an authenticated page (ProtectedContent) its save has no
\* listener any more.
Show(t, page, C) ==
    /\ tab' = [tab EXCEPT ![t] = page]
    /\ calls' = IF page.status = "authenticated" THEN C ELSE Orphaned(C, t, {"save"})

\* The last answer to arrive decides, whenever its request was sent.
SessionAnswer(c) ==
    /\ c.kind = "session"
    /\ \E reply \in Replies(c) : Show(c.tab, LoadAuthState(tab[c.tab], c, reply), calls \ {c})
    /\ UNCHANGED <<flow, session, logins, strangers, outdated, note, overtaken>>

LogoutAnswer(c) ==
    /\ c.kind = "logout"
    /\ \E reply \in Replies(c) :
        /\ session' = IF reply = "ok" THEN None ELSE session
        /\ IF c.tab = None THEN tab' = tab /\ calls' = calls \ {c}
           ELSE Show(c.tab, Shows(tab[c.tab], IF reply = "ok" THEN "unauthenticated" ELSE "error",
                                  None), calls \ {c})
    /\ UNCHANGED <<flow, logins, strangers, outdated, note, overtaken>>

\* A save whose answer is lost may have been stored.  The answer itself reaches
\* the form only, which is not modelled.
SaveAnswer(c) ==
    /\ c.kind = "save"
    /\ \E reply \in Replies(c) :
        note' \in CASE reply = "ok"      -> {c.text}
                    [] reply = "refused" -> {note}
                    [] reply = "lost"    -> IF Accepted(c) THEN {note, c.text} ELSE {note}
    /\ calls' = calls \ {c}
    /\ UNCHANGED <<flow, session, logins, strangers, outdated, tab, overtaken>>

\* A failed callback cleans up after itself.
CallbackAnswerMutant(c) ==
    /\ c.kind = "callback"
    /\ \E reply \in Replies(c) :
        IF reply = "ok" THEN session' = c.login /\ overtaken' = (overtaken \/ c.login # logins)
        ELSE UNCHANGED <<session, overtaken>>
    /\ flow' = None
    /\ tab' = [tab EXCEPT ![c.tab] = Closed] /\ calls' = calls \ {c}
    /\ UNCHANGED <<logins, strangers, outdated, note>>

\* google_callback: the session is set and whatever flow there is by now deleted,
\* and the application can be opened; any error is shown in its place.
CallbackAnswer(c) ==
    /\ c.kind = "callback"
    /\ \E reply \in Replies(c) :
        IF reply = "ok"
        THEN session' = c.login /\ flow' = None /\ overtaken' = (overtaken \/ c.login # logins)
        ELSE UNCHANGED <<session, flow, overtaken>>
    /\ tab' = [tab EXCEPT ![c.tab] = Closed] /\ calls' = calls \ {c}
    /\ UNCHANGED <<logins, strangers, outdated, note>>

-----------------------------------------------------------------------------

Next ==
    \/ \E t \in Tabs :
        \/ Open(t) \/ Login(t) \/ Refresh(t) \/ Logout(t)
        \/ \E isOwner \in BOOLEAN : Consent(t, isOwner)
        \/ \E text \in Notes : SaveNote(t, text)
    \/ \E c \in calls : SessionAnswer(c) \/ LogoutAnswer(c) \/ SaveAnswer(c) \/ CallbackAnswer(c)
    \/ Expire

Spec == Init /\ [][Next]_vars

\* Every request is answered or lost, and the owner comes back to every tab of
\* the application, which refreshes its session.
FairSpec ==
    /\ Spec
    /\ \A t \in Tabs :
        /\ WF_vars(Refresh(t))
        /\ WF_vars(\E c \in calls : c.tab = t /\ SessionAnswer(c))

-----------------------------------------------------------------------------
(* Properties *)

\* The last login begun succeeds if its owner consents, whatever other tabs did
\* with logins of their own: unless it expired or another login succeeded since,
\* its flow cookie is the browser's, and its callback carries it.
LastLoginSurvives ==
    ~overtaken /\ <<"flow", logins>> \notin outdated =>
        /\ \A t \in Tabs : tab[t].page = "google" /\ tab[t].login = logins => flow = logins
        /\ \A c \in calls :
            c.kind = "callback" /\ c.login = logins /\ c.login \notin strangers => Accepted(c)

\* A note is written only under a session of the owner's account, and by a tab
\* that had learned of that very session: a page left over from an earlier one
\* writes nothing (require_owner).
WritesAreAuthorized ==
    [][note' # note =>
        \E c \in calls :
            /\ c.kind = "save" /\ c.text = note'
            /\ c.session \in Logins \ strangers
            /\ c.csrf = c.session]_vars

\* Once the browser is signed out for good, whatever late answers arrive, no tab
\* goes on showing the owner as signed in.
SignedOutTabsLearn ==
    <>[](session = None) => \A t \in Tabs : <>[](tab[t].status # "authenticated")
=============================================================================
