--------------------------- MODULE SrealityClient ---------------------------
(***************************************************************************)
(* scraper/client.py: one HTTP session that fetches a page with paced      *)
(* requests, a few allowed redirects per attempt and a few attempts.  Time *)
(* is counted in ticks since the last request, up to LongAgo.  What        *)
(* Sreality answers is the environment's choice, with one rule the code    *)
(* states: a redirect that leaves the site may set cookies that make every *)
(* later page redirect away as well.                                       *)
(***************************************************************************)
EXTENDS Integers

CONSTANTS
    MaxAttempts,    \* max_attempts
    MinDelay,       \* min_delay_seconds, in ticks
    BackoffBase,    \* backoff_base_seconds, in ticks
    Latencies,      \* ticks that may pass before the next request is due
    LongAgo         \* bound of the ages, at least every pause the client makes

MAX_REDIRECTS == 2

Backoff(attempt) == BackoffBase * 2^(attempt - 1)

ASSUME AttemptsAssumption == MaxAttempts \in 1..6
ASSUME DelayAssumption == MinDelay \in Nat /\ BackoffBase \in Nat
ASSUME LatenciesAssumption == Latencies \subseteq Nat
ASSUME LongAgoAssumption ==
    /\ LongAgo \in Nat /\ LongAgo >= MinDelay
    /\ \A attempt \in 1..MaxAttempts : Backoff(attempt) \in 0..LongAgo

VARIABLES
    fetch,      \* the call in progress and its result
    age,        \* ticks since _last_request_started
    gap,        \* ticks since the last request really left
    cookies     \* the session carries cookies of a rejected redirect

clientVars == <<fetch, age, gap, cookies>>

Results == {"html", "invalid", "failed"}

\* attempt and hops are the loop variables; sent counts the call's requests.
NoFetch == [at |-> "idle", page |-> 0, attempt |-> 1, hops |-> 0, sent |-> 0, away |-> FALSE]

ClientInit ==
    /\ fetch = NoFetch
    /\ age = LongAgo /\ gap = LongAgo
    /\ cookies = FALSE

Later(ticks, d) == IF ticks + d > LongAgo THEN LongAgo ELSE ticks + d

Pause == IF age < MinDelay THEN MinDelay - age ELSE 0

\* fetch_search_page or fetch_detail_page is called; target is 0 for a detail.
Call(target) ==
    /\ fetch' = [NoFetch EXCEPT !.at = "request", !.page = target]
    /\ UNCHANGED <<age, gap, cookies>>

Return(result) == fetch' = [fetch EXCEPT !.at = result]

\* The clock read before the sleep is kept as the start of the request.
SendMutant(d) ==
    /\ age' = Later(Pause, d)
    /\ gap' = Later(0, d)

\* _pace, then the GET; d ticks pass before the client could send another one.
Send(d) ==
    /\ age' = Later(0, d)
    /\ gap' = Later(0, d)

\* One GET and what its answer makes of the call.
Get(outcome, d) ==
    /\ fetch.at = "request"
    /\ Send(d)
    /\ fetch' = [outcome EXCEPT !.sent = fetch.sent + 1]

\* A transport error or a retryable status: back off, with attempts left.
Retry(d) ==
    /\ fetch.attempt < MaxAttempts
    /\ Get([fetch EXCEPT !.attempt = @ + 1, !.hops = 0], d + Backoff(fetch.attempt))

GiveUp(d) ==
    /\ fetch.attempt = MaxAttempts
    /\ Get([fetch EXCEPT !.at = "failed"], d)

\* Any other error status is not retried.
Refused(d) == Get([fetch EXCEPT !.at = "failed"], d)

Redirected(d) == Get([fetch EXCEPT !.at = "redirect"], d)

\* Not HTML, or no __NEXT_DATA__ script.
NotSsr(d) == Get([fetch EXCEPT !.at = "invalid"], d)

Html(d) == Get([fetch EXCEPT !.at = "html"], d)

\* A consent or autologin redirect; search pages get one only with the cookies.
LedAway(d) ==
    /\ fetch.page = 0 \/ cookies
    /\ Get([fetch EXCEPT !.at = "redirect", !.away = TRUE], d)

Answer ==
    \E d \in Latencies :
        \/ LedAway(d) /\ cookies' = TRUE
        \/ ~cookies /\ UNCHANGED cookies
           /\ \/ Retry(d) \/ GiveUp(d) \/ Refused(d)
              \/ Redirected(d) \/ NotSsr(d) \/ Html(d)

\* One redirect more than allowed.
FollowMutant ==
    /\ fetch.at = "redirect" /\ ~fetch.away
    /\ IF fetch.hops <= MAX_REDIRECTS
       THEN fetch' = [fetch EXCEPT !.at = "request", !.hops = @ + 1]
       ELSE Return("invalid")
    /\ UNCHANGED <<age, gap, cookies>>

\* A redirect within the site, up to MAX_REDIRECTS of them.
Follow ==
    /\ fetch.at = "redirect" /\ ~fetch.away
    /\ IF fetch.hops < MAX_REDIRECTS
       THEN fetch' = [fetch EXCEPT !.at = "request", !.hops = @ + 1]
       ELSE Return("invalid")
    /\ UNCHANGED <<age, gap, cookies>>

\* No Location, or one outside the site: the session forgets its cookies.
Reject ==
    /\ fetch.at = "redirect"
    /\ \/ fetch.away /\ cookies' = FALSE
       \/ ~fetch.away /\ UNCHANGED cookies
    /\ Return("invalid")
    /\ UNCHANGED <<age, gap>>

Client == Answer \/ Follow \/ Reject

-----------------------------------------------------------------------------
(* Properties *)

\* A call costs at most MaxAttempts * (MAX_REDIRECTS + 1) requests, however
\* redirects and retries mix (_get_ssr_html, _request_with_allowed_redirects).
RequestBudget == fetch.sent <= MaxAttempts * (MAX_REDIRECTS + 1)

\* Between any two requests of the session, of one call or of two, lies the
\* configured delay, and before a retry also its back-off (_pace,
\* _wait_before_retry).
PoliteRequests ==
    [][fetch'.sent > fetch.sent =>
        /\ gap + Pause >= MinDelay
        /\ fetch.attempt > 1 /\ fetch.hops = 0 =>
               gap + Pause >= Backoff(fetch.attempt - 1)]_clientVars
=============================================================================
