----------------------------- MODULE Distances -----------------------------
(***************************************************************************)
(* distances/: the air and road distances of the listings.  The pipeline   *)
(* reads the clock, waits for the listing's row, stores its coordinates    *)
(* and their air distance under that time, and asks for the road distance  *)
(* in a transaction of its own; the back-fill command asks for those that  *)
(* are missing.  An enrichment looks its row up, calls Google Routes       *)
(* (external) for seconds and then inserts, with no lock: coordinates may  *)
(* change and other processes may insert meanwhile.  The read API shows a  *)
(* listing's newest row of each mode.                                      *)
(***************************************************************************)
EXTENDS Integers, FiniteSets

CONSTANTS
    None,
    Listings,
    ListingId,      \* ListingId[l]: listings.id
    Places,         \* coordinates, equal up to the seven digits of their hash
    Seconds,        \* Seconds[p]: the driving time Google Routes answers for p
    Scrapers,       \* processes that run the pipeline
    Backfills,      \* processes that run routes-backfill
    MaxAttempts,    \* routes_max_attempts
    RequestLimit,   \* request_limit of a client: routes_daily_request_limit
    Limit,          \* --limit of routes-backfill
    MaxDetails      \* bound: details that are persisted in a behaviour

ASSUME ListingsAssumption ==
    /\ IsFiniteSet(Listings)
    /\ ListingId \in [Listings -> Nat]
    /\ \A l, m \in Listings : ListingId[l] = ListingId[m] => l = m
ASSUME SecondsAssumption == Seconds \in [Places -> Nat]
ASSUME ProcessesAssumption == Scrapers \cap Backfills = {}
ASSUME LimitsAssumption == {MaxAttempts, RequestLimit, Limit} \subseteq Nat \ {0}

Processes == Scrapers \cup Backfills

\* A row of listing_distances.
DistanceRow == [listing : Listings, place : Places, mode : {"air", "road"},
                minutes : {None} \cup Nat, at : Nat]

ASSUME NoneAssumption == None \notin DistanceRow

VARIABLES
    place,          \* listings: the coordinates of each, or None
    distance,       \* listing_distances
    now,            \* the clock that stamps calculated_at
    task,           \* the enrichment or back-fill of each process
    requests,       \* request_count of its client
    details,        \* how many details have been handed to _persist_detail
    confused        \* listings that the times do not tell the place of

dbVars == <<place, distance>>
vars   == <<place, distance, now, task, requests, details, confused>>

RowsOf(l, mode) == {r \in distance : r.listing = l /\ r.mode = mode}

\* The row of the cache identity, whatever its age.
Cached(l, p, mode) == \E r \in RowsOf(l, mode) : r.place = p

Idle == [at |-> "idle", observed_at |-> 0, listing |-> None, place |-> None,
         attempt |-> 1, row |-> None, rest |-> {},
         considered |-> 0, created |-> 0, cache_hits |-> 0, failed |-> 0]

Init ==
    /\ place = [l \in Listings |-> None]
    /\ distance = {}
    /\ now = 1
    /\ task = [e \in Processes |-> Idle]
    /\ requests = [e \in Processes |-> 0]
    /\ details = 0
    /\ confused = {}

-----------------------------------------------------------------------------
(* _persist_detail of the pipeline, with ensure_air_distance *)

LocatedAt(l) == {r.place : r \in RowsOf(l, "air")}

Asking(t) == t.at \in {"ask", "wait", "insert"}

\* observed_at: the clock is read before the row of the listing is locked.
Persist(e, l, p) ==
    /\ task[e] = Idle
    /\ details < MaxDetails
    /\ details' = details + 1
    /\ now' = now + 1
    /\ task' = [task EXCEPT ![e] = [Idle EXCEPT !.at = "persist", !.observed_at = now,
                                                !.listing = l, !.place = p]]
    /\ UNCHANGED <<dbVars, requests, confused>>

\* What makes the newest row of a listing that moves to p mislead: it goes back
\* to a place, a process is asking for the road from where it was, or another
\* run has stored a detail that was observed later.
Misleads(e, l, p) ==
    \/ p \in LocatedAt(l)
    \/ \E f \in Processes : Asking(task[f]) /\ task[f].listing = l
    \/ p # None /\ \E r \in RowsOf(l, "air") : r.at >= task[e].observed_at

Locate(e, l, p) ==
    /\ place' = [place EXCEPT ![l] = p]
    /\ distance' = IF p = None \/ Cached(l, p, "air") THEN distance
                   ELSE distance \cup {[listing |-> l, place |-> p, mode |-> "air",
                                        minutes |-> None, at |-> task[e].observed_at]}
    /\ confused' = IF place[l] # p /\ Misleads(e, l, p) THEN confused \cup {l} ELSE confused

\* The row is locked and all is written, or the run has observed the listing
\* before and nothing is.
CommitDetail(e) ==
    /\ task[e].at = "persist"
    /\ \/ Locate(e, task[e].listing, task[e].place)
       \/ UNCHANGED <<dbVars, confused>>
    /\ task' = [task EXCEPT ![e] = [Idle EXCEPT !.at = "persisted", !.listing = task[e].listing]]
    /\ UNCHANGED <<now, requests, details>>

\* The category ends with an error, and the transaction with a ROLLBACK.
RollBackDetail(e) ==
    /\ task[e].at = "persist"
    /\ task' = [task EXCEPT ![e] = Idle]
    /\ UNCHANGED <<dbVars, now, requests, details, confused>>

-----------------------------------------------------------------------------
(* RoadDistanceEnricher *)

\* _run_routes_backfill: the limit of the command, within that of the client.
BackfillLimit == IF Limit < RequestLimit THEN Limit ELSE RequestLimit

\* listing_ids of backfill, and ORDER BY listings.id
StartBackfill(e) ==
    /\ task[e] = Idle
    /\ task' = [task EXCEPT ![e].at = "loop",
                  ![e].rest = {l \in Listings : place[l] # None}]
    /\ UNCHANGED <<dbVars, now, requests, details, confused>>

NextId(e) ==
    CHOOSE l \in task[e].rest : \A m \in task[e].rest : ListingId[l] <= ListingId[m]

\* What a result adds to the counters of the back-fill; a scraper drops it.
Return(e, created, hit, failed) ==
    LET old == task[e] IN
    task' = [task EXCEPT ![e] =
        IF e \in Scrapers THEN Idle
        ELSE [old EXCEPT !.at = "loop", !.listing = None, !.place = None, !.row = None,
                         !.created = old.created + created,
                         !.cache_hits = old.cache_hits + hit,
                         !.failed = old.failed + failed]]

\* The cache is looked up by the place alone.
LookupMutant(l, p) == \E r \in distance : r.mode = "road" /\ r.place = p

Lookup(l, p) == Cached(l, p, "road")

\* enrich, ensure_road_distance up to the call of the provider
Enrich(e, l, before) ==
    task' = [task EXCEPT ![e] =
        IF place[l] = None \/ Lookup(l, place[l])
        THEN IF e \in Scrapers THEN before
             ELSE [before EXCEPT !.cache_hits = IF place[l] = None THEN @ ELSE @ + 1]
        ELSE [before EXCEPT !.at = "ask", !.listing = l, !.place = place[l], !.attempt = 1]]

\* The pipeline enriches what it has persisted, if it has a client for that.
EnrichPersisted(e) ==
    /\ task[e].at = "persisted"
    /\ Enrich(e, task[e].listing, Idle) \/ task' = [task EXCEPT ![e] = Idle]
    /\ UNCHANGED <<dbVars, now, requests, details, confused>>

\* The budget is looked at before the first listing only.
NextListingMutant(e) ==
    /\ task[e].at = "loop"
    /\ IF task[e].rest = {} \/ requests[e] >= RequestLimit
       THEN task' = [task EXCEPT ![e].at = "done"]
       ELSE Enrich(e, NextId(e),
                   [task[e] EXCEPT !.rest = @ \ {NextId(e)}, !.considered = @ + 1])
    /\ UNCHANGED <<dbVars, now, requests, details, confused>>

NextListing(e) ==
    /\ task[e].at = "loop"
    /\ IF task[e].rest = {} \/ requests[e] >= BackfillLimit
       THEN task' = [task EXCEPT ![e].at = "done"]
       ELSE Enrich(e, NextId(e),
                   [task[e] EXCEPT !.rest = @ \ {NextId(e)}, !.considered = @ + 1])
    /\ UNCHANGED <<dbVars, now, requests, details, confused>>

\* compute_route: one attempt, within the client's budget.
Ask(e) ==
    /\ task[e].at = "ask" /\ requests[e] < RequestLimit
    /\ requests' = [requests EXCEPT ![e] = @ + 1]
    /\ task' = [task EXCEPT ![e].at = "wait"]
    /\ UNCHANGED <<dbVars, now, details, confused>>

\* A client without budget waits for it to be renewed.
OverBudgetMutant(e) == task[e].at = "ask" /\ requests[e] >= RequestLimit /\ UNCHANGED vars

OverBudget(e) ==
    /\ task[e].at = "ask" /\ requests[e] >= RequestLimit
    /\ Return(e, 0, 0, 1)
    /\ UNCHANGED <<dbVars, now, requests, details, confused>>

\* A transport error, 429 or 5xx, with attempts left.
Retry(e) ==
    /\ task[e].at = "wait" /\ task[e].attempt < MaxAttempts
    /\ task' = [task EXCEPT ![e].at = "ask", ![e].attempt = @ + 1]
    /\ UNCHANGED <<dbVars, now, requests, details, confused>>

\* The last attempt failed, the request was rejected, or _parse_response found
\* no usable route.
Fail(e) ==
    /\ task[e].at = "wait"
    /\ Return(e, 0, 0, 1)
    /\ UNCHANGED <<dbVars, now, requests, details, confused>>

\* quantize(ROUND_CEILING)
Minutes(seconds) == (seconds + 59) \div 60

Answer(e) ==
    /\ task[e].at = "wait"
    /\ now' = now + 1
    /\ task' = [task EXCEPT ![e].at = "insert", ![e].row =
                  [listing |-> task[e].listing, place |-> task[e].place, mode |-> "road",
                   minutes |-> Minutes(Seconds[task[e].place]), at |-> now]]
    /\ UNCHANGED <<dbVars, requests, details, confused>>

Schema == INSTANCE MigratedSchema

Insert(e) ==
    /\ task[e].at = "insert" /\ Schema!DistanceRows(distance \cup {task[e].row})
    /\ distance' = distance \cup {task[e].row}
    /\ Return(e, 1, 0, 0)
    /\ UNCHANGED <<place, now, requests, details, confused>>

\* IntegrityError: the exception ends the back-fill, or the scraper's category.
Collide(e) ==
    /\ task[e].at = "insert" /\ ~Schema!DistanceRows(distance \cup {task[e].row})
    /\ task' = [task EXCEPT ![e] = IF e \in Scrapers THEN Idle
                                   ELSE [Idle EXCEPT !.at = "aborted"]]
    /\ UNCHANGED <<dbVars, now, requests, details, confused>>

Detail(e) == CommitDetail(e) \/ RollBackDetail(e) \/ EnrichPersisted(e)

Work(e) ==
    \/ NextListing(e) \/ Ask(e) \/ OverBudget(e) \/ Retry(e) \/ Fail(e)
    \/ Answer(e) \/ Insert(e) \/ Collide(e)

Next ==
    \/ \E e \in Scrapers :
        Detail(e) \/ \E l \in Listings, p \in Places \cup {None} : Persist(e, l, p)
    \/ \E e \in Backfills : StartBackfill(e)
    \/ \E e \in Processes : Work(e)

Spec == Init /\ [][Next]_vars

\* A process keeps running, and every request is answered or times out.
FairSpec ==
    /\ Spec
    /\ \A e \in Processes : WF_vars(Work(e))
    /\ \A e \in Scrapers : WF_vars(Detail(e))

\* The routes-backfill command exits with 0.
Succeeded(e) == task[e].at = "done" /\ task[e].failed = 0

-----------------------------------------------------------------------------
(* _distance_value of api/listing_repository.py *)

\* The oldest row.
ShownMutant(l, mode) ==
    IF RowsOf(l, mode) = {} THEN None
    ELSE CHOOSE r \in RowsOf(l, mode) : \A s \in RowsOf(l, mode) : r.at <= s.at

\* The newest row of a mode: the coordinates are not compared.
Shown(l, mode) ==
    IF RowsOf(l, mode) = {} THEN None
    ELSE CHOOSE r \in RowsOf(l, mode) : \A s \in RowsOf(l, mode) : s.at <= r.at

-----------------------------------------------------------------------------
(* Properties *)

\* A client never exceeds its budget, and a back-fill exceeds its own limit by
\* no more than the retries of its last listing (backfill, compute_route).
WithinBudget ==
    \A e \in Processes :
        /\ requests[e] <= RequestLimit
        /\ e \in Backfills => requests[e] <= BackfillLimit + MaxAttempts - 1

\* Showing the newest row shows the distance of where the listing is, and a
\* driving time that is not too short, unless the listing has gone back to a
\* place it had left, has moved while its route was being asked for, or was
\* stored by a run that had observed it before a detail stored earlier.
ShownIsCurrent ==
    \A l \in Listings : place[l] # None /\ l \notin confused =>
        /\ Shown(l, "air") # None /\ Shown(l, "air").place = place[l]
        /\ Cached(l, place[l], "road") =>
             /\ Shown(l, "road").place = place[l]
             /\ Shown(l, "road").minutes * 60 >= Seconds[place[l]]

\* A back-fill that considered every listing and reports no failure leaves
\* every one that has had one place only with its road distance, and what it
\* reports adds up (backfill of RoadDistanceEnricher).
CleanBackfillCovers ==
    \A e \in Backfills : task[e].at = "done" =>
        /\ task[e].created + task[e].cache_hits + task[e].failed <= task[e].considered
        /\ task[e].created <= requests[e]
        /\ Succeeded(e) /\ task[e].considered = Cardinality(Listings) =>
             \A l \in Listings : l \notin confused /\ LocatedAt(l) = {place[l]} =>
                Cached(l, place[l], "road")

\* Every back-fill and every enrichment of a scraper ends, whatever the
\* provider answers: no process stays at work for ever.
EnrichmentsEnd ==
    \A e \in Processes : []<>(task[e].at \in {"idle", "done", "aborted"})
=============================================================================
