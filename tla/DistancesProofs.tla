--------------------------- MODULE DistancesProofs ---------------------------
(***************************************************************************)
(* Theorems about Distances for every set of listings, places and          *)
(* processes and every limit: the budget of the requests, the distance     *)
(* that is shown, and what a back-fill without failures has covered.       *)
(***************************************************************************)
EXTENDS Distances, FiniteSetTheorems, WellFoundedInduction, TLAPS

\* How many requests a back-fill may have sent, by where it is: the budget is
\* looked at before a listing only, so an attempt in hand may go beyond it.
Allowed(t) ==
    IF t.at = "ask" THEN BackfillLimit + t.attempt - 2
    ELSE IF t.at = "wait" THEN BackfillLimit + t.attempt - 1
    ELSE BackfillLimit + MaxAttempts - 1

\* What the counting rests on: every process has a control point and a number
\* of the attempt, whatever else its record holds.
Counted(e) ==
    /\ {"at", "attempt"} \subseteq DOMAIN task[e]
    /\ task[e].attempt \in 1..MaxAttempts
    /\ requests[e] \in 0..RequestLimit
    /\ e \in Backfills => requests[e] <= Allowed(task[e])

BudgetInv ==
    /\ DOMAIN task = Processes
    /\ requests \in [Processes -> Nat]
    /\ \A e \in Processes : Counted(e)

LEMMA LimitTypes ==
    /\ MaxAttempts \in Nat \ {0} /\ RequestLimit \in Nat \ {0}
    /\ BackfillLimit \in Nat \ {0} /\ BackfillLimit <= RequestLimit
BY LimitsAssumption DEF BackfillLimit

LEMMA InitBudget == Init => BudgetInv
BY LimitTypes DEF Init, BudgetInv, Counted, Allowed, Idle, Processes

\* A step of one process leaves the others as they are.
LEMMA OtherProcesses ==
  ASSUME BudgetInv, NEW e \in Processes, NEW t, NEW n \in Nat,
         task' = [task EXCEPT ![e] = t], requests' = [requests EXCEPT ![e] = n],
         {"at", "attempt"} \subseteq DOMAIN t, t.attempt \in 1..MaxAttempts,
         n <= RequestLimit, e \in Backfills => n <= Allowed(t)
  PROVE  BudgetInv'
<1>1. DOMAIN task' = Processes /\ requests' \in [Processes -> Nat]
  BY DEF BudgetInv
<1>2. task'[e] = t /\ requests'[e] = n
  BY DEF BudgetInv
<1>3. \A f \in Processes \ {e} : task'[f] = task[f] /\ requests'[f] = requests[f]
  BY DEF BudgetInv
<1>4. Counted(e)'
  BY <1>2 DEF Counted, Allowed
<1>5. \A f \in Processes \ {e} : Counted(f)'
  BY <1>3 DEF BudgetInv, Counted, Allowed
<1>6. QED
  BY <1>1, <1>4, <1>5 DEF BudgetInv

\* What a process may become without a request.
LEMMA WithoutRequest ==
  ASSUME BudgetInv, NEW e \in Processes, NEW t,
         task' = [task EXCEPT ![e] = t], requests' = requests,
         {"at", "attempt"} \subseteq DOMAIN t, t.attempt \in 1..MaxAttempts,
         e \in Backfills => requests[e] <= Allowed(t)
  PROVE  BudgetInv'
<1>1. requests' = [requests EXCEPT ![e] = requests[e]]
  BY DEF BudgetInv
<1>2. requests[e] \in Nat /\ requests[e] <= RequestLimit
  BY DEF BudgetInv, Counted
<1>3. QED
  BY <1>1, <1>2, OtherProcesses

\* No control point allows more than the end of a back-fill.
LEMMA AllowedAtMost ==
  ASSUME BudgetInv, NEW e \in Processes
  PROVE  Allowed(task[e]) <= BackfillLimit + MaxAttempts - 1
BY LimitTypes DEF BudgetInv, Counted, Allowed

-----------------------------------------------------------------------------
(* Steps *)

\* A result ends the attempt: the back-fill goes on, a scraper is done.
LEMMA ReturnBudget ==
  ASSUME BudgetInv, NEW e \in Processes, NEW created, NEW hit, NEW failed,
         Return(e, created, hit, failed), requests' = requests
  PROVE  BudgetInv'
<1>1. Allowed(task[e]) <= BackfillLimit + MaxAttempts - 1
  BY AllowedAtMost
<1>2. requests[e] \in Nat /\ (e \in Backfills => requests[e] <= BackfillLimit + MaxAttempts - 1)
  BY <1>1, LimitTypes DEF BudgetInv, Counted, Allowed
<1>3. CASE e \in Scrapers
  <2>1. task' = [task EXCEPT ![e] = Idle]
    BY <1>3 DEF Return
  <2>2. {"at", "attempt"} \subseteq DOMAIN Idle /\ Idle.attempt \in 1..MaxAttempts
    BY LimitTypes DEF Idle
  <2>3. QED
    BY <1>3, <2>1, <2>2, ProcessesAssumption, WithoutRequest
<1>4. CASE e \notin Scrapers
  <2> DEFINE t == [task[e] EXCEPT !.at = "loop", !.listing = None, !.place = None, !.row = None,
                     !.created = task[e].created + created,
                     !.cache_hits = task[e].cache_hits + hit,
                     !.failed = task[e].failed + failed]
  <2>1. task' = [task EXCEPT ![e] = t]
    BY <1>4 DEF Return
  <2>2. DOMAIN t = DOMAIN task[e] /\ t.at = "loop" /\ t.attempt = task[e].attempt
    BY DEF BudgetInv, Counted
  <2>3. {"at", "attempt"} \subseteq DOMAIN t /\ t.attempt \in 1..MaxAttempts
    BY <2>2 DEF BudgetInv, Counted
  <2>4. e \in Backfills => requests[e] <= Allowed(t)
    BY <1>2, <2>2 DEF Allowed
  <2>. HIDE DEF t
  <2>5. QED
    BY <2>1, <2>3, <2>4, WithoutRequest
<1>5. QED
  BY <1>3, <1>4

\* enrich: before the call of the provider the attempt is the first one, and a
\* back-fill gets there with budget left only.
LEMMA EnrichBudget ==
  ASSUME BudgetInv, NEW e \in Processes, NEW l, NEW before,
         {"at", "attempt"} \subseteq DOMAIN before, before.attempt \in 1..MaxAttempts,
         before.at \notin {"ask", "wait"},
         e \in Backfills => requests[e] < BackfillLimit,
         Enrich(e, l, before), requests' = requests
  PROVE  BudgetInv'
<1>1. requests[e] \in Nat
  BY DEF BudgetInv
<1>2. e \in Backfills => requests[e] <= BackfillLimit + MaxAttempts - 1
  BY <1>1, LimitTypes
<1>3. PICK t : /\ task' = [task EXCEPT ![e] = t]
               /\ \/ t = before
                  \/ t = [before EXCEPT !.cache_hits = IF place[l] = None THEN @ ELSE @ + 1]
                  \/ t = [before EXCEPT !.at = "ask", !.listing = l, !.place = place[l],
                                        !.attempt = 1]
  BY DEF Enrich
<1>4. CASE t.at = before.at /\ t.attempt = before.attempt /\ DOMAIN t = DOMAIN before
  <2>1. e \in Backfills => requests[e] <= Allowed(t)
    BY <1>2, <1>4 DEF Allowed
  <2>2. QED
    BY <1>3, <1>4, <2>1, WithoutRequest
<1>5. CASE t.at = "ask" /\ t.attempt = 1 /\ DOMAIN t = DOMAIN before
  <2>1. e \in Backfills => requests[e] <= Allowed(t)
    BY <1>1, <1>5, LimitTypes DEF Allowed
  <2>2. t.attempt \in 1..MaxAttempts
    BY <1>5, LimitTypes
  <2>3. QED
    BY <1>3, <1>5, <2>1, <2>2, WithoutRequest
<1>6. QED
  BY <1>3, <1>4, <1>5

LEMMA WorkBudget ==
  ASSUME BudgetInv, NEW e \in Processes, Work(e)
  PROVE  BudgetInv'
<1>1. Counted(e) /\ requests[e] \in Nat /\ task[e].attempt \in Nat
  BY LimitTypes DEF BudgetInv, Counted
<1>2. CASE NextListing(e)
  <2>1. CASE task' = [task EXCEPT ![e].at = "done"]
    <3> DEFINE t == [task[e] EXCEPT !.at = "done"]
    <3>1. task' = [task EXCEPT ![e] = t]
      BY <2>1 DEF BudgetInv
    <3>2. DOMAIN t = DOMAIN task[e] /\ t.at = "done" /\ t.attempt = task[e].attempt
      BY <1>1 DEF Counted
    <3>3. e \in Backfills => requests[e] <= Allowed(t)
      BY <1>1, <1>2, <3>2 DEF NextListing, Counted, Allowed
    <3>4. requests' = requests
      BY <1>2 DEF NextListing
    <3>. HIDE DEF t
    <3>5. QED
      BY <1>1, <3>1, <3>2, <3>3, <3>4, WithoutRequest DEF Counted
  <2>2. CASE ~(task[e].rest = {} \/ requests[e] >= BackfillLimit)
    <3> DEFINE before == [task[e] EXCEPT !.rest = @ \ {NextId(e)}, !.considered = @ + 1]
    <3>1. Enrich(e, NextId(e), before) /\ requests' = requests /\ task[e].at = "loop"
      BY <1>2, <2>2 DEF NextListing
    <3>2. /\ DOMAIN before = DOMAIN task[e] /\ before.at = "loop"
          /\ before.attempt = task[e].attempt
      BY <1>1, <3>1 DEF Counted
    <3>3. requests[e] < BackfillLimit
      BY <1>1, <2>2, LimitTypes
    <3>. HIDE DEF before
    <3>4. QED
      BY <1>1, <3>1, <3>2, <3>3, EnrichBudget DEF Counted
  <2>3. QED
    BY <1>2, <2>1, <2>2 DEF NextListing
<1>3. CASE Ask(e)
  <2> DEFINE t == [task[e] EXCEPT !.at = "wait"]
  <2>1. task' = [task EXCEPT ![e] = t] /\ requests' = [requests EXCEPT ![e] = requests[e] + 1]
    BY <1>3 DEF Ask, BudgetInv
  <2>2. DOMAIN t = DOMAIN task[e] /\ t.at = "wait" /\ t.attempt = task[e].attempt
    BY <1>1 DEF Counted
  <2>3. requests[e] + 1 \in Nat /\ requests[e] + 1 <= RequestLimit
    BY <1>1, <1>3, LimitTypes DEF Ask
  <2>4. e \in Backfills => requests[e] + 1 <= Allowed(t)
    BY <1>1, <1>3, <2>2, LimitTypes DEF Ask, Counted, Allowed
  <2>. HIDE DEF t
  <2>5. QED
    BY <1>1, <2>1, <2>2, <2>3, <2>4, OtherProcesses DEF Counted
<1>4. CASE OverBudget(e) \/ Fail(e) \/ Insert(e)
  BY <1>4, ReturnBudget DEF OverBudget, Fail, Insert
<1>5. CASE Retry(e)
  <2> DEFINE t == [task[e] EXCEPT !.at = "ask", !.attempt = @ + 1]
  <2>1. task' = [task EXCEPT ![e] = t] /\ requests' = requests
    BY <1>5 DEF Retry, BudgetInv
  <2>2. DOMAIN t = DOMAIN task[e] /\ t.at = "ask" /\ t.attempt = task[e].attempt + 1
    BY <1>1 DEF Counted
  <2>3. t.attempt \in 1..MaxAttempts
    BY <1>1, <1>5, <2>2, LimitTypes DEF Retry
  <2>4. e \in Backfills => requests[e] <= Allowed(t)
    BY <1>1, <1>5, <2>2, LimitTypes DEF Retry, Counted, Allowed
  <2>. HIDE DEF t
  <2>5. QED
    BY <1>1, <2>1, <2>2, <2>3, <2>4, WithoutRequest DEF Counted
<1>6. CASE Answer(e)
  <2>1. PICK row : task' = [task EXCEPT ![e] = [task[e] EXCEPT !.at = "insert", !.row = row]]
    BY <1>6 DEF Answer, BudgetInv
  <2> DEFINE t == [task[e] EXCEPT !.at = "insert", !.row = row]
  <2>2. DOMAIN t = DOMAIN task[e] /\ t.at = "insert" /\ t.attempt = task[e].attempt
    BY <1>1 DEF Counted
  <2>3. e \in Backfills => requests[e] <= Allowed(t)
    BY <1>1, <2>2, AllowedAtMost, LimitTypes DEF Counted, Allowed
  <2>4. task' = [task EXCEPT ![e] = t] /\ requests' = requests
    BY <1>6, <2>1 DEF Answer
  <2>. HIDE DEF t
  <2>5. QED
    BY <1>1, <2>2, <2>3, <2>4, WithoutRequest DEF Counted
<1>7. CASE Collide(e)
  <2> DEFINE t == IF e \in Scrapers THEN Idle ELSE [Idle EXCEPT !.at = "aborted"]
  <2>1. task' = [task EXCEPT ![e] = t] /\ requests' = requests
    BY <1>7 DEF Collide
  <2>2. {"at", "attempt"} \subseteq DOMAIN t /\ t.attempt = 1 /\ t.at \in {"idle", "aborted"}
    BY DEF Idle
  <2>3. e \in Backfills => requests[e] <= Allowed(t)
    BY <1>1, <2>2, AllowedAtMost, LimitTypes DEF Counted, Allowed
  <2>4. t.attempt \in 1..MaxAttempts
    BY <2>2, LimitTypes
  <2>. HIDE DEF t
  <2>5. QED
    BY <2>1, <2>2, <2>3, <2>4, WithoutRequest
<1>8. QED
  BY <1>2, <1>3, <1>4, <1>5, <1>6, <1>7 DEF Work

LEMMA BudgetStep == BudgetInv /\ [Next]_vars => BudgetInv'
<1> SUFFICES ASSUME BudgetInv, [Next]_vars PROVE BudgetInv'
  OBVIOUS
<1>1. CASE UNCHANGED <<task, requests>>
  BY <1>1 DEF BudgetInv, Counted, Allowed
<1>2. ASSUME NEW e \in Processes, Work(e) PROVE BudgetInv'
  BY <1>2, WorkBudget
<1>3. ASSUME NEW e \in Backfills, StartBackfill(e) PROVE BudgetInv'
  <2> DEFINE t == [Idle EXCEPT !.at = "loop",
                      !.rest = {l \in Listings : place[l] # None}]
  <2>1. e \in Processes /\ task[e] = Idle /\ requests' = requests
    BY <1>3 DEF StartBackfill, Processes
  <2>2. task' = [task EXCEPT ![e] = t]
    BY <1>3, <2>1 DEF StartBackfill, BudgetInv
  <2>3. {"at", "attempt"} \subseteq DOMAIN t /\ t.at = "loop" /\ t.attempt = 1
    BY DEF Idle
  <2>4. requests[e] <= Allowed(t)
    BY <1>3, <2>1, <2>3, AllowedAtMost, LimitTypes DEF BudgetInv, Counted, Allowed
  <2>5. t.attempt \in 1..MaxAttempts
    BY <2>3, LimitTypes
  <2>. HIDE DEF t
  <2>6. QED
    BY <2>1, <2>2, <2>3, <2>4, <2>5, WithoutRequest
<1>4. ASSUME NEW e \in Scrapers, Detail(e) PROVE BudgetInv'
  <2>1. e \in Processes /\ e \notin Backfills /\ requests' = requests
    BY <1>4, ProcessesAssumption
    DEF Processes, Detail, CommitDetail, RollBackDetail, EnrichPersisted
  <2>2. /\ {"at", "attempt"} \subseteq DOMAIN Idle
        /\ Idle.attempt \in 1..MaxAttempts /\ Idle.at = "idle"
    BY LimitTypes DEF Idle
  <2>3. CASE \E l : Enrich(e, l, Idle)
    BY <2>1, <2>2, <2>3, EnrichBudget
  <2>4. CASE \E l : task' = [task EXCEPT ![e] =
                                [Idle EXCEPT !.at = "persisted", !.listing = l]]
    <3>1. PICK l : task' = [task EXCEPT ![e] = [Idle EXCEPT !.at = "persisted", !.listing = l]]
      BY <2>4
    <3> DEFINE t == [Idle EXCEPT !.at = "persisted", !.listing = l]
    <3>2. {"at", "attempt"} \subseteq DOMAIN t /\ t.attempt = 1
      BY DEF Idle
    <3>. HIDE DEF t
    <3>3. t.attempt \in 1..MaxAttempts
      BY <3>2, LimitTypes
    <3>4. QED
      BY <2>1, <3>1, <3>2, <3>3, WithoutRequest DEF t
  <2>5. CASE task' = [task EXCEPT ![e] = Idle]
    BY <2>1, <2>2, <2>5, WithoutRequest
  <2>6. QED
    BY <1>4, <2>3, <2>4, <2>5 DEF Detail, CommitDetail, RollBackDetail, EnrichPersisted
<1>5. ASSUME NEW e \in Scrapers, NEW l \in Listings, NEW p \in Places \cup {None},
             Persist(e, l, p)
      PROVE  BudgetInv'
  <2> DEFINE t == [Idle EXCEPT !.at = "persist", !.observed_at = now, !.listing = l, !.place = p]
  <2>1. e \in Processes /\ e \notin Backfills /\ requests' = requests
    BY <1>5, ProcessesAssumption DEF Processes, Persist
  <2>2. {"at", "attempt"} \subseteq DOMAIN t /\ t.attempt = 1
    BY DEF Idle
  <2>3. task' = [task EXCEPT ![e] = t]
    BY <1>5 DEF Persist
  <2>. HIDE DEF t
  <2>4. t.attempt \in 1..MaxAttempts
    BY <2>2, LimitTypes
  <2>5. QED
    BY <2>1, <2>2, <2>3, <2>4, WithoutRequest
<1>6. QED
  BY <1>1, <1>2, <1>3, <1>4, <1>5 DEF Next, vars

\* No client sends more requests than its limit, and no back-fill goes beyond
\* its own limit by more than the retries of one listing, for any numbers of
\* listings, places, processes and attempts and any limits.
THEOREM BudgetCorrect == Spec => []WithinBudget
<1>1. BudgetInv => WithinBudget
  <2> SUFFICES ASSUME BudgetInv, NEW e \in Processes
               PROVE  /\ requests[e] <= RequestLimit
                      /\ e \in Backfills => requests[e] <= BackfillLimit + MaxAttempts - 1
    BY DEF WithinBudget
  <2>1. Allowed(task[e]) <= BackfillLimit + MaxAttempts - 1
    BY AllowedAtMost
  <2>2. QED
    BY <2>1, LimitTypes DEF BudgetInv, Counted, Allowed
<1>2. QED
  BY <1>1, InitBudget, BudgetStep, PTL DEF Spec

-----------------------------------------------------------------------------
(* The rows *)

\* The rows are one for a place and mode, and a road row is older than the clock
\* and has the minutes of its place.
StampInv ==
    /\ \A r \in distance :
        /\ r.place # None
        /\ r.mode = "road" => r.at < now /\ r.minutes = Minutes(Seconds[r.place])
    /\ \A r, s \in distance :
        r.listing = s.listing /\ r.place = s.place /\ r.mode = s.mode => r = s

\* A listing has been located wherever it is and wherever it has a row.
LocatedInv ==
    /\ \A l \in Listings : place[l] # None => place[l] \in LocatedAt(l)
    /\ \A r \in distance : r.place \in LocatedAt(r.listing)

\* An air row r is the newest of its listing, and the road rows of its place are
\* newer than those of other places.
Newest(r) ==
    /\ \A s \in RowsOf(r.listing, "air") : s # r => s.at < r.at
    /\ \A s, t \in RowsOf(r.listing, "road") :
        s.place # r.place /\ t.place = r.place => s.at < t.at

CurrentInv(l) ==
    l \notin confused => \A r \in RowsOf(l, "air") : r.place = place[l] => Newest(r)

RowsInv ==
    /\ place \in [Listings -> Places \cup {None}]
    /\ distance \subseteq DistanceRow
    /\ now \in Nat
    /\ StampInv /\ LocatedInv
    /\ \A l \in Listings : CurrentInv(l)

-----------------------------------------------------------------------------
(* What a process has in hand *)

TaskRecord ==
    [at : {"idle", "persist", "persisted", "loop", "ask", "wait", "insert", "done", "aborted"},
     observed_at : Nat, listing : Listings \cup {None}, place : Places \cup {None},
     attempt : Nat, row : DistanceRow \cup {None}, rest : SUBSET Listings,
     considered : Nat, created : Nat, cache_hits : Nat, failed : Nat]

\* Who persists a detail has a listing.
Task == {t \in TaskRecord : t.at \in {"persist", "persisted"} => t.listing \in Listings}

\* Who asks for a route has a listing and where it was located, which is where it
\* is unless it is confused; the answer is for both and newer than what is known of
\* the roads from elsewhere.
InHand(t) ==
    Asking(t) =>
        /\ t.listing \in Listings /\ t.place \in Places \ {None}
        /\ t.place \in LocatedAt(t.listing)
        /\ t.listing \notin confused => t.place = place[t.listing]
        /\ t.at = "insert" =>
            /\ t.row \in DistanceRow /\ t.row.listing = t.listing /\ t.row.place = t.place
            /\ t.row.mode = "road" /\ t.row.minutes = Minutes(Seconds[t.place])
            /\ t.row.at < now
            /\ \A r \in RowsOf(t.listing, "road") :
                  t.listing \notin confused /\ r.place # t.place => r.at < t.row.at

ShownInv ==
    /\ RowsInv
    /\ task \in [Processes -> Task]
    /\ \A e \in Processes : InHand(task[e])

-----------------------------------------------------------------------------
(* What a back-fill has covered *)

\* A listing stays settled: it has been at two places, has moved back, has left
\* its only place, or has the road distance of where it is.
Settled(l) ==
    /\ LocatedAt(l) # {}
    /\ l \notin confused /\ LocatedAt(l) = {place[l]} => Cached(l, place[l], "road")

\* The listings D that a back-fill has considered: as many as it counts, none of
\* those left, and each settled unless it is in hand or something failed.
Considers(t, D) ==
    /\ Cardinality(D) = t.considered
    /\ D \cap t.rest = {}
    /\ \A l \in t.rest : LocatedAt(l) # {}
    /\ t.failed = 0 => \A l \in D : Settled(l) \/ (Asking(t) /\ l = t.listing)

\* Every listing considered is reported at most once, and created by a request.
Reports(t, sent) ==
    /\ t.created + t.cache_hits + t.failed + (IF Asking(t) THEN 1 ELSE 0) <= t.considered
    /\ t.created + (IF t.at \in {"wait", "insert"} THEN 1 ELSE 0) <= sent

Covers(t, sent) ==
    t.at # "aborted" => Reports(t, sent) /\ \E D \in SUBSET Listings : Considers(t, D)

CoverInv ==
    /\ requests \in [Processes -> Nat]
    /\ \A e \in Backfills : Covers(task[e], requests[e])

-----------------------------------------------------------------------------
(* Steps of the rows *)

\* What every step keeps of the rows for those who have looked at them before.
Kept ==
    /\ now <= now'
    /\ \A l \in Listings : LocatedAt(l) \subseteq LocatedAt(l)'
    /\ \A l \in Listings : l \notin confused' => l \notin confused
    /\ \A e \in Processes, l \in Listings :
        Asking(task[e]) /\ task[e].listing = l /\ l \notin confused' =>
            /\ place'[l] = place[l]
            /\ \A r \in RowsOf(l, "road")' : r \in RowsOf(l, "road") \/ r.place = place[l]
    /\ \A l \in Listings : Settled(l) => Settled(l)'

\* Coordinates that are written again change nothing.
LEMMA LocateAgain ==
  ASSUME ShownInv, NEW e, NEW l \in Listings, NEW p, Locate(e, l, p), place[l] = p
  PROVE  UNCHANGED <<place, distance, confused>>
<1>1. p # None => Cached(l, p, "air")
  BY DEF ShownInv, RowsInv, LocatedInv, LocatedAt, Cached
<1>2. place' = place
  BY DEF Locate, ShownInv, RowsInv
<1>3. QED
  BY <1>1, <1>2 DEF Locate

LEMMA LocateRows ==
  ASSUME ShownInv, NEW e, NEW l \in Listings, NEW p \in Places \cup {None}, Locate(e, l, p),
         place[l] # p, now' = now, NEW stamp \in Nat, stamp = task[e].observed_at
  PROVE  RowsInv' /\ Kept
<1>0. PICK r0 : r0 = [listing |-> l, place |-> p, mode |-> "air", minutes |-> None, at |-> stamp]
  OBVIOUS
<1>1. /\ now \in Nat /\ now' = now
      /\ place' = [place EXCEPT ![l] = p] /\ place'[l] = p
      /\ \A m \in Listings : m # l => place'[m] = place[m]
      /\ place' \in [Listings -> Places \cup {None}]
  BY DEF Locate, ShownInv, RowsInv
<1>2. /\ confused \subseteq confused' /\ (p \in LocatedAt(l) => l \in confused')
      /\ \A f \in Processes : Asking(task[f]) /\ task[f].listing = l => l \in confused'
      /\ \A m \in Listings : m # l => (m \in confused' <=> m \in confused)
      /\ p # None /\ l \notin confused' => \A r \in RowsOf(l, "air") : ~ (r.at >= stamp)
  BY DEF Locate, Misleads
<1>3. \A m \in Listings : m \notin confused' => m \notin confused
  BY <1>2
<1>4. CASE p = None \/ Cached(l, p, "air")
  <2>1. distance' = distance
    BY <1>4 DEF Locate
  <2>2. \A m, mode : RowsOf(m, mode)' = RowsOf(m, mode)
    BY <2>1 DEF RowsOf
  <2>3. \A m : LocatedAt(m)' = LocatedAt(m)
    BY <2>2 DEF LocatedAt
  <2>4. p # None => p \in LocatedAt(l)
    BY <1>4 DEF Cached, LocatedAt
  <2>5. None \notin LocatedAt(l)
    BY DEF LocatedAt, RowsOf, ShownInv, RowsInv, StampInv
  <2>6. StampInv'
    BY <1>1, <2>1 DEF ShownInv, RowsInv, StampInv, DistanceRow
  <2>7. LocatedInv'
    BY <1>1, <2>1, <2>3, <2>4 DEF ShownInv, RowsInv, LocatedInv
  <2>8. ASSUME NEW m \in Listings
        PROVE  CurrentInv(m)'
    <3>1. \A r : Newest(r)' = Newest(r)
      BY <2>2 DEF Newest
    <3>2. CASE m # l
      BY <1>1, <1>3, <2>2, <3>1, <3>2 DEF ShownInv, RowsInv, CurrentInv
    <3>3. CASE m = l
      <4>1. l \notin confused' => p = None
        BY <1>2, <2>4
      <4>2. \A r \in RowsOf(l, "air") : r.place # None
        BY <2>5 DEF LocatedAt
      <4>3. QED
        BY <1>1, <2>2, <3>3, <4>1, <4>2 DEF CurrentInv
    <3>4. QED
      BY <3>2, <3>3
  <2>9. RowsInv'
    BY <1>1, <2>1, <2>6, <2>7, <2>8 DEF ShownInv, RowsInv
  <2>10. ASSUME NEW m \in Listings, Settled(m)
         PROVE  Settled(m)'
    <3>1. Cached(m, place[m], "road")' => \E r \in RowsOf(m, "road") : r.place = place'[m]
      BY <2>2 DEF Cached
    <3>2. CASE m # l
      BY <1>1, <1>3, <2>2, <2>3, <2>10, <3>2 DEF Settled, Cached
    <3>3. CASE m = l
      <4>1. LocatedAt(l) # {} /\ ~ (l \notin confused' /\ LocatedAt(l) = {p})
        BY <1>2, <2>5, <2>10, <3>3 DEF Settled
      <4>2. QED
        BY <1>1, <2>3, <3>3, <4>1 DEF Settled
    <3>4. QED
      BY <3>2, <3>3
  <2>11. Kept
    BY <1>1, <1>2, <1>3, <2>2, <2>3, <2>10 DEF Kept
  <2>12. QED
    BY <2>9, <2>11
<1>5. CASE p # None /\ ~Cached(l, p, "air")
  <2>1. distance' = distance \cup {r0} /\ r0 \in DistanceRow
    BY <1>0, <1>1, <1>5 DEF Locate, DistanceRow
  <2>2. /\ RowsOf(l, "air")' = RowsOf(l, "air") \cup {r0}
        /\ \A m \in Listings : m # l => RowsOf(m, "air")' = RowsOf(m, "air")
        /\ \A m \in Listings : RowsOf(m, "road")' = RowsOf(m, "road")
    BY <1>0, <2>1 DEF RowsOf
  <2>3. /\ LocatedAt(l)' = LocatedAt(l) \cup {p}
        /\ \A m \in Listings : m # l => LocatedAt(m)' = LocatedAt(m)
    BY <1>0, <2>2 DEF LocatedAt
  <2>4. p \notin LocatedAt(l)
    BY <1>5 DEF Cached, LocatedAt
  <2>5. StampInv'
    <3>1. ASSUME NEW s \in distance, s.listing = l, s.place = p, s.mode = "air"
          PROVE  FALSE
      BY <1>5, <3>1 DEF Cached, RowsOf
    <3>2. \A r, s \in distance' :
            r.listing = s.listing /\ r.place = s.place /\ r.mode = s.mode => r = s
      <4>1. r0.listing = l /\ r0.place = p /\ r0.mode = "air"
        BY <1>0
      <4>2. QED
        BY <2>1, <3>1, <4>1 DEF ShownInv, RowsInv, StampInv
    <3>3. ASSUME NEW r \in distance'
          PROVE  r.place # None /\ (r.mode = "road" =>
                    r.at < now' /\ r.minutes = Minutes(Seconds[r.place]))
      <4>1. CASE r \in distance
        BY <1>1, <4>1 DEF ShownInv, RowsInv, StampInv, DistanceRow
      <4>2. CASE r = r0
        BY <1>0, <1>1, <1>5, <4>2
      <4>3. QED
        BY <2>1, <3>3, <4>1, <4>2
    <3>4. QED
      BY <3>2, <3>3 DEF StampInv
  <2>6. LocatedInv'
    <3>1. \A m \in Listings : place'[m] # None => place'[m] \in LocatedAt(m)'
      BY <1>1, <2>3 DEF ShownInv, RowsInv, LocatedInv
    <3>2. ASSUME NEW r \in distance'
          PROVE  r.place \in LocatedAt(r.listing)'
      <4>1. CASE r \in distance
        <5>1. r.listing \in Listings /\ r.place \in LocatedAt(r.listing)
          BY <4>1 DEF ShownInv, RowsInv, LocatedInv, DistanceRow
        <5>2. QED
          BY <2>3, <5>1
      <4>2. CASE r = r0
        BY <1>0, <2>3, <4>2
      <4>3. QED
        BY <2>1, <3>2, <4>1, <4>2
    <3>3. QED
      BY <3>1, <3>2 DEF LocatedInv
  <2>7. ASSUME NEW m \in Listings
        PROVE  CurrentInv(m)'
    <3>1. CASE m # l
      <4>1. \A r \in RowsOf(m, "air") : Newest(r)' = Newest(r)
        BY <2>2, <3>1 DEF Newest, RowsOf
      <4>2. QED
        BY <1>1, <1>3, <2>2, <3>1, <4>1 DEF ShownInv, RowsInv, CurrentInv
    <3>2. CASE m = l
      <4>1. ASSUME NEW r \in RowsOf(l, "air")', r.place = p
            PROVE  r = r0
        BY <1>0, <2>2, <2>4, <4>1 DEF LocatedAt
      <4>2. ASSUME l \notin confused'
            PROVE  \A s \in RowsOf(l, "air")' : s # r0 => s.at < r0.at
        <5>1. \A s \in RowsOf(l, "air") : s.at \in Nat
          BY DEF RowsOf, ShownInv, RowsInv, DistanceRow
        <5>2. QED
          BY <1>0, <1>2, <1>5, <2>2, <4>2, <5>1
      <4>3. \A s \in RowsOf(l, "road")' : s.place # p
        BY <2>2, <2>4 DEF RowsOf, ShownInv, RowsInv, LocatedInv
      <4>4. l \notin confused' => Newest(r0)'
        BY <1>0, <4>2, <4>3 DEF Newest
      <4>5. QED
        BY <1>1, <3>2, <4>1, <4>4 DEF CurrentInv
    <3>3. QED
      BY <3>1, <3>2
  <2>8. RowsInv'
    BY <1>1, <2>1, <2>5, <2>6, <2>7 DEF ShownInv, RowsInv
  <2>9. ASSUME NEW m \in Listings, Settled(m)
        PROVE  Settled(m)'
    <3>1. CASE m # l
      <4>1. /\ LocatedAt(m)' = LocatedAt(m) /\ place'[m] = place[m]
            /\ RowsOf(m, "road")' = RowsOf(m, "road")
        BY <1>1, <2>2, <2>3, <3>1
      <4>2. Cached(m, place[m], "road")' = Cached(m, place[m], "road")
        BY <4>1 DEF Cached
      <4>3. QED
        BY <1>3, <2>9, <4>1, <4>2 DEF Settled
    <3>2. CASE m = l
      <4>1. LocatedAt(l)' # {} /\ LocatedAt(l)' # {p}
        BY <2>3, <2>4, <2>9, <3>2 DEF Settled
      <4>2. QED
        BY <1>1, <3>2, <4>1 DEF Settled
    <3>3. QED
      BY <3>1, <3>2
  <2>10. Kept
    <3>1. ASSUME NEW f \in Processes, NEW m \in Listings, Asking(task[f]),
                 task[f].listing = m, m \notin confused'
          PROVE  place'[m] = place[m] /\ RowsOf(m, "road")' = RowsOf(m, "road")
      BY <1>1, <1>2, <2>2, <3>1
    <3>2. QED
      BY <1>1, <1>3, <2>3, <2>9, <3>1 DEF Kept
  <2>11. QED
    BY <2>8, <2>10
<1>6. QED
  BY <1>4, <1>5

LEMMA InsertRows ==
  ASSUME ShownInv, NEW e \in Processes, Insert(e),
         NEW l0, l0 = task[e].listing, NEW p0, p0 = task[e].place
  PROVE  RowsInv' /\ Kept /\ Cached(l0, p0, "road")'
<1>0. PICK r0 : r0 = task[e].row
  OBVIOUS
<1>1. /\ distance' = distance \cup {r0} /\ UNCHANGED <<place, now, confused>>
      /\ Asking(task[e]) /\ task[e].at = "insert"
      /\ \A r, s \in distance' :
            r.listing = s.listing /\ r.place = s.place /\ r.mode = s.mode => r = s
  BY <1>0 DEF Insert, Schema!DistanceRows, Asking
<1>2. /\ r0 \in DistanceRow /\ l0 \in Listings /\ r0.listing = l0 /\ r0.place = p0
      /\ r0.place # None /\ r0.place \in LocatedAt(l0)
      /\ r0.mode = "road" /\ r0.at < now /\ r0.minutes = Minutes(Seconds[r0.place])
      /\ l0 \notin confused => r0.place = place[l0]
      /\ \A r \in RowsOf(l0, "road") : l0 \notin confused /\ r.place # r0.place => r.at < r0.at
  BY <1>0, <1>1 DEF ShownInv, InHand
<1>3. /\ \A m : RowsOf(m, "air")' = RowsOf(m, "air")
      /\ RowsOf(l0, "road")' = RowsOf(l0, "road") \cup {r0}
      /\ \A m : m # l0 => RowsOf(m, "road")' = RowsOf(m, "road")
  BY <1>1, <1>2 DEF RowsOf
<1>4. \A m : LocatedAt(m)' = LocatedAt(m)
  BY <1>3 DEF LocatedAt
<1>5. StampInv'
  BY <1>1, <1>2 DEF ShownInv, RowsInv, StampInv
<1>6. LocatedInv'
  BY <1>1, <1>2, <1>4 DEF ShownInv, RowsInv, LocatedInv
<1>7. ASSUME NEW m \in Listings
      PROVE  CurrentInv(m)'
  <2>1. ASSUME NEW r \in RowsOf(m, "air"), m \notin confused, r.place = place[m]
        PROVE  Newest(r)'
    <3>1. Newest(r) /\ r.listing = m
      BY <2>1 DEF ShownInv, RowsInv, CurrentInv, RowsOf
    <3>2. CASE m # l0
      BY <1>3, <3>1, <3>2 DEF Newest
    <3>3. CASE m = l0
      <4>1. /\ r0.place = r.place
            /\ \A s \in RowsOf(l0, "road") : s.place # r.place => s.at < r0.at
        BY <1>2, <2>1, <3>3
      <4>2. QED
        BY <1>3, <3>1, <3>3, <4>1 DEF Newest
    <3>4. QED
      BY <3>2, <3>3
  <2>2. QED
    BY <1>1, <1>3, <2>1 DEF CurrentInv
<1>8. RowsInv'
  BY <1>1, <1>2, <1>5, <1>6, <1>7 DEF ShownInv, RowsInv
<1>9. ASSUME NEW m \in Listings, Settled(m)
      PROVE  Settled(m)'
  <2>1. RowsOf(m, "road") \subseteq RowsOf(m, "road")'
    BY <1>3
  <2>2. Cached(m, place[m], "road") => Cached(m, place[m], "road")'
    BY <1>1, <2>1 DEF Cached
  <2>3. QED
    BY <1>1, <1>4, <1>9, <2>2 DEF Settled
<1>10. Kept
  <2>1. \A m \in Listings : \A r \in RowsOf(m, "road")' :
          m \notin confused => r \in RowsOf(m, "road") \/ r.place = place[m]
    BY <1>2, <1>3
  <2>2. now \in Nat
    BY DEF ShownInv, RowsInv
  <2>3. QED
    BY <1>1, <1>4, <1>9, <2>1, <2>2 DEF Kept
<1>11. Cached(l0, p0, "road")'
  BY <1>2, <1>3 DEF Cached
<1>12. QED
  BY <1>8, <1>10, <1>11


-----------------------------------------------------------------------------
(* Steps of the processes *)

\* Others keep what they have in hand while the rows are kept.
LEMMA HandKept ==
  ASSUME ShownInv, Kept, RowsInv', NEW e \in Processes, NEW t, t = task[e]
  PROVE  InHand(t)'
<1>1. SUFFICES ASSUME Asking(t)
               PROVE  InHand(t)'
  BY DEF InHand, Asking
<1>2. InHand(t) /\ t.listing \in Listings
  BY <1>1 DEF ShownInv, InHand
<1>3. PICK l \in Listings : l = t.listing
  BY <1>2
<1>4. /\ LocatedAt(l) \subseteq LocatedAt(l)'
      /\ l \notin confused' => /\ l \notin confused /\ place'[l] = place[l]
                               /\ \A r \in RowsOf(l, "road")' :
                                      r \in RowsOf(l, "road") \/ r.place = place[l]
      /\ now \in Nat /\ now' \in Nat /\ now <= now'
  <2>1. Asking(task[e]) /\ task[e].listing = l
    BY <1>1, <1>3
  <2>2. now \in Nat /\ now' \in Nat
    BY DEF ShownInv, RowsInv
  <2>3. QED
    BY <2>1, <2>2 DEF Kept
<1>5. t.at = "insert" => t.row.at < now'
  BY <1>1, <1>2, <1>4 DEF InHand, DistanceRow
<1>6. QED
  BY <1>1, <1>2, <1>3, <1>4, <1>5 DEF InHand

\* A step of one process.
LEMMA ProcessStep ==
  ASSUME ShownInv, Kept, RowsInv', NEW e \in Processes, NEW t \in Task,
         task' = [task EXCEPT ![e] = t], InHand(t)'
  PROVE  ShownInv'
<1>1. task' \in [Processes -> Task] /\ task'[e] = t
  BY DEF ShownInv
<1>2. \A f \in Processes \ {e} : task'[f] = task[f]
  BY DEF ShownInv
<1>3. ASSUME NEW f \in Processes \ {e}
      PROVE  InHand(task[f])'
  <2>1. PICK u : u = task[f]
    OBVIOUS
  <2>2. InHand(u)'
    BY <2>1, HandKept
  <2>3. task'[f] = u
    BY <1>2, <2>1
  <2>4. QED
    BY <2>2, <2>3
<1>4. InHand(task[e])'
  BY <1>1
<1>5. QED
  BY <1>1, <1>3, <1>4 DEF ShownInv

\* A step that leaves the rows alone, but for the clock.
LEMMA RowsStay ==
  ASSUME ShownInv, UNCHANGED <<place, distance, confused>>, now' = now \/ now' = now + 1
  PROVE  /\ RowsInv' /\ Kept
         /\ \A l, mode : RowsOf(l, mode)' = RowsOf(l, mode)
         /\ \A l : LocatedAt(l)' = LocatedAt(l)
<1>1. \A l, mode : RowsOf(l, mode)' = RowsOf(l, mode)
  BY DEF RowsOf
<1>2. \A l : LocatedAt(l)' = LocatedAt(l)
  BY <1>1 DEF LocatedAt
<1>3. now \in Nat /\ now' \in Nat /\ now <= now'
  BY DEF ShownInv, RowsInv
<1>4. StampInv'
  BY <1>3 DEF ShownInv, RowsInv, StampInv, DistanceRow
<1>5. LocatedInv'
  BY <1>2 DEF ShownInv, RowsInv, LocatedInv
<1>6. \A r : Newest(r)' = Newest(r)
  BY <1>1 DEF Newest
<1>7. \A l \in Listings : CurrentInv(l)'
  BY <1>1, <1>6 DEF ShownInv, RowsInv, CurrentInv
<1>8. RowsInv'
  BY <1>3, <1>4, <1>5, <1>7 DEF ShownInv, RowsInv
<1>9. ASSUME NEW l \in Listings, Settled(l)
      PROVE  Settled(l)'
  <2>1. Cached(l, place[l], "road")' = Cached(l, place[l], "road")
    BY <1>1 DEF Cached
  <2>2. QED
    BY <1>2, <1>9, <2>1 DEF Settled
<1>10. Kept
  BY <1>1, <1>2, <1>3, <1>9 DEF Kept, ShownInv, RowsInv
<1>11. QED
  BY <1>1, <1>2, <1>8, <1>10

LEMMA IdleTask == Idle \in Task /\ ~Asking(Idle)
BY DEF Idle, Task, TaskRecord, Asking

\* A process that asks for nothing has nothing in hand.
LEMMA FreeHand ==
  ASSUME NEW t, ~Asking(t)
  PROVE  InHand(t) /\ InHand(t)'
BY DEF InHand, Asking

\* What a process becomes by a result.
Returned(e, created, hit, failed) ==
    IF e \in Scrapers THEN Idle
    ELSE [task[e] EXCEPT !.at = "loop", !.listing = None, !.place = None, !.row = None,
                         !.created = task[e].created + created,
                         !.cache_hits = task[e].cache_hits + hit,
                         !.failed = task[e].failed + failed]

LEMMA ReturnTask ==
  ASSUME ShownInv, NEW e \in Processes, NEW created \in Nat, NEW hit \in Nat, NEW failed \in Nat
  PROVE  /\ Returned(e, created, hit, failed) \in Task
         /\ ~Asking(Returned(e, created, hit, failed))
         /\ Return(e, created, hit, failed)
              => task' = [task EXCEPT ![e] = Returned(e, created, hit, failed)]
<1>1. CASE e \in Scrapers
  BY <1>1, IdleTask DEF Returned, Return
<1>2. CASE e \notin Scrapers
  <2> DEFINE t == [task[e] EXCEPT !.at = "loop", !.listing = None, !.place = None, !.row = None,
                         !.created = task[e].created + created,
                         !.cache_hits = task[e].cache_hits + hit,
                         !.failed = task[e].failed + failed]
  <2>1. task[e] \in Task
    BY DEF ShownInv
  <2>2. t \in Task /\ t.at = "loop"
    <3>1. PICK old \in Task : old = task[e]
      BY <2>1
    <3>2. PICK c \in Nat, i \in Nat, f \in Nat :
            c = old.created + created /\ i = old.cache_hits + hit /\ f = old.failed + failed
      BY DEF Task, TaskRecord
    <3>3. t = [old EXCEPT !.at = "loop", !.listing = None, !.place = None, !.row = None,
                          !.created = c, !.cache_hits = i, !.failed = f]
      BY <3>1, <3>2
    <3>. HIDE DEF t
    <3>4. QED
      BY <3>3 DEF Task, TaskRecord
  <2>3. Returned(e, created, hit, failed) = t
    BY <1>2 DEF Returned
  <2>4. Return(e, created, hit, failed) => task' = [task EXCEPT ![e] = t]
    BY <1>2 DEF Return
  <2>5. QED
    BY <2>2, <2>3, <2>4 DEF Asking
<1>3. QED
  BY <1>1, <1>2


\* One of the listings left has the least id.
LEMMA NextIsLeft ==
  ASSUME ShownInv, NEW e \in Processes, task[e].rest # {}
  PROVE  NextId(e) \in task[e].rest /\ NextId(e) \in Listings
<1> DEFINE R == task[e].rest
           T == {ListingId[l] : l \in R}
           Less == {ss \in Nat \X Nat : ss[1] < ss[2]}
<1>1. IsWellFoundedOn(Less, Nat)
  BY NatLessThanWellFounded DEF OpToRel
<1>2. R \in SUBSET Listings
  BY DEF ShownInv, Task, TaskRecord
<1>3. T \subseteq Nat /\ T # {}
  BY <1>2, ListingsAssumption
<1>4. PICK n \in T : \A m \in T : ~ (<<m, n>> \in Less)
  <2>. HIDE DEF T, Less
  <2>1. QED
    BY <1>1, <1>3, WFMin
<1>5. \A m \in T : n <= m
  <2>1. \A a, b \in Nat : a < b => <<a, b>> \in Less
    OBVIOUS
  <2>. HIDE DEF T, Less
  <2>2. n \in Nat /\ \A m \in T : m \in Nat /\ ~ (<<m, n>> \in Less)
    BY <1>3, <1>4
  <2>3. \A m \in T : ~ (m < n)
    BY <2>1, <2>2
  <2>4. QED
    BY <2>2, <2>3
<1>6. PICK l \in R : \A m \in R : ListingId[l] <= ListingId[m]
  BY <1>5
<1>7. QED
  BY <1>2, <1>6 DEF NextId

\* What is in hand stays in hand while the rows stay.
LEMMA HandStays ==
  ASSUME ShownInv, UNCHANGED <<place, distance, confused>>, now' = now \/ now' = now + 1,
         NEW t \in Task, InHand(t)
  PROVE  InHand(t)'
<1>1. SUFFICES ASSUME Asking(t) PROVE InHand(t)'
  BY DEF InHand, Asking
<1>2. /\ \A l, mode : RowsOf(l, mode)' = RowsOf(l, mode)
      /\ \A l : LocatedAt(l)' = LocatedAt(l)
  BY RowsStay
<1>3. now \in Nat
  BY DEF ShownInv, RowsInv
<1>4. t.at = "insert" => t.row.at < now'
  BY <1>1, <1>3 DEF InHand, DistanceRow
<1>5. QED
  BY <1>1, <1>2, <1>4 DEF InHand

\* enrich: a listing without coordinates is passed over, one with a road row is a
\* hit, and any other is taken in hand with where it is.
Enriched(e, l, before, t) ==
    \/ t = before /\ (place[l] = None \/ e \in Scrapers)
    \/ /\ t = [before EXCEPT !.cache_hits = @ + 1] /\ e \notin Scrapers
       /\ place[l] # None /\ Cached(l, place[l], "road")
    \/ /\ t = [before EXCEPT !.at = "ask", !.listing = l, !.place = place[l], !.attempt = 1]
       /\ place[l] # None

LEMMA EnrichTask ==
  ASSUME ShownInv, NEW e \in Processes, NEW l \in Listings, NEW before \in Task,
         ~Asking(before), Enrich(e, l, before)
  PROVE  \E t \in Task :
            task' = [task EXCEPT ![e] = t] /\ InHand(t) /\ Enriched(e, l, before, t)
<1>1. CASE place[l] = None
  <2>1. before = [before EXCEPT !.cache_hits = @]
    BY DEF Task, TaskRecord
  <2>2. task' = [task EXCEPT ![e] = before]
    BY <1>1, <2>1 DEF Enrich
  <2>3. QED
    BY <1>1, <2>2, FreeHand DEF Enriched
<1>2. CASE place[l] # None /\ Lookup(l, place[l])
  <2>1. CASE e \in Scrapers
    BY <1>2, <2>1, FreeHand DEF Enrich, Enriched
  <2>2. CASE e \notin Scrapers
    <3> DEFINE t == [before EXCEPT !.cache_hits = @ + 1]
    <3>1. task' = [task EXCEPT ![e] = t]
      BY <1>2, <2>2 DEF Enrich
    <3>2. t \in Task /\ ~Asking(t)
      BY DEF Task, TaskRecord, Asking
    <3>3. QED
      BY <1>2, <2>2, <3>1, <3>2, FreeHand DEF Lookup, Enriched
  <2>3. QED
    BY <2>1, <2>2
<1>3. CASE place[l] # None /\ ~Lookup(l, place[l])
  <2> DEFINE t == [before EXCEPT !.at = "ask", !.listing = l, !.place = place[l], !.attempt = 1]
  <2>1. task' = [task EXCEPT ![e] = t]
    BY <1>3 DEF Enrich
  <2>2. place[l] \in Places \ {None} /\ place[l] \in LocatedAt(l)
    BY <1>3 DEF ShownInv, RowsInv, LocatedInv
  <2>3. t \in Task /\ t.at = "ask" /\ t.listing = l /\ t.place = place[l]
    BY <2>2 DEF Task, TaskRecord
  <2>. HIDE DEF t
  <2>4. InHand(t)
    BY <2>2, <2>3 DEF InHand
  <2>5. QED
    BY <1>3, <2>1, <2>3, <2>4 DEF t, Enriched
<1>4. QED
  BY <1>1, <1>2, <1>3

-----------------------------------------------------------------------------
(* What is shown is current *)

LEMMA InitShown == Init => ShownInv
<1> SUFFICES ASSUME Init PROVE ShownInv
  OBVIOUS
<1>1. task \in [Processes -> Task] /\ \A e \in Processes : InHand(task[e])
  BY IdleTask, FreeHand DEF Init
<1>2. RowsInv
  BY DEF Init, RowsInv, StampInv, LocatedInv, CurrentInv, RowsOf
<1>3. QED
  BY <1>1, <1>2 DEF ShownInv

\* A step of a process with the rows left alone.
LEMMA LocalStep ==
  ASSUME ShownInv, UNCHANGED <<place, distance, confused>>, now' = now \/ now' = now + 1,
         NEW e \in Processes, NEW t \in Task, task' = [task EXCEPT ![e] = t],
         InHand(t) \/ InHand(t)'
  PROVE  ShownInv' /\ Kept
BY RowsStay, HandStays, ProcessStep

\* What the actions of one process in hand with a listing make of its record.
LEMMA AskTask ==
  ASSUME ShownInv, NEW e \in Processes, Ask(e) \/ Retry(e)
  PROVE  \E t \in Task :
            /\ task' = [task EXCEPT ![e] = t] /\ InHand(t)
            /\ Asking(task[e]) /\ Asking(t) /\ t.at \in {"ask", "wait"}
            /\ t = [task[e] EXCEPT !.at = t.at, !.attempt = t.attempt]
<1>1. task[e] \in Task /\ InHand(task[e])
  BY DEF ShownInv
<1>2. CASE Ask(e)
  <2> DEFINE t == [task[e] EXCEPT !.at = "wait"]
  <2>1. task' = [task EXCEPT ![e] = t] /\ Asking(task[e])
    BY <1>2 DEF Ask, Asking
  <2>2. t \in Task /\ t.at = "wait" /\ t = [task[e] EXCEPT !.at = t.at, !.attempt = t.attempt]
    BY <1>1 DEF Task, TaskRecord
  <2>3. t.listing = task[e].listing /\ t.place = task[e].place
    BY <1>1 DEF Task, TaskRecord
  <2>. HIDE DEF t
  <2>4. InHand(t) /\ Asking(t)
    BY <1>1, <2>1, <2>2, <2>3 DEF InHand, Asking
  <2>5. QED
    BY <2>1, <2>2, <2>4
<1>3. CASE Retry(e)
  <2>0. PICK n \in Nat : n = task[e].attempt + 1
    BY <1>1 DEF Task, TaskRecord
  <2> DEFINE t == [task[e] EXCEPT !.at = "ask", !.attempt = n]
  <2>1. task' = [task EXCEPT ![e] = t] /\ Asking(task[e])
    BY <1>3, <2>0 DEF Retry, Asking
  <2>2. t \in Task /\ t.at = "ask" /\ t = [task[e] EXCEPT !.at = t.at, !.attempt = t.attempt]
    BY <1>1 DEF Task, TaskRecord
  <2>3. t.listing = task[e].listing /\ t.place = task[e].place
    BY <1>1 DEF Task, TaskRecord
  <2>. HIDE DEF t
  <2>4. InHand(t) /\ Asking(t)
    BY <1>1, <2>1, <2>2, <2>3 DEF InHand, Asking
  <2>5. QED
    BY <2>1, <2>2, <2>4
<1>4. QED
  BY <1>2, <1>3

LEMMA AnswerTask ==
  ASSUME ShownInv, NEW e \in Processes, Answer(e)
  PROVE  \E t \in Task :
            /\ task' = [task EXCEPT ![e] = t] /\ InHand(t)'
            /\ Asking(task[e]) /\ Asking(t) /\ t.at = "insert" /\ task[e].at = "wait"
            /\ t = [task[e] EXCEPT !.at = t.at, !.row = t.row]
<1>1. task[e] \in Task /\ InHand(task[e]) /\ Asking(task[e])
  BY DEF ShownInv, Answer, Asking
<1>2. PICK r0 : r0 = [listing |-> task[e].listing, place |-> task[e].place, mode |-> "road",
                      minutes |-> Minutes(Seconds[task[e].place]), at |-> now]
  OBVIOUS
<1>3. PICK l \in Listings, p \in Places \ {None} : l = task[e].listing /\ p = task[e].place
  BY <1>1 DEF InHand
<1>4. now \in Nat /\ now' = now + 1 /\ UNCHANGED <<place, distance, confused>>
  BY DEF Answer, ShownInv, RowsInv, dbVars
<1>5. Minutes(Seconds[p]) \in Nat
  BY SecondsAssumption DEF Minutes
<1>6. r0 \in DistanceRow
  BY <1>2, <1>3, <1>4, <1>5 DEF DistanceRow
<1> DEFINE t == [task[e] EXCEPT !.at = "insert", !.row = r0]
<1>7. task' = [task EXCEPT ![e] = t] /\ task[e].at = "wait"
  BY <1>2 DEF Answer
<1>8. /\ t \in Task /\ t.at = "insert" /\ t.row = r0 /\ t.listing = l /\ t.place = p
      /\ t = [task[e] EXCEPT !.at = t.at, !.row = t.row]
  BY <1>1, <1>3, <1>6 DEF Task, TaskRecord
<1>9. PICK u \in Task : u = t
  BY <1>8
<1>. HIDE DEF t
<1>10. /\ \A m, mode : RowsOf(m, mode)' = RowsOf(m, mode)
       /\ \A m : LocatedAt(m)' = LocatedAt(m)
  BY <1>4, RowsStay
<1>11. \A r \in RowsOf(l, "road") : r.at < now
  BY DEF ShownInv, RowsInv, StampInv, RowsOf
<1>12. /\ p \in LocatedAt(l) /\ (l \notin confused => p = place[l])
  BY <1>1, <1>3 DEF InHand
<1>13. InHand(u)'
  BY <1>2, <1>3, <1>4, <1>6, <1>8, <1>9, <1>10, <1>11, <1>12 DEF InHand
<1>14. QED
  BY <1>1, <1>7, <1>8, <1>9, <1>13 DEF Asking


\* NextListing: the end, or the listing of the least id is enriched.
LEMMA NextTask ==
  ASSUME ShownInv, NEW e \in Processes, NextListing(e)
  PROVE  \/ \E t \in Task : /\ task' = [task EXCEPT ![e] = t] /\ ~Asking(t)
                            /\ t = [task[e] EXCEPT !.at = "done"]
         \/ \E before \in Task :
              /\ task[e].rest # {} /\ ~Asking(before)
              /\ before = [task[e] EXCEPT !.rest = @ \ {NextId(e)}, !.considered = @ + 1]
              /\ Enrich(e, NextId(e), before)
<1>1. task[e] \in Task /\ task[e].at = "loop"
  BY DEF ShownInv, NextListing
<1>2. CASE task' = [task EXCEPT ![e].at = "done"]
  <2> DEFINE t == [task[e] EXCEPT !.at = "done"]
  <2>1. t \in Task /\ ~Asking(t)
    BY <1>1 DEF Task, TaskRecord, Asking
  <2>2. QED
    BY <1>2, <2>1
<1>3. CASE ~(task[e].rest = {} \/ requests[e] >= BackfillLimit)
  <2> DEFINE before == [task[e] EXCEPT !.rest = @ \ {NextId(e)}, !.considered = @ + 1]
  <2>1. before \in Task /\ before.at = "loop"
    <3>1. PICK old \in Task, n \in Nat, rest \in SUBSET Listings :
            old = task[e] /\ n = old.considered + 1 /\ rest = old.rest \ {NextId(e)}
      <4>1. task[e].considered + 1 \in Nat
        BY <1>1 DEF Task, TaskRecord
      <4>2. task[e].rest \ {NextId(e)} \in SUBSET Listings
        BY <1>1 DEF Task, TaskRecord
      <4>3. QED
        BY <1>1, <4>1, <4>2
    <3>2. before = [old EXCEPT !.rest = rest, !.considered = n] /\ old.at = "loop"
      BY <1>1, <3>1
    <3>. HIDE DEF before
    <3>3. QED
      BY <3>2 DEF Task, TaskRecord
  <2>2. Enrich(e, NextId(e), before)
    BY <1>3 DEF NextListing
  <2>3. QED
    BY <1>3, <2>1, <2>2 DEF Asking
<1>4. QED
  BY <1>2, <1>3 DEF NextListing

LEMMA WorkShown ==
  ASSUME ShownInv, NEW e \in Processes, Work(e)
  PROVE  ShownInv' /\ Kept
<1>1. CASE NextListing(e)
  <2>1. UNCHANGED <<place, distance, confused>> /\ now' = now
    BY <1>1 DEF NextListing, dbVars
  <2>2. CASE \E t \in Task : task' = [task EXCEPT ![e] = t] /\ ~Asking(t)
    BY <2>1, <2>2, LocalStep, FreeHand
  <2>3. ASSUME NEW before \in Task, task[e].rest # {}, ~Asking(before),
               Enrich(e, NextId(e), before)
        PROVE  ShownInv' /\ Kept
    <3>1. PICK l \in Listings : l = NextId(e)
      BY <2>3, NextIsLeft
    <3>2. PICK t \in Task : task' = [task EXCEPT ![e] = t] /\ InHand(t)
      BY <2>3, <3>1, EnrichTask
    <3>3. QED
      BY <2>1, <3>2, LocalStep
  <2>4. QED
    BY <1>1, <2>2, <2>3, NextTask
<1>2. CASE Ask(e) \/ Retry(e)
  <2>1. UNCHANGED <<place, distance, confused>> /\ now' = now
    BY <1>2 DEF Ask, Retry, dbVars
  <2>2. QED
    BY <1>2, <2>1, AskTask, LocalStep
<1>3. CASE Answer(e)
  <2>1. UNCHANGED <<place, distance, confused>> /\ now' = now + 1
    BY <1>3 DEF Answer, dbVars
  <2>2. QED
    BY <1>3, <2>1, AnswerTask, LocalStep
<1>4. CASE OverBudget(e) \/ Fail(e)
  <2>1. UNCHANGED <<place, distance, confused>> /\ now' = now /\ Return(e, 0, 0, 1)
    BY <1>4 DEF OverBudget, Fail, dbVars
  <2>2. QED
    BY <2>1, ReturnTask, FreeHand, LocalStep
<1>5. CASE Insert(e)
  <2>1. RowsInv' /\ Kept
    BY <1>5, InsertRows
  <2>2. Return(e, 1, 0, 0)
    BY <1>5 DEF Insert
  <2>3. PICK t \in Task : task' = [task EXCEPT ![e] = t] /\ ~Asking(t)
    BY <2>2, ReturnTask
  <2>4. QED
    BY <2>1, <2>3, FreeHand, ProcessStep
<1>6. CASE Collide(e)
  <2>1. UNCHANGED <<place, distance, confused>> /\ now' = now
    BY <1>6 DEF Collide, dbVars
  <2>2. PICK t : /\ task' = [task EXCEPT ![e] = t]
                 /\ t = Idle \/ t = [Idle EXCEPT !.at = "aborted"]
    BY <1>6 DEF Collide
  <2>3. t \in Task /\ ~Asking(t)
    BY <2>2 DEF Idle, Task, TaskRecord, Asking
  <2>4. QED
    BY <2>1, <2>2, <2>3, FreeHand, LocalStep
<1>7. QED
  BY <1>1, <1>2, <1>3, <1>4, <1>5, <1>6 DEF Work

\* What the back-fill starts with.
LEMMA StartTask ==
  ASSUME ShownInv, NEW e \in Backfills, StartBackfill(e)
  PROVE  \E t \in Task :
            /\ task' = [task EXCEPT ![e] = t] /\ ~Asking(t) /\ task[e] = Idle
            /\ t = [Idle EXCEPT !.at = "loop", !.rest = {l \in Listings : place[l] # None}]
<1> DEFINE t == [Idle EXCEPT !.at = "loop", !.rest = {l \in Listings : place[l] # None}]
<1>1. t \in Task /\ ~Asking(t)
  BY DEF Idle, Task, TaskRecord, Asking
<1>2. task' = [task EXCEPT ![e] = t] /\ task[e] = Idle
  BY DEF StartBackfill, ShownInv, Processes
<1>3. QED
  BY <1>1, <1>2

\* What a scraper has in hand between the clock and the lock.
LEMMA PersistTask ==
  ASSUME ShownInv, NEW e \in Scrapers, NEW l \in Listings, NEW p \in Places \cup {None},
         Persist(e, l, p)
  PROVE  \E t \in Task : task' = [task EXCEPT ![e] = t] /\ InHand(t)
<1> DEFINE t == [Idle EXCEPT !.at = "persist", !.observed_at = now, !.listing = l, !.place = p]
<1>1. t \in Task /\ ~Asking(t)
  BY DEF Idle, Task, TaskRecord, Asking, ShownInv, RowsInv
<1>2. task' = [task EXCEPT ![e] = t]
  BY DEF Persist
<1>. HIDE DEF t
<1>3. QED
  BY <1>1, <1>2, FreeHand

\* The detail is committed or rolled back, or its listing is enriched.
LEMMA DetailShown ==
  ASSUME ShownInv, NEW e \in Scrapers, Detail(e)
  PROVE  ShownInv' /\ Kept
<1>1. e \in Processes /\ task[e] \in Task /\ now' = now
  BY DEF ShownInv, Processes, Detail, CommitDetail, RollBackDetail, EnrichPersisted
<1>2. CASE CommitDetail(e)
  <2>1. PICK l \in Listings, p \in Places \cup {None}, stamp \in Nat :
            l = task[e].listing /\ p = task[e].place /\ stamp = task[e].observed_at
    BY <1>1, <1>2 DEF CommitDetail, Task, TaskRecord
  <2> DEFINE t == [Idle EXCEPT !.at = "persisted", !.listing = l]
  <2>2. t \in Task /\ ~Asking(t)
    BY DEF Idle, Task, TaskRecord, Asking
  <2>3. task' = [task EXCEPT ![e] = t]
    BY <1>2, <2>1 DEF CommitDetail
  <2>. HIDE DEF t
  <2>4. CASE UNCHANGED <<place, distance, confused>>
    BY <1>1, <2>2, <2>3, <2>4, FreeHand, LocalStep
  <2>5. CASE Locate(e, l, p) /\ place[l] = p
    BY <2>4, <2>5, LocateAgain
  <2>6. CASE Locate(e, l, p) /\ place[l] # p
    <3>1. RowsInv' /\ Kept
      BY <1>1, <2>1, <2>6, LocateRows
    <3>2. QED
      BY <1>1, <2>2, <2>3, <3>1, FreeHand, ProcessStep
  <2>7. QED
    BY <1>2, <2>1, <2>4, <2>5, <2>6 DEF CommitDetail, dbVars
<1>3. CASE RollBackDetail(e)
  <2>1. UNCHANGED <<place, distance, confused>> /\ task' = [task EXCEPT ![e] = Idle]
    BY <1>3 DEF RollBackDetail, dbVars
  <2>2. QED
    BY <1>1, <2>1, IdleTask, FreeHand, LocalStep
<1>4. CASE EnrichPersisted(e)
  <2>1. UNCHANGED <<place, distance, confused>>
    BY <1>4 DEF EnrichPersisted, dbVars
  <2>2. PICK l \in Listings : l = task[e].listing
    BY <1>1, <1>4 DEF EnrichPersisted, Task
  <2>3. CASE Enrich(e, l, Idle)
    BY <1>1, <2>1, <2>3, IdleTask, EnrichTask, LocalStep
  <2>4. CASE task' = [task EXCEPT ![e] = Idle]
    BY <1>1, <2>1, <2>4, IdleTask, FreeHand, LocalStep
  <2>5. QED
    BY <1>4, <2>2, <2>3, <2>4 DEF EnrichPersisted
<1>5. QED
  BY <1>2, <1>3, <1>4 DEF Detail

LEMMA ShownStep ==
  ASSUME ShownInv, [Next]_vars
  PROVE  ShownInv' /\ Kept
<1>1. ASSUME NEW e \in Scrapers, Detail(e)
      PROVE  ShownInv' /\ Kept
  BY <1>1, DetailShown
<1>2. ASSUME NEW e \in Processes, Work(e)
      PROVE  ShownInv' /\ Kept
  BY <1>2, WorkShown
<1>3. ASSUME NEW e \in Backfills, StartBackfill(e)
      PROVE  ShownInv' /\ Kept
  <2>1. UNCHANGED <<place, distance, confused>> /\ now' = now /\ e \in Processes
    BY <1>3 DEF StartBackfill, dbVars, Processes
  <2>2. QED
    BY <1>3, <2>1, StartTask, FreeHand, LocalStep
<1>4. ASSUME NEW e \in Scrapers, NEW l \in Listings, NEW p \in Places \cup {None},
             Persist(e, l, p)
      PROVE  ShownInv' /\ Kept
  <2>1. UNCHANGED <<place, distance, confused>> /\ now' = now + 1 /\ e \in Processes
    BY <1>4 DEF Persist, dbVars, Processes
  <2>2. QED
    BY <1>4, <2>1, PersistTask, LocalStep
<1>5. CASE UNCHANGED vars
  <2>1. UNCHANGED <<place, distance, confused, task>> /\ now' = now
    BY <1>5 DEF vars
  <2>2. RowsInv' /\ Kept
    BY <2>1, RowsStay
  <2>3. ASSUME NEW e \in Processes
        PROVE  InHand(task[e])'
    <3>1. PICK t : t = task[e]
      OBVIOUS
    <3>2. InHand(t)' /\ task'[e] = t
      BY <2>1, <2>2, <3>1, HandKept
    <3>3. QED
      BY <3>2
  <2>4. QED
    BY <2>1, <2>2, <2>3 DEF ShownInv
<1>6. QED
  BY <1>1, <1>2, <1>3, <1>4, <1>5 DEF Next

LEMMA ShownInvariant == Spec => []ShownInv
<1>1. ShownInv /\ [Next]_vars => ShownInv'
  BY ShownStep
<1>2. QED
  BY <1>1, InitShown, PTL DEF Spec

\* The newest row of each mode is that of where the listing is, and the minutes
\* shown are not fewer than the seconds of the route, for a listing that neither
\* returned to a place, nor moved while a process was asking for its route, nor was
\* moved by a run that had read the clock before a row stored earlier.
THEOREM ShownCorrect == Spec => []ShownIsCurrent
<1>1. ASSUME ShownInv, NEW l \in Listings, place[l] # None, l \notin confused
      PROVE  /\ Shown(l, "air") # None /\ Shown(l, "air").place = place[l]
             /\ Cached(l, place[l], "road") =>
                  /\ Shown(l, "road").place = place[l]
                  /\ Shown(l, "road").minutes * 60 >= Seconds[place[l]]
  <2>1. PICK r \in RowsOf(l, "air") : r.place = place[l]
    BY <1>1 DEF ShownInv, RowsInv, LocatedInv, LocatedAt
  <2>2. Newest(r) /\ r.listing = l
    BY <1>1, <2>1 DEF ShownInv, RowsInv, CurrentInv, RowsOf
  <2>3. \A s \in distance : s \in DistanceRow /\ s.at \in Nat
    BY <1>1 DEF ShownInv, RowsInv, DistanceRow
  <2>4. \A mode : RowsOf(l, mode) \subseteq distance
    BY DEF RowsOf
  <2>5. Shown(l, "air") = r
    <3>1. \A s \in RowsOf(l, "air") : s.at <= r.at
      BY <2>1, <2>2, <2>3, <2>4 DEF Newest
    <3>2. \A t \in RowsOf(l, "air") : (\A s \in RowsOf(l, "air") : s.at <= t.at) => t = r
      BY <2>1, <2>2, <2>3, <2>4 DEF Newest
    <3>3. QED
      BY <2>1, <3>1, <3>2 DEF Shown
  <2>6. r # None
    BY <2>1, <2>3, <2>4, NoneAssumption
  <2>7. ASSUME Cached(l, place[l], "road")
        PROVE  /\ Shown(l, "road").place = place[l]
               /\ Shown(l, "road").minutes * 60 >= Seconds[place[l]]
    <3>1. PICK t \in RowsOf(l, "road") : t.place = place[l]
      BY <2>7 DEF Cached
    <3>2. \A s \in RowsOf(l, "road") : s # t => s.place # r.place
      BY <1>1, <2>1, <3>1 DEF RowsOf, ShownInv, RowsInv, StampInv
    <3>3. \A s \in RowsOf(l, "road") : s # t => s.at < t.at
      BY <2>1, <2>2, <3>1, <3>2 DEF Newest
    <3>4. Shown(l, "road") = t
      <4>1. \A s \in RowsOf(l, "road") : s.at <= t.at
        BY <2>3, <2>4, <3>1, <3>3
      <4>2. \A u \in RowsOf(l, "road") : (\A s \in RowsOf(l, "road") : s.at <= u.at) => u = t
        BY <2>3, <2>4, <3>1, <3>3
      <4>3. QED
        BY <3>1, <4>1, <4>2 DEF Shown
    <3>5. t.minutes = Minutes(Seconds[place[l]]) /\ Seconds[place[l]] \in Nat
      BY <1>1, <3>1, SecondsAssumption DEF RowsOf, ShownInv, RowsInv, StampInv, DistanceRow
    <3>6. \A n \in Nat : ((n + 59) \div 60) * 60 >= n
      OBVIOUS
    <3>7. QED
      BY <3>1, <3>4, <3>5, <3>6 DEF Minutes
  <2>8. QED
    BY <2>1, <2>5, <2>6, <2>7
<1>2. ShownInv => ShownIsCurrent
  BY <1>1 DEF ShownIsCurrent
<1>3. QED
  BY <1>2, ShownInvariant, PTL


-----------------------------------------------------------------------------
(* A clean back-fill covers *)

LEMMA InitCover == Init => CoverInv
<1> SUFFICES ASSUME Init PROVE CoverInv
  OBVIOUS
<1>1. ASSUME NEW e \in Backfills
      PROVE  Covers(task[e], requests[e])
  <2>1. task[e] = Idle /\ requests[e] = 0
    BY DEF Init, Processes
  <2>2. Reports(Idle, 0)
    BY DEF Reports, Idle, Asking
  <2>3. Considers(Idle, {})
    BY FS_EmptySet DEF Considers, Idle
  <2>4. QED
    BY <2>1, <2>2, <2>3 DEF Covers
<1>2. QED
  BY <1>1 DEF Init, CoverInv

LEMMA ConsidersKept ==
  ASSUME Kept, NEW t \in Task, NEW D \in SUBSET Listings, Considers(t, D)
  PROVE  Considers(t, D)'
<1>1. \A l \in t.rest : LocatedAt(l)' # {}
  BY DEF Considers, Kept, Task, TaskRecord
<1>2. \A l \in D : Settled(l) => Settled(l)'
  BY DEF Kept
<1>3. QED
  BY <1>1, <1>2 DEF Considers

\* A step of one process, by what it makes of its record.
LEMMA CoverProcess ==
  ASSUME ShownInv, CoverInv, Kept, NEW e \in Processes, NEW t \in Task, NEW n \in Nat,
         task' = [task EXCEPT ![e] = t], requests' = [requests EXCEPT ![e] = n],
         e \in Backfills => Covers(t, n)'
  PROVE  CoverInv'
<1>1. requests' \in [Processes -> Nat] /\ task'[e] = t /\ requests'[e] = n
  BY DEF CoverInv, ShownInv
<1>2. ASSUME NEW f \in Backfills, f # e
      PROVE  Covers(task[f], requests[f])'
  <2>1. PICK u \in Task, k \in Nat : u = task[f] /\ k = requests[f]
    BY DEF ShownInv, CoverInv, Processes
  <2>2. Covers(u, k)
    BY <2>1 DEF CoverInv
  <2>3. Covers(u, k)'
    BY <2>2, ConsidersKept DEF Covers, Reports
  <2>4. task'[f] = u /\ requests'[f] = k
    BY <1>2, <2>1 DEF ShownInv, CoverInv, Processes
  <2>5. QED
    BY <2>3, <2>4
<1>3. CASE e \in Backfills
  <2>1. Covers(task[e], requests[e])'
    BY <1>1, <1>3
  <2>2. QED
    BY <1>1, <1>2, <2>1 DEF CoverInv
<1>4. CASE e \notin Backfills
  BY <1>1, <1>2, <1>4 DEF CoverInv
<1>5. QED
  BY <1>3, <1>4

\* The same with the request count left alone.
LEMMA CoverLocal ==
  ASSUME ShownInv, CoverInv, Kept, NEW e \in Processes, NEW t \in Task,
         task' = [task EXCEPT ![e] = t], requests' = requests,
         NEW n, n = requests[e], e \in Backfills => Covers(t, n)'
  PROVE  CoverInv'
<1>1. n \in Nat /\ requests' = [requests EXCEPT ![e] = n]
  BY DEF CoverInv
<1>2. QED
  BY <1>1, CoverProcess

\* What the invariant says of a back-fill in Task terms.
LEMMA CoverOf ==
  ASSUME ShownInv, CoverInv, NEW e \in Backfills, task[e].at # "aborted"
  PROVE  /\ task[e] \in Task /\ requests[e] \in Nat /\ e \in Processes /\ e \notin Scrapers
         /\ Reports(task[e], requests[e])
         /\ \E D \in SUBSET Listings : Considers(task[e], D)
BY ProcessesAssumption DEF ShownInv, CoverInv, Covers, Processes

LEMMA AskCover ==
  ASSUME ShownInv, CoverInv, NEW e \in Processes, Ask(e) \/ Retry(e) \/ Answer(e), Kept
  PROVE  CoverInv'
<1>1. PICK t \in Task :
        /\ task' = [task EXCEPT ![e] = t] /\ Asking(t) /\ Asking(task[e])
        /\ \/ t = [task[e] EXCEPT !.at = t.at, !.attempt = t.attempt]
           \/ t = [task[e] EXCEPT !.at = t.at, !.row = t.row]
        /\ t.at = "insert" => task[e].at = "wait"
  BY AskTask, AnswerTask
<1>2. task[e] \in Task
  BY DEF ShownInv
<1>3. /\ t.considered = task[e].considered /\ t.created = task[e].created
      /\ t.cache_hits = task[e].cache_hits /\ t.failed = task[e].failed
      /\ t.rest = task[e].rest /\ t.listing = task[e].listing
  BY <1>1, <1>2 DEF Task, TaskRecord
<1>4. ASSUME NEW D \in SUBSET Listings, Considers(task[e], D)
      PROVE  Considers(t, D)
  BY <1>1, <1>3, <1>4 DEF Considers
<1>5. PICK n \in Nat : /\ requests' = [requests EXCEPT ![e] = n]
                       /\ n = requests[e] \/ (n = requests[e] + 1 /\ task[e].at = "ask")
                       /\ t.at = "wait" => n = requests[e] + 1
  <2>1. requests[e] \in Nat
    BY DEF CoverInv
  <2>2. CASE Ask(e)
    <3>1. /\ requests' = [requests EXCEPT ![e] = requests[e] + 1]
          /\ requests[e] + 1 \in Nat /\ task[e].at = "ask"
      BY <2>1, <2>2 DEF Ask
    <3>2. QED
      BY <3>1
  <2>3. CASE Retry(e)
    <3>1. task'[e].at = "ask"
      BY <1>2, <2>3 DEF Retry, ShownInv, Task, TaskRecord
    <3>2. t.at = "ask"
      BY <1>1, <3>1 DEF ShownInv
    <3>3. requests' = [requests EXCEPT ![e] = requests[e]]
      BY <2>3 DEF Retry, CoverInv
    <3>4. QED
      BY <2>1, <3>2, <3>3
  <2>4. CASE Answer(e)
    <3>1. task'[e].at = "insert"
      BY <1>2, <2>4 DEF Answer, ShownInv, Task, TaskRecord
    <3>2. t.at = "insert"
      BY <1>1, <3>1 DEF ShownInv
    <3>3. requests' = [requests EXCEPT ![e] = requests[e]]
      BY <2>4 DEF Answer, CoverInv
    <3>4. QED
      BY <2>1, <3>2, <3>3
  <2>5. QED
    BY <2>2, <2>3, <2>4
<1>6. ASSUME e \in Backfills
      PROVE  Covers(t, n)'
  <2>1. /\ Reports(task[e], requests[e]) /\ requests[e] \in Nat
        /\ \E D \in SUBSET Listings : Considers(task[e], D)
    BY <1>1, <1>6, CoverOf DEF Asking
  <2>2. Reports(t, n)
    BY <1>1, <1>2, <1>3, <1>5, <2>1 DEF Reports, Task, TaskRecord, Asking
  <2>3. \E D \in SUBSET Listings : Considers(t, D)'
    BY <1>4, <2>1, ConsidersKept
  <2>4. QED
    BY <2>2, <2>3 DEF Covers, Reports
<1>7. QED
  BY <1>1, <1>5, <1>6, CoverProcess


\* A listing that a back-fill selected and that has lost its coordinates since, or
\* has the road row of where it is, is settled.
LEMMA SettledNow ==
  ASSUME ShownInv, NEW l \in Listings, LocatedAt(l) # {},
         place[l] = None \/ Cached(l, place[l], "road")
  PROVE  Settled(l)
<1>1. None \notin LocatedAt(l)
  BY DEF LocatedAt, RowsOf, ShownInv, RowsInv, StampInv
<1>2. QED
  BY <1>1 DEF Settled

\* The next listing joins those that have been considered.
LEMMA NextCover ==
  ASSUME ShownInv, CoverInv, Kept, NEW e \in Processes, NextListing(e)
  PROVE  CoverInv'
<1>1. requests' = requests /\ task[e].at = "loop" /\ task[e] \in Task /\ ~Asking(task[e])
  BY DEF NextListing, ShownInv, Asking
<1>2. PICK n \in Nat : n = requests[e]
  BY DEF CoverInv
<1>3. ASSUME NEW t \in Task, task' = [task EXCEPT ![e] = t], t = [task[e] EXCEPT !.at = "done"]
      PROVE  CoverInv'
  <2>1. /\ t.considered = task[e].considered /\ t.created = task[e].created
        /\ t.cache_hits = task[e].cache_hits /\ t.failed = task[e].failed
        /\ t.rest = task[e].rest /\ t.at = "done" /\ ~Asking(t)
    BY <1>1, <1>3 DEF Task, TaskRecord, Asking
  <2>2. ASSUME e \in Backfills
        PROVE  Covers(t, n)'
    <3>1. Reports(task[e], n) /\ \E D \in SUBSET Listings : Considers(task[e], D)
      BY <1>1, <1>2, <2>2, CoverOf
    <3>2. Reports(t, n)
      BY <1>1, <2>1, <3>1 DEF Reports
    <3>3. \A D : Considers(task[e], D) => Considers(t, D)
      BY <1>1, <2>1 DEF Considers
    <3>4. QED
      BY <3>1, <3>2, <3>3, ConsidersKept DEF Covers, Reports
  <2>3. QED
    BY <1>1, <1>2, <1>3, <2>2, CoverLocal
<1>4. ASSUME NEW before \in Task, task[e].rest # {}, ~Asking(before),
             before = [task[e] EXCEPT !.rest = @ \ {NextId(e)}, !.considered = @ + 1],
             Enrich(e, NextId(e), before)
      PROVE  CoverInv'
  <2>1. PICK l \in task[e].rest : l = NextId(e) /\ l \in Listings
    BY <1>4, NextIsLeft
  <2>2. PICK t \in Task : task' = [task EXCEPT ![e] = t] /\ Enriched(e, l, before, t)
    BY <1>4, <2>1, EnrichTask
  <2>3. /\ before.considered = task[e].considered + 1 /\ before.created = task[e].created
        /\ before.cache_hits = task[e].cache_hits /\ before.failed = task[e].failed
        /\ before.rest = task[e].rest \ {l} /\ before.at = "loop"
    BY <1>1, <1>4, <2>1 DEF Task, TaskRecord
  <2>4. /\ t.considered = task[e].considered + 1 /\ t.created = task[e].created
        /\ t.failed = task[e].failed /\ t.rest = task[e].rest \ {l}
        /\ t.at \notin {"wait", "insert"}
        /\ t.cache_hits + (IF Asking(t) THEN 1 ELSE 0) <= task[e].cache_hits + 1
    <3>1. before.cache_hits \in Nat /\ ~Asking(before) /\ before.at = "loop"
      BY <1>4, <2>3 DEF Task, TaskRecord
    <3>2. CASE t = before
      BY <2>3, <3>1, <3>2
    <3>3. CASE t = [before EXCEPT !.cache_hits = @ + 1]
      <4>1. /\ t.cache_hits = before.cache_hits + 1 /\ t.at = "loop"
            /\ t.considered = before.considered /\ t.created = before.created
            /\ t.failed = before.failed /\ t.rest = before.rest
        BY <3>1, <3>3 DEF Task, TaskRecord
      <4>2. QED
        BY <2>3, <3>1, <4>1 DEF Asking
    <3>4. CASE t = [before EXCEPT !.at = "ask", !.listing = l, !.place = place[l],
                                  !.attempt = 1]
      <4>1. /\ t.cache_hits = before.cache_hits /\ t.at = "ask"
            /\ t.considered = before.considered /\ t.created = before.created
            /\ t.failed = before.failed /\ t.rest = before.rest
        BY <3>4 DEF Task, TaskRecord
      <4>2. QED
        BY <2>3, <3>1, <4>1
    <3>5. QED
      BY <2>2, <3>2, <3>3, <3>4 DEF Enriched
  <2>5. ASSUME e \in Backfills
        PROVE  Covers(t, n)'
    <3>1. Reports(task[e], n) /\ e \notin Scrapers
      BY <1>1, <1>2, <2>5, CoverOf
    <3>2. Reports(t, n)
      BY <1>1, <2>4, <3>1 DEF Reports, Task, TaskRecord
    <3>3. PICK D \in SUBSET Listings : Considers(task[e], D)
      BY <1>1, <2>5, CoverOf
    <3>4. l \notin D /\ LocatedAt(l) # {}
      BY <3>3 DEF Considers
    <3>5. Settled(l) \/ (Asking(t) /\ l = t.listing)
      <4>1. place[l] = None \/ Cached(l, place[l], "road") => Settled(l)
        BY <2>1, <3>4, SettledNow
      <4>2. t = [before EXCEPT !.at = "ask", !.listing = l, !.place = place[l], !.attempt = 1]
              => Asking(t) /\ l = t.listing
        BY DEF Task, TaskRecord, Asking
      <4>3. QED
        BY <2>2, <3>1, <4>1, <4>2 DEF Enriched
    <3>6. Cardinality(D \cup {l}) = t.considered
      <4>1. IsFiniteSet(D)
        BY FS_Subset, ListingsAssumption
      <4>2. Cardinality(D \cup {l}) = Cardinality(D) + 1
        BY <3>4, <4>1, FS_AddElement
      <4>3. QED
        BY <2>4, <3>3, <4>2 DEF Considers
    <3>7. \A m \in D : t.failed = 0 => Settled(m)
      BY <1>1, <2>4, <3>3 DEF Considers
    <3>8. Considers(t, D \cup {l})
      BY <2>4, <3>3, <3>5, <3>6, <3>7 DEF Considers
    <3>9. QED
      BY <2>1, <3>2, <3>8, ConsidersKept DEF Covers, Reports
  <2>6. QED
    BY <1>1, <1>2, <2>2, <2>5, CoverLocal
<1>5. QED
  BY <1>3, <1>4, NextTask

\* A result of the listing in hand: a failure spoils the report, and what has been
\* inserted settles the listing.
LEMMA ResultCover ==
  ASSUME ShownInv, CoverInv, Kept, NEW e \in Processes,
         NEW created \in {0, 1}, NEW failed \in {0, 1}, created + failed = 1,
         Return(e, created, 0, failed), requests' = requests, Asking(task[e]),
         created = 1 => task[e].at = "insert",
         \A l \in Listings : created = 1 /\ l = task[e].listing => Settled(l)'
  PROVE  CoverInv'
<1>1. PICK t \in Task : /\ t = Returned(e, created, 0, failed) /\ ~Asking(t)
                        /\ task' = [task EXCEPT ![e] = t]
  BY ReturnTask
<1>2. PICK n \in Nat : n = requests[e]
  BY DEF CoverInv
<1>3. ASSUME e \in Backfills
      PROVE  Covers(t, n)'
  <2>1. /\ Reports(task[e], n) /\ e \notin Scrapers /\ task[e] \in Task
    BY <1>2, <1>3, CoverOf DEF Asking
  <2>2. /\ t.considered = task[e].considered /\ t.created = task[e].created + created
        /\ t.cache_hits = task[e].cache_hits + 0 /\ t.failed = task[e].failed + failed
        /\ t.rest = task[e].rest
    BY <1>1, <2>1 DEF Returned, Task, TaskRecord
  <2>3. Reports(t, n)
    BY <1>1, <2>1, <2>2 DEF Reports, Task, TaskRecord, Asking
  <2>4. PICK D \in SUBSET Listings : Considers(task[e], D)
    BY <1>3, CoverOf DEF Asking
  <2>5. Considers(t, D)'
    <3>1. \A l \in t.rest : LocatedAt(l)' # {}
      BY <2>1, <2>2, <2>4 DEF Considers, Kept, Task, TaskRecord
    <3>2. ASSUME t.failed = 0, NEW l \in D
          PROVE  Settled(l)'
      <4>1. task[e].failed = 0 /\ failed = 0 /\ created = 1
        BY <2>1, <2>2, <3>2 DEF Task, TaskRecord
      <4>2. Settled(l) \/ l = task[e].listing
        BY <2>4, <3>2, <4>1 DEF Considers
      <4>3. QED
        BY <4>1, <4>2 DEF Kept
    <3>3. QED
      BY <2>2, <2>4, <3>1, <3>2 DEF Considers
  <2>6. QED
    BY <2>3, <2>5 DEF Covers, Reports
<1>4. QED
  BY <1>1, <1>2, <1>3, CoverLocal

LEMMA CoverStep ==
  ASSUME ShownInv, CoverInv, [Next]_vars
  PROVE  CoverInv'
<1>0. Kept /\ ShownInv'
  BY ShownStep
<1>1. CASE UNCHANGED <<task, requests>>
  <2>1. ASSUME NEW e \in Backfills
        PROVE  Covers(task[e], requests[e])'
    <3>1. PICK u \in Task, k \in Nat : u = task[e] /\ k = requests[e]
      BY DEF ShownInv, CoverInv, Processes
    <3>2. Covers(u, k)
      BY <3>1 DEF CoverInv
    <3>3. Covers(u, k)'
      BY <1>0, <3>2, ConsidersKept DEF Covers, Reports
    <3>4. QED
      BY <1>1, <3>1, <3>3
  <2>2. QED
    BY <1>1, <2>1 DEF CoverInv
<1>2. ASSUME NEW e \in Processes, Work(e)
      PROVE  CoverInv'
  <2>1. CASE Ask(e) \/ Retry(e) \/ Answer(e)
    BY <1>0, <2>1, AskCover
  <2>2. CASE NextListing(e)
    BY <1>0, <2>2, NextCover
  <2>3. CASE OverBudget(e) \/ Fail(e)
    BY <1>0, <2>3, ResultCover DEF OverBudget, Fail, Asking
  <2>4. CASE Insert(e)
    <3>1. PICK l0, p0 : l0 = task[e].listing /\ p0 = task[e].place
      OBVIOUS
    <3>2. Cached(l0, p0, "road")'
      BY <2>4, <3>1, InsertRows
    <3>3. /\ Asking(task[e]) /\ task[e].at = "insert" /\ Return(e, 1, 0, 0)
          /\ requests' = requests /\ UNCHANGED <<place, confused>>
      BY <2>4 DEF Insert, Asking
    <3>4. ASSUME NEW l \in Listings, l = task[e].listing
          PROVE  Settled(l)'
      <4>1. p0 \in LocatedAt(l) /\ (l \notin confused => p0 = place[l])
        BY <3>1, <3>3, <3>4 DEF ShownInv, InHand
      <4>2. p0 \in LocatedAt(l)'
        BY <1>0, <4>1 DEF Kept
      <4>3. l \notin confused' => Cached(l, place[l], "road")'
        BY <3>1, <3>2, <3>3, <3>4, <4>1 DEF Cached
      <4>4. QED
        BY <4>2, <4>3 DEF Settled
    <3>5. QED
      BY <1>0, <3>3, <3>4, ResultCover
  <2>5. CASE Collide(e)
    <3>1. PICK t : /\ task' = [task EXCEPT ![e] = t]
                   /\ t = Idle \/ t = [Idle EXCEPT !.at = "aborted"]
                   /\ e \in Backfills => t = [Idle EXCEPT !.at = "aborted"]
      BY <2>5, ProcessesAssumption DEF Collide
    <3>2. t \in Task /\ (e \in Backfills => t.at = "aborted")
      BY <3>1 DEF Idle, Task, TaskRecord
    <3>3. requests' = requests
      BY <2>5 DEF Collide
    <3>4. PICK n : n = requests[e]
      OBVIOUS
    <3>5. e \in Backfills => Covers(t, n)'
      BY <3>2 DEF Covers
    <3>6. QED
      BY <1>0, <3>1, <3>2, <3>3, <3>4, <3>5, CoverLocal
  <2>6. QED
    BY <1>2, <2>1, <2>2, <2>3, <2>4, <2>5 DEF Work
<1>3. ASSUME NEW e \in Backfills, StartBackfill(e)
      PROVE  CoverInv'
  <2>1. PICK t \in Task :
            /\ task' = [task EXCEPT ![e] = t] /\ ~Asking(t) /\ task[e] = Idle
            /\ t = [Idle EXCEPT !.at = "loop", !.rest = {l \in Listings : place[l] # None}]
    BY <1>3, StartTask
  <2>2. /\ t.considered = 0 /\ t.created = 0 /\ t.cache_hits = 0 /\ t.failed = 0
        /\ t.at = "loop" /\ t.rest = {l \in Listings : place[l] # None}
    BY <2>1 DEF Idle
  <2>3. PICK n \in Nat : n = requests[e] /\ e \in Processes
    BY DEF CoverInv, Processes
  <2>4. Reports(t, n)
    BY <2>2, <2>3 DEF Reports, Asking
  <2>5. Considers(t, {})
    BY <2>2, FS_EmptySet DEF Considers, ShownInv, RowsInv, LocatedInv
  <2>6. Covers(t, n)'
    BY <1>0, <2>4, <2>5, ConsidersKept DEF Covers, Reports
  <2>7. requests' = requests
    BY <1>3 DEF StartBackfill
  <2>8. QED
    BY <1>0, <2>1, <2>3, <2>6, <2>7, CoverLocal
<1>4. ASSUME NEW e \in Scrapers,
             Detail(e) \/ \E l \in Listings, p \in Places \cup {None} : Persist(e, l, p)
      PROVE  CoverInv'
  <2>1. requests' = requests /\ e \in Processes /\ e \notin Backfills
    BY <1>4, ProcessesAssumption
    DEF Processes, Detail, CommitDetail, RollBackDetail, EnrichPersisted, Persist
  <2>2. \E t : task' = [task EXCEPT ![e] = t]
    BY <1>4 DEF Detail, CommitDetail, RollBackDetail, EnrichPersisted, Enrich, Persist
  <2>3. ASSUME NEW f \in Backfills
        PROVE  Covers(task[f], requests[f])'
    <3>1. PICK u \in Task, k \in Nat : u = task[f] /\ k = requests[f]
      BY DEF ShownInv, CoverInv, Processes
    <3>2. Covers(u, k)
      BY <3>1 DEF CoverInv
    <3>3. Covers(u, k)'
      BY <1>0, <3>2, ConsidersKept DEF Covers, Reports
    <3>4. task'[f] = u
      BY <2>1, <2>2, <3>1 DEF ShownInv, Processes
    <3>5. QED
      BY <2>1, <3>1, <3>3, <3>4
  <2>4. QED
    BY <2>1, <2>3 DEF CoverInv
<1>5. QED
  BY <1>1, <1>2, <1>3, <1>4 DEF Next, vars

\* What a back-fill reports adds up, and one that considered every listing and
\* reports no failure has covered every listing that has had one place only, while
\* scrapers and other back-fills insert and listings move.
THEOREM CoverCorrect == Spec => []CleanBackfillCovers
<1>1. ASSUME ShownInv, CoverInv, NEW e \in Backfills, task[e].at = "done"
      PROVE  /\ task[e].created + task[e].cache_hits + task[e].failed <= task[e].considered
             /\ task[e].created <= requests[e]
             /\ Succeeded(e) /\ task[e].considered = Cardinality(Listings) =>
                  \A l \in Listings : l \notin confused /\ LocatedAt(l) = {place[l]} =>
                     Cached(l, place[l], "road")
  <2>1. PICK D \in SUBSET Listings :
            task[e] \in Task /\ requests[e] \in Nat /\ Reports(task[e], requests[e])
            /\ Considers(task[e], D)
    BY <1>1, CoverOf
  <2>2. /\ task[e].created + task[e].cache_hits + task[e].failed <= task[e].considered
        /\ task[e].created <= requests[e]
    BY <1>1, <2>1 DEF Reports, Asking, Task, TaskRecord
  <2>3. ASSUME Succeeded(e), task[e].considered = Cardinality(Listings), NEW l \in Listings,
               l \notin confused, LocatedAt(l) = {place[l]}
        PROVE  Cached(l, place[l], "road")
    <3>1. D = Listings
      BY <2>1, <2>3, FS_Subset, ListingsAssumption DEF Considers
    <3>2. Settled(l)
      BY <1>1, <2>1, <2>3, <3>1 DEF Considers, Succeeded, Asking
    <3>3. QED
      BY <2>3, <3>2 DEF Settled
  <2>4. QED
    BY <2>2, <2>3
<1>2. ShownInv /\ CoverInv => CleanBackfillCovers
  BY <1>1 DEF CleanBackfillCovers
<1>3. ShownInv /\ CoverInv /\ [Next]_vars => CoverInv'
  BY CoverStep
<1>4. QED
  BY <1>2, <1>3, InitCover, ShownInvariant, PTL DEF Spec

=============================================================================
