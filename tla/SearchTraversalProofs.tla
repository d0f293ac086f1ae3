----------------------- MODULE SearchTraversalProofs -----------------------
(***************************************************************************)
(* Theorems about SearchTraversal for every site, page size, number of     *)
(* changes and number of attempts: a call stays within its requests and    *)
(* every request keeps its distance; what the traversal yields is a        *)
(* ListingFeed whose rows the migrated schema accepts; and a traversal     *)
(* that completes has missed no listing that stayed on the site.           *)
(***************************************************************************)
EXTENDS SearchTraversal, SequenceTheorems, TLAPS

-----------------------------------------------------------------------------
(* The client *)

\* The requests a call may have sent by where it is: every attempt before this
\* one may have used all its redirects, this one has used hops of them.
Spent(f) ==
    (MAX_REDIRECTS + 1) * (f.attempt - 1) + f.hops
        + (IF f.at \in {"idle", "request"} THEN 0 ELSE 1)

Calls == [at : {"idle", "request", "redirect"} \cup Results, page : Nat,
          attempt : 1..MaxAttempts, hops : 0..MAX_REDIRECTS, sent : Nat, away : BOOLEAN]

CallInv == fetch \in Calls /\ fetch.sent <= Spent(fetch)

LEMMA NoFetchIsCall == NoFetch \in Calls /\ NoFetch.sent <= Spent(NoFetch)
BY AttemptsAssumption DEF NoFetch, Calls, Spent, MAX_REDIRECTS

\* One GET keeps the count, whatever it makes of the call, as long as the call
\* moves on to a result or a redirect, or to its next attempt.
LEMMA GetCounts ==
  ASSUME CallInv, NEW outcome \in Calls, NEW d, Get(outcome, d),
         outcome.sent = fetch.sent,
         \/ outcome.at \notin {"idle", "request"}
            /\ outcome.attempt = fetch.attempt /\ outcome.hops = fetch.hops
         \/ outcome.at = "request" /\ outcome.attempt = fetch.attempt + 1 /\ outcome.hops = 0
  PROVE  CallInv'
<1>1. fetch' = [outcome EXCEPT !.sent = fetch.sent + 1] /\ fetch.at = "request"
  BY DEF Get
<1>2. fetch' \in Calls
  BY <1>1 DEF CallInv, Calls
<1>3. fetch'.sent <= Spent(fetch')
  <2>1. /\ fetch'.at = outcome.at /\ fetch'.sent = fetch.sent + 1
        /\ fetch'.attempt = outcome.attempt /\ fetch'.hops = outcome.hops
    BY <1>1 DEF Calls
  <2>2. /\ fetch.attempt \in Int /\ fetch.hops \in 0..2 /\ fetch.sent \in Nat
    BY AttemptsAssumption DEF CallInv, Calls, MAX_REDIRECTS
  <2>3. fetch.sent <= 3 * (fetch.attempt - 1) + fetch.hops
    BY <1>1, <2>2 DEF CallInv, Spent, MAX_REDIRECTS
  <2>4. CASE outcome.at = "request"
    <3>1. Spent(fetch') = 3 * fetch.attempt
      BY <2>1, <2>2, <2>4 DEF Spent, MAX_REDIRECTS
    <3>2. QED
      BY <2>1, <2>2, <2>3, <3>1
  <2>5. CASE outcome.at # "request"
    <3>1. Spent(fetch') = 3 * (fetch.attempt - 1) + fetch.hops + 1
      BY <2>1, <2>2, <2>5 DEF Spent, MAX_REDIRECTS
    <3>2. QED
      BY <2>1, <2>2, <2>3, <3>1
  <2>6. QED
    BY <2>4, <2>5
<1>4. QED
  BY <1>2, <1>3 DEF CallInv

LEMMA GetReturns ==
  ASSUME CallInv, NEW at \in Results \cup {"redirect"}, NEW away \in BOOLEAN, NEW d,
         Get([fetch EXCEPT !.at = at, !.away = away], d)
  PROVE  CallInv'
<1> DEFINE outcome == [fetch EXCEPT !.at = at, !.away = away]
<1>1. outcome \in Calls /\ Get(outcome, d)
  BY DEF CallInv, Calls
<1>2. /\ outcome.sent = fetch.sent /\ outcome.at \notin {"idle", "request"}
      /\ outcome.attempt = fetch.attempt /\ outcome.hops = fetch.hops
  BY DEF CallInv, Calls, Results
<1> HIDE DEF outcome
<1>3. QED
  BY <1>1, <1>2, GetCounts

LEMMA AnswerStep == ASSUME CallInv, Answer PROVE CallInv'
<1> PICK d \in Latencies :
      LedAway(d) \/ Retry(d) \/ GiveUp(d) \/ Refused(d) \/ Redirected(d) \/ NotSsr(d) \/ Html(d)
  BY DEF Answer
<1>1. CASE Retry(d)
  <2> DEFINE outcome == [fetch EXCEPT !.attempt = @ + 1, !.hops = 0]
  <2>1. outcome \in Calls
    <3>1. fetch.attempt + 1 \in 1..MaxAttempts /\ 0 \in 0..MAX_REDIRECTS
      BY <1>1, AttemptsAssumption DEF Retry, CallInv, Calls, MAX_REDIRECTS
    <3>2. QED
      BY <3>1 DEF CallInv, Calls
  <2>2. Get(outcome, d + Backoff(fetch.attempt)) /\ fetch.at = "request"
    BY <1>1 DEF Retry, Get
  <2>3. /\ outcome.sent = fetch.sent /\ outcome.at = fetch.at
        /\ outcome.attempt = fetch.attempt + 1 /\ outcome.hops = 0
    BY DEF CallInv, Calls
  <2> HIDE DEF outcome
  <2>4. QED
    BY <2>1, <2>2, <2>3, GetCounts
<1>2. CASE LedAway(d)
  BY <1>2, GetReturns DEF LedAway
<1>3. CASE GiveUp(d) \/ Refused(d) \/ Redirected(d) \/ NotSsr(d) \/ Html(d)
  <2>1. PICK at \in Results \cup {"redirect"} : Get([fetch EXCEPT !.at = at], d)
    BY <1>3 DEF GiveUp, Refused, Redirected, NotSsr, Html, Results
  <2>2. /\ fetch.away \in BOOLEAN
        /\ [fetch EXCEPT !.at = at] = [fetch EXCEPT !.at = at, !.away = fetch.away]
    BY DEF CallInv, Calls
  <2>3. QED
    BY <2>1, <2>2, GetReturns
<1>4. QED
  BY <1>1, <1>2, <1>3

\* Since the last request at least the back-off of a retry has passed: the age
\* the client keeps is the true one, and a retry follows no redirect yet.
PaceInv ==
    /\ age \in Nat /\ gap = age
    /\ fetch.at = "request" /\ fetch.attempt > 1 /\ fetch.hops = 0 =>
           age >= Backoff(fetch.attempt - 1)

LEMMA LaterIsNat == ASSUME NEW d \in Nat PROVE Later(0, d) \in Nat
BY LongAgoAssumption DEF Later

LEMMA AnswerPaces == ASSUME CallInv, PaceInv, Answer PROVE PaceInv'
<1> PICK d \in Latencies :
      LedAway(d) \/ Retry(d) \/ GiveUp(d) \/ Refused(d) \/ Redirected(d) \/ NotSsr(d) \/ Html(d)
  BY DEF Answer
<1> d \in Nat
  BY LatenciesAssumption
<1>1. CASE Retry(d)
  <2> PICK attempt \in 1..MaxAttempts : attempt = fetch.attempt
    BY DEF CallInv, Calls
  <2>1. Backoff(attempt) \in 0..LongAgo /\ LongAgo \in Nat
    BY LongAgoAssumption
  <2>2. /\ age' = Later(0, d + Backoff(attempt)) /\ gap' = Later(0, d + Backoff(attempt))
        /\ fetch' = [[fetch EXCEPT !.attempt = @ + 1, !.hops = 0] EXCEPT !.sent = fetch.sent + 1]
    BY <1>1 DEF Retry, Get, Send
  <2>3. fetch'.attempt - 1 = attempt
    BY <2>2, AttemptsAssumption DEF CallInv, Calls
  <2>4. Later(0, d + Backoff(attempt)) \in Nat /\ Later(0, d + Backoff(attempt)) >= Backoff(attempt)
    BY <2>1 DEF Later
  <2>5. QED
    BY <2>2, <2>3, <2>4 DEF PaceInv
<1>2. CASE ~Retry(d)
  <2>1. CASE LedAway(d)
    BY <2>1, LaterIsNat DEF LedAway, Get, Send, CallInv, Calls, PaceInv
  <2>2. CASE GiveUp(d) \/ Refused(d) \/ Redirected(d) \/ NotSsr(d) \/ Html(d)
    BY <2>2, LaterIsNat DEF GiveUp, Refused, Redirected, NotSsr, Html, Get, Send, CallInv, Calls, PaceInv
  <2>3. QED
    BY <1>2, <2>1, <2>2
<1>3. QED
  BY <1>1, <1>2

LEMMA ClientPaces == ASSUME CallInv, PaceInv, Client PROVE PaceInv'
<1>1. CASE Answer
  BY <1>1, AnswerPaces
<1>2. CASE Follow
  <2>1. UNCHANGED <<age, gap>> /\ (fetch'.at = "request" => fetch'.hops = fetch.hops + 1)
    BY <1>2 DEF Follow, Return, CallInv, Calls
  <2>2. fetch.hops \in 0..MAX_REDIRECTS
    BY DEF CallInv, Calls
  <2>3. QED
    BY <2>1, <2>2 DEF PaceInv, MAX_REDIRECTS
<1>3. CASE Reject
  BY <1>3 DEF Reject, Return, CallInv, Calls, PaceInv
<1>4. QED
  BY <1>1, <1>2, <1>3 DEF Client

\* What PoliteRequests says of a step.
PoliteStep ==
    fetch'.sent > fetch.sent =>
        /\ gap + Pause >= MinDelay
        /\ fetch.attempt > 1 /\ fetch.hops = 0 =>
               gap + Pause >= Backoff(fetch.attempt - 1)

LEMMA PacedIsPolite ==
  ASSUME CallInv, PaceInv, fetch.at = "request"
  PROVE  PoliteStep
<1>1. Pause \in Nat /\ gap + Pause >= MinDelay /\ gap + Pause >= gap
  BY DelayAssumption DEF PaceInv, Pause
<1>2. ASSUME fetch.attempt > 1, fetch.hops = 0
      PROVE  gap + Pause >= Backoff(fetch.attempt - 1)
  <2> PICK attempt \in 1..MaxAttempts : attempt = fetch.attempt - 1
    BY <1>2, AttemptsAssumption DEF CallInv, Calls
  <2>1. gap >= Backoff(attempt) /\ Backoff(attempt) \in Int /\ gap \in Nat
    BY <1>2, LongAgoAssumption DEF PaceInv
  <2>2. QED
    BY <1>1, <2>1
<1>3. QED
  BY <1>1, <1>2 DEF PoliteStep

LEMMA ClientStep == ASSUME CallInv, Client PROVE CallInv'
<1>1. CASE Answer
  BY <1>1, AnswerStep
<1>2. CASE Follow
  <2>1. CASE fetch.hops < MAX_REDIRECTS
    <3>1. fetch' = [fetch EXCEPT !.at = "request", !.hops = @ + 1] /\ fetch.at = "redirect"
      BY <1>2, <2>1 DEF Follow
    <3>2. fetch.hops + 1 \in 0..MAX_REDIRECTS /\ fetch.hops \in 0..MAX_REDIRECTS
      BY <2>1 DEF CallInv, Calls, MAX_REDIRECTS
    <3>3. fetch' \in Calls
      BY <3>1, <3>2 DEF CallInv, Calls
    <3>4. Spent(fetch') = Spent(fetch) /\ fetch'.sent = fetch.sent
      BY <3>1, <3>2, AttemptsAssumption DEF CallInv, Calls, Spent, MAX_REDIRECTS
    <3>5. QED
      BY <3>3, <3>4 DEF CallInv
  <2>2. CASE ~(fetch.hops < MAX_REDIRECTS)
    BY <1>2, <2>2, AttemptsAssumption
       DEF Follow, Return, CallInv, Calls, Spent, Results
  <2>3. QED
    BY <2>1, <2>2
<1>3. CASE Reject
  BY <1>3, AttemptsAssumption DEF Reject, Return, CallInv, Calls, Spent, Results
<1>4. QED
  BY <1>1, <1>2, <1>3 DEF Client

-----------------------------------------------------------------------------
(* Pages *)

\* What a search page may hold for a listing, and what is read from it.
Items == {SearchItem(id) : id \in Ids}
            \cup {[SearchItem(id) EXCEPT !.categorySubCb = None] : id \in Ids}

OfferOf(id) == [sreality_id |-> id, kind |-> Kind, price |-> ParsePrice(SearchItem(id), None),
                locality |-> ParseLocality(SearchItem(id))]

Offers == {OfferOf(id) : id \in Ids}

LEMMA OffersHaveIds == \A o \in Offers : o.sreality_id \in Ids
BY DEF Offers, OfferOf

LEMMA ItemIsOffer ==
  ASSUME NEW data \in Items, ParseSearchListing(data, Kind) # ParseError
  PROVE  ParseSearchListing(data, Kind) \in Offers
<1>1. PICK id \in Ids : data = SearchItem(id)
                          \/ data = [SearchItem(id) EXCEPT !.categorySubCb = None]
  BY DEF Items
<1>2. /\ data.id = id /\ data.priceCzk = SearchItem(id).priceCzk
      /\ data.latitude = SearchItem(id).latitude /\ data.longitude = SearchItem(id).longitude
  BY <1>1 DEF SearchItem
<1>3. /\ ParsePrice(data, None) = ParsePrice(SearchItem(id), None)
      /\ ParseLocality(data) = ParseLocality(SearchItem(id))
  BY <1>2 DEF ParsePrice, ParseLocality
<1>4. ParseSearchListing(data, Kind) = OfferOf(id)
  BY <1>2, <1>3 DEF ParseSearchListing, OfferOf
<1>5. QED
  BY <1>4 DEF Offers

LEMMA ShownAreIds ==
  ASSUME site \in Seq(Ids), NEW p \in Nat \ {0}
  PROVE  Shown(p) \in Seq(Ids)
<1> DEFINE m == (p - 1) * Limit + 1
           n == IF p * Limit < Len(site) THEN p * Limit ELSE Len(site)
<1>1. Limit \in Nat /\ p - 1 \in Nat
  BY LimitAssumption
<1>2. (p - 1) * Limit \in Nat /\ p * Limit \in Nat
  BY <1>1
<1>3. m \in Int /\ n \in Int /\ m >= 1 /\ n <= Len(site)
  <2> HIDE DEF m, n
  <2>1. Len(site) \in Nat
    OBVIOUS
  <2>2. QED
    BY <1>2, <2>1 DEF m, n
<1>4. \A i \in m..n : site[i] \in Ids
  <2> HIDE DEF m, n
  <2>1. QED
    BY <1>3
<1>5. SubSeq(site, m, n) \in Seq(Ids)
  <2> HIDE DEF m, n
  <2>1. QED
    BY <1>3, <1>4, SubSeqProperties
<1>6. QED
  BY <1>5 DEF Shown

\* What can be wrong with a search page leaves its listings, or one of them
\* without its category.
LEMMA SearchPageData ==
  ASSUME NEW p, NEW page \in SearchPages(p)
  PROVE  \/ page.data = SearchData(p)
         \/ page.data = [SearchData(p) EXCEPT !.page = p + 1]
         \/ page.data = [SearchData(p) EXCEPT !.limit = 0]
         \/ page.data = [SearchData(p) EXCEPT !.total = Text]
         \/ \E i \in DOMAIN SearchData(p).results :
                 page.data = [SearchData(p) EXCEPT !.results[i].categorySubCb = None]
<1> DEFINE good  == SearchData(p)
           links == ToSet(Shown(p))
           Page(data) == [query |-> "estatesSearch", data |-> data, links |-> links]
<1>1. \/ page \in {Page(good), Page([good EXCEPT !.page = p + 1]),
                  Page([good EXCEPT !.limit = 0]), Page([good EXCEPT !.total = Text]),
                  [Page(good) EXCEPT !.query = "other"]}
      \/ page \in {[Page(good) EXCEPT !.links = links \ {id}] : id \in links}
      \/ page \in {Page([good EXCEPT !.results[i].categorySubCb = None]) :
                      i \in DOMAIN good.results}
  BY Zenon DEF SearchPages
<1>2. \A data : /\ Page(data).data = data
                /\ [Page(data) EXCEPT !.query = "other"].data = data
                /\ \A id : [Page(data) EXCEPT !.links = links \ {id}].data = data
  OBVIOUS
<1> DEFINE Damaged(i) == [good EXCEPT !.results[i].categorySubCb = None]
<1>3. \/ page.data = good
      \/ page.data = [good EXCEPT !.page = p + 1]
      \/ page.data = [good EXCEPT !.limit = 0]
      \/ page.data = [good EXCEPT !.total = Text]
      \/ \E i \in DOMAIN good.results : page.data = Damaged(i)
  <2>1. CASE page \in {[Page(good) EXCEPT !.links = links \ {id}] : id \in links}
    BY <1>2, <2>1
  <2>2. CASE page \in {Page(Damaged(i)) : i \in DOMAIN good.results}
    <3> HIDE DEF good, Page, Damaged
    <3>1. QED
      BY <1>2, <2>2
  <2>3. QED
    <3> HIDE DEF good, Page
    <3>1. QED
      BY <1>1, <1>2, <2>1, <2>2
<1>4. QED
  BY <1>3

\* Whatever is wrong with a search page, the listings on it are of the site.
LEMMA SearchPagesHoldItems ==
  ASSUME site \in Seq(Ids), NEW p \in Nat \ {0}, NEW page \in SearchPages(p)
  PROVE  page.data.results \in Seq(Items)
<1> DEFINE good == SearchData(p)
<1>1. Shown(p) \in Seq(Ids)
  BY ShownAreIds
<1>2. good.results \in Seq(Items)
  <2>1. good.results = [i \in 1..Len(Shown(p)) |-> SearchItem(Shown(p)[i])]
    BY <1>1 DEF SearchData
  <2>2. \A i \in 1..Len(Shown(p)) : SearchItem(Shown(p)[i]) \in Items
    BY <1>1 DEF Items
  <2>3. QED
    BY <1>1, <2>1, <2>2
<1>3. ASSUME NEW i \in DOMAIN good.results
      PROVE  [good EXCEPT !.results[i].categorySubCb = None].results \in Seq(Items)
  <2>1. /\ i \in 1..Len(good.results) /\ i \in DOMAIN Shown(p)
        /\ good.results[i] = SearchItem(Shown(p)[i]) /\ Shown(p)[i] \in Ids
    BY <1>1, <1>2 DEF SearchData
  <2>2. [good.results[i] EXCEPT !.categorySubCb = None] \in Items
    BY <2>1 DEF Items
  <2>3. [good.results EXCEPT ![i] = [good.results[i] EXCEPT !.categorySubCb = None]]
          \in Seq(Items)
    BY <1>2, <2>1, <2>2, ExceptSeq
  <2>4. [good EXCEPT !.results[i].categorySubCb = None].results
          = [good.results EXCEPT ![i] = [good.results[i] EXCEPT !.categorySubCb = None]]
    BY DEF SearchData
  <2>5. QED
    BY <2>3, <2>4
<1>4. CASE page.data = good
  BY <1>2, <1>4
<1>5. CASE \/ page.data = [good EXCEPT !.page = p + 1]
           \/ page.data = [good EXCEPT !.limit = 0]
           \/ page.data = [good EXCEPT !.total = Text]
  BY <1>2, <1>5 DEF SearchData
<1>6. CASE \E i \in DOMAIN good.results :
              page.data = [good EXCEPT !.results[i].categorySubCb = None]
  BY <1>3, <1>6
<1>7. QED
  BY <1>4, <1>5, <1>6, SearchPageData

LEMMA ParsedSearch ==
  ASSUME NEW page, page.data.results \in Seq(Items), ParseSearch(page, Kind) # ParseError
  PROVE  ParseSearch(page, Kind).listings \in Seq(Offers)
<1> DEFINE results  == page.data.results
           listings == [i \in 1..Len(results) |-> ParseSearchListing(results[i], Kind)]
<1>1. /\ ParseSearch(page, Kind).listings = listings
      /\ \A i \in 1..Len(results) : ParseSearchListing(results[i], Kind) # ParseError
  BY DEF ParseSearch, ParseSearchData
<1>2. \A i \in 1..Len(results) : ParseSearchListing(results[i], Kind) \in Offers
  <2>1. \A i \in 1..Len(results) : results[i] \in Items
    OBVIOUS
  <2>2. QED
    BY <1>1, <2>1, ItemIsOffer
<1>3. listings \in Seq(Offers)
  <2>1. Len(results) \in Nat
    OBVIOUS
  <2> HIDE DEF results
  <2>2. QED
    BY <1>2, <2>1, IsASeq
<1>4. QED
  BY <1>1, <1>3

LEMMA ParsedDetailId ==
  ASSUME NEW page, NEW id, ParseDetail(page, id, Kind) # ParseError
  PROVE  ParseDetail(page, id, Kind).sreality_id = id
BY DEF ParseDetail

-----------------------------------------------------------------------------
(* The traversal *)

FromSearch(o) == [sreality_id |-> o.sreality_id, kind |-> o.kind, usable_area_m2 |-> None,
                  price |-> o.price, locality |-> o.locality]

Yields == {FromSearch(o) : o \in Offers}
            \cup UNION {{ParseDetail(page, id, Kind) : page \in DetailPages(id)} \ {ParseError} :
                        id \in Ids}

\* What is read, and what iter_kind is about to read, is of the site.
Reading ==
    /\ {"at", "page_number", "rest", "seen_ids"} \subseteq DOMAIN trav
    /\ trav.page_number \in Nat \ {0}
    /\ trav.rest \in Seq(Offers)
    /\ trav.at = "search" =>
         /\ fetch.page = trav.page_number
         /\ fetch.at = "html" => body.data.results \in Seq(Items)
    /\ trav.at = "detail" =>
         /\ fetch.page = 0
         /\ trav.rest # <<>> /\ Current.sreality_id \notin trav.seen_ids
         /\ fetch.at = "html" => body \in DetailPages(Current.sreality_id)

\* Whatever has been yielded has been seen.
Feeding ==
    /\ yielded \in Seq(Yields)
    /\ \A i \in 1..Len(yielded) : yielded[i].sreality_id \in trav.seen_ids

TraversalInv == CallInv /\ site \in Seq(Ids) /\ Reading /\ Feeding

LEMMA InitTraversal == Init => TraversalInv
<1> SUFFICES ASSUME Init PROVE TraversalInv
  OBVIOUS
<1>1. CallInv
  BY NoFetchIsCall DEF Init, ClientInit, CallInv
<1>2. QED
  BY <1>1, SiteAssumption DEF Init, TraversalInv, Reading, Feeding

LEMMA CurrentOffer ==
  ASSUME Reading, trav.rest # <<>>
  PROVE  Current \in Offers /\ Current.sreality_id \in Ids /\ Tail(trav.rest) \in Seq(Offers)
BY OffersHaveIds, HeadTailProperties DEF Reading, Current

\* A listing that was not seen before continues the feed.
LEMMA YieldStep ==
  ASSUME Reading, Feeding, ~Ended, trav.rest # <<>>, Current.sreality_id \notin trav.seen_ids,
         NEW detail \in Yields, detail.sreality_id = Current.sreality_id,
         NEW available, YieldDetail(detail, available), UNCHANGED site
  PROVE  Reading' /\ Feeding' /\ Feed!FeedNext
<1> PICK id \in Ids : id = Current.sreality_id
  BY CurrentOffer
<1>1. Tail(trav.rest) \in Seq(Offers)
  BY CurrentOffer
<1>2. /\ {"at", "page_number", "rest", "seen_ids"} \subseteq DOMAIN trav'
      /\ trav'.at = "listing" /\ trav'.page_number = trav.page_number
      /\ trav'.rest = Tail(trav.rest) /\ trav'.seen_ids = trav.seen_ids \cup {id}
  BY DEF YieldDetail, Reading
<1>3. /\ yielded' \in Seq(Yields) /\ Len(yielded') = Len(yielded) + 1
      /\ \A i \in 1..Len(yielded) : yielded'[i] = yielded[i]
      /\ yielded'[Len(yielded) + 1] = detail
  BY AppendProperties DEF YieldDetail, Feeding
<1>4. Len(yielded) \in Nat /\ DOMAIN yielded = 1..Len(yielded)
      /\ DOMAIN yielded' = 1..(Len(yielded) + 1)
  BY <1>3 DEF Feeding
<1>5. Reading'
  BY <1>1, <1>2 DEF Reading
<1>6. Feeding'
  BY <1>2, <1>3, <1>4 DEF Feeding
<1>7. Feed!Yield(id)
  <2> DEFINE ids == [i \in DOMAIN yielded |-> yielded[i].sreality_id]
  <2>1. ids \in Seq(Ids \cup trav.seen_ids) /\ Len(ids) = Len(yielded)
    BY <1>4 DEF Feeding
  <2>2. \A i \in 1..Len(ids) : ids[i] # id
    BY <1>4, <2>1 DEF Feeding
  <2>3. ids' = Append(ids, id)
    <3>1. /\ Append(ids, id) = [i \in 1..(Len(yielded) + 1) |->
                                  IF i = Len(yielded) + 1 THEN id ELSE ids[i]]
      BY <2>1, <1>4
    <3>2. QED
      BY <1>3, <1>4, <3>1
  <2>4. ~Ended'
    BY <1>2 DEF Ended
  <2>5. QED
    BY <2>2, <2>3, <2>4 DEF Feed!Yield
<1>8. Feed!FeedNext
  BY <1>7 DEF Feed!FeedNext
<1>9. QED
  BY <1>5, <1>6, <1>8

\* A call of the client starts with a fresh count.
LEMMA CallStep ==
  ASSUME NEW target \in Nat, Call(target)
  PROVE  CallInv' /\ fetch'.page = target /\ fetch'.at = "request"
<1>1. fetch' \in Calls
  BY NoFetchIsCall DEF Call, Calls, NoFetch
<1>2. fetch'.sent = 0 /\ fetch'.attempt = 1 /\ fetch'.hops = 0 /\ fetch'.page = target
      /\ fetch'.at = "request"
  BY DEF Call, NoFetch
<1>3. QED
  BY <1>1, <1>2 DEF CallInv, Spent, MAX_REDIRECTS

\* The client keeps the page it was asked for.
LEMMA ClientKeepsPage == ASSUME CallInv, Client PROVE fetch'.page = fetch.page
<1>1. CASE Answer
  BY <1>1 DEF Answer, LedAway, Retry, GiveUp, Refused, Redirected, NotSsr, Html, Get,
              CallInv, Calls
<1>2. CASE Follow \/ Reject
  BY <1>2 DEF Follow, Reject, Return, CallInv, Calls
<1>3. QED
  BY <1>1, <1>2 DEF Client

LEMMA DownloadStep ==
  ASSUME TraversalInv, Download
  PROVE  TraversalInv' /\ UNCHANGED <<yielded, Ended, trav>>
<1>1. CallInv' /\ fetch'.page = fetch.page /\ UNCHANGED <<site, trav, yielded>>
  BY ClientStep, ClientKeepsPage DEF Download, TraversalInv, siteVars
<1>2. trav.at = "search" /\ fetch'.at = "html" => body'.data.results \in Seq(Items)
  BY <1>1, SearchPagesHoldItems DEF Download, TraversalInv, Reading
<1>3. trav.at = "detail" /\ fetch'.at = "html" => body' \in DetailPages(Current.sreality_id)
  BY <1>1 DEF Download, TraversalInv, Reading
<1>4. Current' = Current
  BY <1>1 DEF Current
<1>5. Reading' /\ Feeding'
  BY <1>1, <1>2, <1>3, <1>4 DEF TraversalInv, Reading, Feeding, DetailPages
<1>6. QED
  BY <1>1, <1>5 DEF TraversalInv, Ended

\* Control that moves on without a call and without a new listing.
LEMMA MoveStep ==
  ASSUME Reading, Feeding, NEW at \in {"page", "complete", "failed"}, Goto(at),
         UNCHANGED yielded
  PROVE  Reading' /\ Feeding' /\ trav'.at = at
<1>1. /\ {"at", "page_number", "rest", "seen_ids"} \subseteq DOMAIN trav'
      /\ trav'.at = at /\ trav'.page_number = trav.page_number
      /\ trav'.rest = trav.rest /\ trav'.seen_ids = trav.seen_ids
  BY DEF Goto, Reading
<1>2. QED
  BY <1>1 DEF Reading, Feeding

\* The feed ends with the traversal, and is untouched by everything else.
LEMMA FeedEnds ==
  ASSUME ~Ended, trav'.at \in {"complete", "failed"}, UNCHANGED yielded
  PROVE  Feed!FeedNext
BY DEF Ended, Feed!FeedNext, Feed!End

LEMMA FeedStays ==
  ASSUME ~Ended, ~Ended', UNCHANGED yielded
  PROVE  UNCHANGED Feed!feedVars
BY DEF Feed!feedVars

LEMMA IterKindStep ==
  ASSUME TraversalInv, IterKind
  PROVE  TraversalInv' /\ [Feed!FeedNext]_(Feed!feedVars)
<1>1. CallInv /\ site \in Seq(Ids) /\ Reading /\ Feeding
  BY DEF TraversalInv
<1>2. ~Ended /\ UNCHANGED site
  BY DEF IterKind, Ended, siteVars, FetchSearch, Complete, ReadSearch, SkipSeen, NoLink, FetchDetail,
         ReadDetail, FallBack, NextPage, NewListing, AtListing
<1>3. CASE FetchSearch
  <2>1. CallInv' /\ fetch'.page = trav.page_number /\ fetch'.at = "request"
    BY <1>1, <1>3, CallStep DEF FetchSearch, Reading
  <2>2. /\ {"at", "page_number", "rest", "seen_ids"} \subseteq DOMAIN trav'
        /\ trav'.at = "search" /\ trav'.page_number = trav.page_number
        /\ trav'.rest = trav.rest /\ trav'.seen_ids = trav.seen_ids
    BY <1>1, <1>3 DEF FetchSearch, Goto, Reading
  <2>3. Reading' /\ Feeding' /\ UNCHANGED yielded /\ ~Ended'
    BY <1>1, <1>3, <2>1, <2>2 DEF FetchSearch, Reading, Feeding, Ended
  <2>4. QED
    BY <1>1, <1>2, <2>1, <2>3, FeedStays DEF TraversalInv
<1>4. CASE Complete \/ NoLink
  <2>1. PICK at \in {"complete", "failed"} : Goto(at) /\ UNCHANGED <<yielded, fetch>>
    BY <1>4 DEF Complete, NoLink, clientVars
  <2>2. Reading' /\ Feeding' /\ trav'.at = at /\ CallInv'
    BY <1>1, <2>1, MoveStep DEF CallInv
  <2>3. QED
    BY <1>1, <1>2, <2>1, <2>2, FeedEnds DEF TraversalInv
<1>5. CASE ReadSearch
  <2> DEFINE page == IF fetch.at = "html" THEN ParseSearch(body, Kind) ELSE ParseError
  <2>1. CallInv' /\ UNCHANGED yielded
    BY <1>5, NoFetchIsCall DEF ReadSearch, CallInv
  <2>2. CASE Acceptable(page)
    <3>1. page.listings \in Seq(Offers)
      BY <1>1, <1>5, <2>2, ParsedSearch DEF ReadSearch, Acceptable, Reading
    <3>2. /\ {"at", "page_number", "rest", "seen_ids"} \subseteq DOMAIN trav'
          /\ trav'.at = "listing" /\ trav'.page_number = trav.page_number
          /\ trav'.rest = page.listings /\ trav'.seen_ids = trav.seen_ids
      BY <1>1, <1>5, <2>2 DEF ReadSearch, Reading
    <3>3. Reading' /\ Feeding' /\ ~Ended'
      BY <1>1, <2>1, <3>1, <3>2 DEF Reading, Feeding, Ended
    <3>4. QED
      BY <1>1, <1>2, <2>1, <3>3, FeedStays DEF TraversalInv
  <2>3. CASE ~Acceptable(page)
    <3>1. Goto("failed")
      BY <1>5, <2>3 DEF ReadSearch
    <3>2. Reading' /\ Feeding' /\ trav'.at = "failed"
      BY <1>1, <2>1, <3>1, MoveStep
    <3>3. QED
      BY <1>1, <1>2, <2>1, <3>2, FeedEnds DEF TraversalInv
  <2>4. QED
    BY <2>2, <2>3
<1>6. CASE SkipSeen
  <2>1. CallInv' /\ UNCHANGED yielded
    BY <1>1, <1>6 DEF SkipSeen, clientVars, CallInv
  <2>2. Tail(trav.rest) \in Seq(Offers)
    BY <1>1, <1>6, CurrentOffer DEF SkipSeen, AtListing
  <2>3. /\ {"at", "page_number", "rest", "seen_ids"} \subseteq DOMAIN trav'
        /\ trav'.at = "listing" /\ trav'.page_number = trav.page_number
        /\ trav'.rest = Tail(trav.rest) /\ trav'.seen_ids = trav.seen_ids
    BY <1>1, <1>6 DEF SkipSeen, AtListing, Reading
  <2>4. Reading' /\ Feeding' /\ ~Ended'
    BY <1>1, <2>1, <2>2, <2>3 DEF Reading, Feeding, Ended
  <2>5. QED
    BY <1>1, <1>2, <2>1, <2>4, FeedStays DEF TraversalInv
<1>7. CASE FetchDetail
  <2>1. CallInv' /\ fetch'.page = 0 /\ fetch'.at = "request"
    BY <1>7, CallStep DEF FetchDetail
  <2>2. /\ {"at", "page_number", "rest", "seen_ids"} \subseteq DOMAIN trav'
        /\ trav'.at = "detail" /\ trav'.page_number = trav.page_number
        /\ trav'.rest = trav.rest /\ trav'.seen_ids = trav.seen_ids
    BY <1>1, <1>7 DEF FetchDetail, Goto, Reading
  <2>3. trav.rest # <<>> /\ Current.sreality_id \notin trav.seen_ids /\ Current' = Current
    BY <1>7, <2>2 DEF FetchDetail, NewListing, AtListing, Current
  <2>4. Reading' /\ Feeding' /\ UNCHANGED yielded /\ ~Ended'
    BY <1>1, <1>7, <2>1, <2>2, <2>3 DEF FetchDetail, Reading, Feeding, Ended
  <2>5. QED
    BY <1>1, <1>2, <2>1, <2>4, FeedStays DEF TraversalInv
<1>8. CASE ReadDetail
  <2> DEFINE detail == IF fetch.at = "html" THEN ParseDetail(body, Current.sreality_id, Kind)
                       ELSE ParseError
  <2>1. CallInv' /\ trav.rest # <<>> /\ Current.sreality_id \notin trav.seen_ids
    BY <1>1, <1>8, NoFetchIsCall DEF ReadDetail, CallInv, Reading
  <2>2. Current \in Offers /\ Current.sreality_id \in Ids
    BY <1>1, <2>1, CurrentOffer
  <2>3. CASE Goto("failed") /\ UNCHANGED yielded
    BY <1>1, <1>2, <2>1, <2>3, MoveStep, FeedEnds DEF TraversalInv
  <2>4. CASE YieldDetail(DetailFromSearch, FALSE)
    <3>1. /\ DetailFromSearch \in Yields
          /\ DetailFromSearch.sreality_id = Current.sreality_id
      BY <2>2 DEF DetailFromSearch, FromSearch, Yields
    <3>2. QED
      BY <1>1, <1>2, <2>1, <2>4, <3>1, YieldStep DEF TraversalInv
  <2>5. CASE detail # ParseError /\ YieldDetail(detail, TRUE)
    <3>1. /\ detail = ParseDetail(body, Current.sreality_id, Kind)
          /\ body \in DetailPages(Current.sreality_id)
      BY <1>1, <1>8, <2>5 DEF ReadDetail, Reading
    <3>2. detail \in Yields /\ detail.sreality_id = Current.sreality_id
      <4> HIDE DEF detail
      <4>1. QED
        BY <2>2, <2>5, <3>1, ParsedDetailId DEF Yields
    <3>3. QED
      <4> HIDE DEF detail
      <4>1. QED
        BY <1>1, <1>2, <2>1, <2>5, <3>2, YieldStep DEF TraversalInv
  <2>6. QED
    BY <1>8, <2>3, <2>4, <2>5 DEF ReadDetail
<1>9. CASE FallBack
  <2>1. CallInv' /\ trav.rest # <<>> /\ Current.sreality_id \notin trav.seen_ids
    BY <1>1, <1>9 DEF FallBack, NewListing, AtListing, clientVars, CallInv
  <2>2. Current \in Offers
    BY <1>1, <2>1, CurrentOffer
  <2>3. DetailFromSearch \in Yields /\ DetailFromSearch.sreality_id = Current.sreality_id
    BY <2>2 DEF DetailFromSearch, FromSearch, Yields
  <2>4. QED
    BY <1>1, <1>2, <1>9, <2>1, <2>3, YieldStep DEF FallBack, TraversalInv
<1>10. CASE NextPage
  <2>1. CallInv' /\ UNCHANGED yielded
    BY <1>1, <1>10 DEF NextPage, clientVars, CallInv
  <2>2. /\ {"at", "page_number", "rest", "seen_ids"} \subseteq DOMAIN trav'
        /\ trav'.at = "page" /\ trav'.page_number = trav.page_number + 1
        /\ trav'.rest = trav.rest /\ trav'.seen_ids = trav.seen_ids
    BY <1>1, <1>10 DEF NextPage, Reading
  <2>3. Reading' /\ Feeding' /\ ~Ended'
    BY <1>1, <2>1, <2>2 DEF Reading, Feeding, Ended
  <2>4. QED
    BY <1>1, <1>2, <2>1, <2>3, FeedStays DEF TraversalInv
<1>11. QED
  BY <1>3, <1>4, <1>5, <1>6, <1>7, <1>8, <1>9, <1>10 DEF IterKind

-----------------------------------------------------------------------------
(* The site *)

LEMMA ChangeStep ==
  ASSUME TraversalInv, Change
  PROVE  TraversalInv' /\ UNCHANGED Feed!feedVars
<1>1. UNCHANGED <<travVars, clientVars>>
  BY DEF Change, Appear, Vanish
<1>2. UNCHANGED <<fetch, body, trav, yielded, Current>>
  BY <1>1 DEF travVars, clientVars, Current
<1>3. site' \in Seq(Ids)
  <2>1. ASSUME NEW i \in 1..Len(site), site' = RemoveAt(site, i)
        PROVE  site' \in Seq(Ids)
    <3>1. /\ SubSeq(site, 1, i - 1) \in Seq(Ids)
          /\ SubSeq(site, i + 1, Len(site)) \in Seq(Ids)
      BY SubSeqProperties DEF TraversalInv
    <3>2. QED
      BY <2>1, <3>1 DEF RemoveAt
  <2>2. ASSUME NEW id \in Ids, NEW i \in 1..(Len(site) + 1), site' = InsertAt(site, i, id)
        PROVE  site' \in Seq(Ids)
    <3>1. /\ SubSeq(site, 1, i - 1) \in Seq(Ids) /\ <<id>> \in Seq(Ids)
          /\ SubSeq(site, i, Len(site)) \in Seq(Ids)
      BY SubSeqProperties DEF TraversalInv
    <3>2. QED
      BY <2>2, <3>1 DEF InsertAt
  <2>3. QED
    BY <2>1, <2>2 DEF Change, Appear, Vanish, TraversalInv
<1>4. CallInv' /\ Feeding'
  BY <1>2 DEF TraversalInv, CallInv, Feeding
<1>5. Reading'
  BY <1>2 DEF TraversalInv, Reading, DetailPages
<1>6. QED
  BY <1>2, <1>3, <1>4, <1>5 DEF TraversalInv, Feed!feedVars, Ended

LEMMA TraversalStep ==
  ASSUME TraversalInv, [Next]_vars
  PROVE  TraversalInv' /\ [Feed!FeedNext]_(Feed!feedVars)
<1>1. CASE Download
  BY <1>1, DownloadStep DEF Feed!feedVars, Ended
<1>2. CASE IterKind
  BY <1>2, IterKindStep
<1>3. CASE Change
  BY <1>3, ChangeStep
<1>4. CASE UNCHANGED vars
  <2>1. UNCHANGED <<site, fetch, body, trav, yielded, Current>>
    BY <1>4 DEF vars, siteVars, travVars, clientVars, Current
  <2>2. QED
    BY <2>1 DEF TraversalInv, CallInv, Reading, Feeding, DetailPages, Feed!feedVars, Ended
<1>5. QED
  BY <1>1, <1>2, <1>3, <1>4 DEF Next

LEMMA TraversalInvariant == Spec => []TraversalInv
<1>1. TraversalInv /\ [Next]_vars => TraversalInv'
  BY TraversalStep
<1>2. QED
  BY <1>1, InitTraversal, PTL DEF Spec

\* Every step of the traversal keeps the pace, and a step that sends a request
\* is an answered one of a call that waits.
LEMMA PaceStep ==
  ASSUME TraversalInv, PaceInv, [Next]_vars
  PROVE  PaceInv' /\ PoliteStep
<1>1. CallInv /\ fetch.sent \in Nat
  BY DEF TraversalInv, CallInv, Calls
<1>2. CASE Client
  <2>1. fetch'.sent > fetch.sent => fetch.at = "request"
    <3>1. CASE Answer
      <4>1. \E outcome, d : Get(outcome, d)
        BY <3>1 DEF Answer, LedAway, Retry, GiveUp, Refused, Redirected, NotSsr, Html
      <4>2. QED
        BY <4>1 DEF Get
    <3>2. CASE Follow \/ Reject
      <4>1. fetch'.sent = fetch.sent
        BY <1>1, <3>2 DEF Follow, Reject, Return, CallInv, Calls
      <4>2. QED
        BY <1>1, <4>1
    <3>3. QED
      BY <1>2, <3>1, <3>2 DEF Client
  <2>2. QED
    BY <1>1, <1>2, <2>1, ClientPaces, PacedIsPolite DEF PoliteStep
<1>3. CASE fetch' = NoFetch /\ UNCHANGED <<age, gap>>
  BY <1>1, <1>3 DEF NoFetch, PaceInv, PoliteStep
<1>4. CASE \E target \in Nat : Call(target)
  <2>1. fetch'.attempt = 1 /\ fetch'.sent = 0 /\ UNCHANGED <<age, gap>>
    BY <1>4 DEF Call, NoFetch
  <2>2. QED
    BY <1>1, <2>1 DEF PaceInv, PoliteStep
<1>5. CASE UNCHANGED clientVars
  BY <1>1, <1>5 DEF clientVars, PaceInv, PoliteStep
<1>6. Client \/ (fetch' = NoFetch /\ UNCHANGED <<age, gap>>) \/ (\E target \in Nat : Call(target))
        \/ UNCHANGED clientVars
  BY DEF Next, vars, Download, IterKind, FetchSearch, Complete, ReadSearch, SkipSeen, NoLink,
         FetchDetail, ReadDetail, FallBack, NextPage, Change, Appear, Vanish, TraversalInv, Reading
<1>7. QED
  BY <1>2, <1>3, <1>4, <1>5, <1>6

\* Between any two requests of the session lies the configured delay, and before
\* a retry also its back-off, whatever the site answers (_pace,
\* _wait_before_retry).
THEOREM PaceCorrect == Spec => PoliteRequests
<1>1. Init => PaceInv
  BY LongAgoAssumption DEF Init, ClientInit, NoFetch, PaceInv
<1>2. TraversalInv /\ PaceInv /\ [Next]_vars => PaceInv' /\ PoliteStep
  BY PaceStep
<1>3. PoliteStep => [PoliteStep]_clientVars
  OBVIOUS
<1>4. QED
  BY <1>1, <1>2, <1>3, TraversalInvariant, PTL DEF Spec, PoliteRequests, PoliteStep

\* What DetailsFitSchema says of one yielded detail.
Fits(d) ==
    /\ Schema!ListingRow(d)
    /\ d.price.source_price_czk = OptionalInt(Ads[d.sreality_id].priceCzk)
    /\ d.price.source_price_czk \notin {None, 0} => d.price.price_czk = d.price.source_price_czk
    /\ d.price.derived_price_per_sqm_czk # None =>
         /\ d.price.price_czk # None
         /\ d.price.derived_price_per_sqm_czk * d.usable_area_m2 <= d.price.price_czk

LEMMA QuotientFits ==
  \A price \in Nat, area \in Nat \ {0} :
     price \div area \in Nat /\ (price \div area) * area <= price
OBVIOUS

\* A price and a place that are parsed from what an ad holds fit the schema.
LEMMA ParsedFits ==
  ASSUME NEW id \in Ids, NEW data, NEW area \in Nat \cup {None}, NEW d,
         data.priceCzk = Ads[id].priceCzk,
         data.latitude = Ads[id].latitude, data.longitude = Ads[id].longitude,
         d.sreality_id = id, d.usable_area_m2 = area,
         d.price = ParsePrice(data, area), d.locality = ParseLocality(data)
  PROVE  Fits(d)
<1> DEFINE source == OptionalInt(Ads[id].priceCzk)
           price  == IF source # None /\ source > 0 THEN source ELSE None
           derived == IF price # None /\ area # None /\ area > 0 THEN price \div area ELSE None
<1>1. source \in Nat \cup {None}
  BY AdsAssumption DEF OptionalInt
<1>2. /\ d.price.source_price_czk = source /\ d.price.price_czk = price
      /\ d.price.price_on_request = (source = 0) /\ d.price.derived_price_per_sqm_czk = derived
  BY DEF ParsePrice
<1>3. price \in Nat \cup {None}
  BY <1>1
<1>4. derived # None => /\ price # None /\ derived \in Nat /\ derived * area <= price
  <2> HIDE DEF price
  <2>1. QED
    BY <1>3, QuotientFits
<1>5. /\ (d.locality.latitude = None) = (d.locality.longitude = None)
      /\ Schema!Within(d.locality.latitude, 90) /\ Schema!Within(d.locality.longitude, 180)
  <2>1. CASE OptionalInt(data.latitude) = None \/ OptionalInt(data.longitude) = None
    BY <2>1 DEF ParseLocality, Schema!Within
  <2>2. CASE ~(OptionalInt(data.latitude) = None \/ OptionalInt(data.longitude) = None)
    <3>1. d.locality.latitude = Ads[id].latitude /\ d.locality.longitude = Ads[id].longitude
      BY <2>2 DEF ParseLocality
    <3>2. /\ Ads[id].latitude \in -90..90 /\ Ads[id].latitude # None
          /\ Ads[id].longitude \in -180..180 /\ Ads[id].longitude # None
      BY <2>2, AdsAssumption DEF OptionalInt
    <3>3. QED
      BY <3>1, <3>2 DEF Schema!Within
  <2>3. QED
    BY <2>1, <2>2
<1>6. Schema!ListingRow(d)
  <2>1. /\ Schema!NonNegative(source) /\ Schema!NonNegative(price)
        /\ Schema!NonNegative(derived) /\ Schema!NonNegative(area)
    <3> HIDE DEF source, price, derived
    <3>1. QED
      BY <1>1, <1>3, <1>4 DEF Schema!NonNegative
  <2>2. source = 0 => price = None
    OBVIOUS
  <2> HIDE DEF source, price, derived
  <2>3. QED
    BY <1>2, <1>5, <2>1, <2>2 DEF Schema!ListingRow
<1>7. source \notin {None, 0} => price = source
  BY <1>1
<1>8. QED
  <2> HIDE DEF source, price, derived
  <2>1. source = OptionalInt(Ads[d.sreality_id].priceCzk)
    BY DEF source
  <2>2. QED
    BY <1>2, <1>4, <1>6, <1>7, <2>1 DEF Fits

LEMMA YieldsFit == ASSUME NEW d \in Yields PROVE Fits(d)
<1>1. CASE d \in {FromSearch(o) : o \in Offers}
  <2>1. PICK id \in Ids : d = FromSearch(OfferOf(id))
    BY <1>1 DEF Offers
  <2>2. /\ d.sreality_id = id /\ d.usable_area_m2 = None
        /\ d.price = ParsePrice(SearchItem(id), None) /\ d.locality = ParseLocality(SearchItem(id))
    BY <2>1 DEF FromSearch, OfferOf
  <2>3. /\ SearchItem(id).priceCzk = Ads[id].priceCzk
        /\ SearchItem(id).latitude = Ads[id].latitude
        /\ SearchItem(id).longitude = Ads[id].longitude
    BY DEF SearchItem
  <2>4. QED
    BY <2>2, <2>3, ParsedFits
<1>2. CASE d \notin {FromSearch(o) : o \in Offers}
  <2>1. PICK id \in Ids :
          d \in {ParseDetail(page, id, Kind) : page \in DetailPages(id)} \ {ParseError}
    <3> DEFINE Parsed(i) == {ParseDetail(page, i, Kind) : page \in DetailPages(i)} \ {ParseError}
    <3>1. d \in UNION {Parsed(i) : i \in Ids}
      BY <1>2 DEF Yields
    <3>2. PICK id \in Ids : d \in Parsed(id)
      <4> HIDE DEF Parsed
      <4>1. QED
        BY <3>1
    <3>3. QED
      BY <3>2
  <2> PICK page \in DetailPages(id) : d = ParseDetail(page, id, Kind) /\ d # ParseError
    BY <2>1
  <2>2. PICK subtype : page.data = DetailData(id, subtype)
    BY DEF DetailPages
  <2>3. /\ page.data.priceCzk = Ads[id].priceCzk /\ page.data.usableArea = Ads[id].usableArea
        /\ page.data.latitude = Ads[id].latitude /\ page.data.longitude = Ads[id].longitude
    BY <2>2 DEF DetailData
  <2>4. PICK area : area = OptionalInt(page.data.usableArea)
    OBVIOUS
  <2>5. /\ d.sreality_id = id /\ d.usable_area_m2 = area
        /\ d.price = ParsePrice(page.data, area) /\ d.locality = ParseLocality(page.data)
    BY <2>4 DEF ParseDetail
  <2>6. area \in Nat \cup {None}
    BY <2>3, <2>4, AdsAssumption DEF OptionalInt
  <2>7. QED
    BY <2>3, <2>5, <2>6, ParsedFits
<1>3. QED
  BY <1>1, <1>2

\* Every detail the traversal yields, from its own page or from the search page,
\* has the price of its ad and a row the migrated schema accepts (parser.py,
\* _detail_from_search).
THEOREM DetailsCorrect == Spec => []DetailsFitSchema
<1>1. TraversalInv => DetailsFitSchema
  BY YieldsFit DEF TraversalInv, Feeding, Fits, DetailsFitSchema
<1>2. QED
  BY <1>1, TraversalInvariant, PTL

\* A call of the client costs at most MaxAttempts * (MAX_REDIRECTS + 1) requests,
\* whatever the site answers (_get_ssr_html, _request_with_allowed_redirects).
THEOREM RequestsBounded == Spec => []RequestBudget
<1>1. TraversalInv => RequestBudget
  BY AttemptsAssumption DEF TraversalInv, CallInv, Calls, Spent, RequestBudget, MAX_REDIRECTS
<1>2. QED
  BY <1>1, TraversalInvariant, PTL

\* However the site changes and answers, iter_kind yields no listing twice, ends
\* once, and yields nothing after that: what Fetch of ScrapePipeline relies on.
THEOREM FeedImplemented == Spec => ImplementsListingFeed
<1>1. Init => Feed!FeedInit
  BY DEF Init, Ended, Feed!FeedInit
<1>2. TraversalInv /\ [Next]_vars => [Feed!FeedNext]_(Feed!feedVars)
  BY TraversalStep
<1>3. QED
  BY <1>1, <1>2, TraversalInvariant, PTL DEF Spec, ImplementsListingFeed, Feed!FeedSpec

-----------------------------------------------------------------------------
(* Nothing is pushed out *)

\* A listing that lies on the site behind position n.
Beyond(id, n) == \E j \in 1..Len(site) : site[j] = id /\ j > n

\* The number of pages is enough for page p, once it is known.
Reaches(p) == trav.total_pages # None => trav.total_pages >= p

InRest(id) == \E k \in 1..Len(trav.rest) : trav.rest[k].sreality_id = id

\* A page that was delivered says of a listing that it holds it, or that there
\* are more pages.
Delivered(id, data, n) ==
    \/ \E k \in 1..Len(data.results) : data.results[k].id = id
    \/ Beyond(id, n) /\ (data.total # Text => data.total > n)

\* The numbers on a page, right or wrong.
Says(data) == data.limit \in {0, Limit} /\ data.total \in Nat \cup {Text}

\* Where a listing can be while it has not been seen: on a page that is still to
\* be read and within the number of pages, on the page in hand, or among the
\* listings taken from it.
Ahead(id) ==
    /\ trav.at = "page" =>
          Beyond(id, (trav.page_number - 1) * Limit) /\ Reaches(trav.page_number)
    /\ trav.at = "search" =>
          IF fetch.at = "html" THEN Delivered(id, body.data, trav.page_number * Limit)
          ELSE Beyond(id, (trav.page_number - 1) * Limit)
    /\ trav.at \in {"listing", "detail"} =>
          \/ InRest(id)
          \/ Beyond(id, trav.page_number * Limit) /\ Reaches(trav.page_number + 1)
    /\ trav.at # "complete"

SeenInv ==
    /\ "total_pages" \in DOMAIN trav
    /\ trav.total_pages # None => trav.total_pages \in Nat
    /\ trav.at = "search" /\ fetch.at = "html" => Says(body.data)
    /\ \A id \in trav.seen_ids : \E i \in 1..Len(yielded) : yielded[i].sreality_id = id

AheadInv ==
    ~removed => \A id \in ToSet(SiteAtStart) : id \in trav.seen_ids \/ Ahead(id)

\* An appearing listing moves the others to the right, if at all.
LEMMA InsertKeepsBeyond ==
  ASSUME site \in Seq(Ids), NEW new \in Ids, NEW i \in 1..(Len(site) + 1),
         site' = InsertAt(site, i, new), NEW id, NEW n \in Int, Beyond(id, n)
  PROVE  Beyond(id, n)'
<1> DEFINE left == SubSeq(site, 1, i - 1)
           right == SubSeq(site, i, Len(site))
<1>1. PICK j \in 1..Len(site) : site[j] = id /\ j > n
  BY DEF Beyond
<1>2. /\ left \in Seq(Ids) /\ Len(left) = i - 1
      /\ \A k \in 1..(i - 1) : left[k] = site[k]
  BY SubSeqProperties
<1>3. /\ right \in Seq(Ids) /\ Len(right) = Len(site) - i + 1
      /\ \A k \in 1..(Len(site) - i + 1) : right[k] = site[i + k - 1]
  BY SubSeqProperties
<1>4. site' = (left \o <<new>>) \o right
  BY DEF InsertAt
<1> HIDE DEF left, right
<1>5. /\ left \o <<new>> \in Seq(Ids) /\ Len(left \o <<new>>) = i
      /\ \A k \in 1..(i - 1) : (left \o <<new>>)[k] = left[k]
  BY <1>2
<1>6. /\ Len(site') = Len(site) + 1
      /\ \A k \in 1..(i - 1) : site'[k] = site[k]
      /\ \A k \in i..Len(site) : site'[k + 1] = site[k]
  <2> DEFINE front == left \o <<new>>
  <2>1. /\ front \in Seq(Ids) /\ Len(front) = i /\ site' = front \o right
        /\ \A k \in 1..(i - 1) : front[k] = site[k]
    BY <1>2, <1>4, <1>5
  <2> HIDE DEF front
  <2>2. Len(site') = Len(site) + 1
    <3>1. Len(front \o right) = Len(front) + Len(right)
      BY <1>3, <2>1, ConcatProperties
    <3>2. Len(site) \in Nat /\ i \in Int
      OBVIOUS
    <3>3. QED
      BY <1>3, <2>1, <3>1, <3>2
  <2>3. \A k \in 1..(i - 1) : site'[k] = site[k]
    BY <1>3, <2>1
  <2>4. ASSUME NEW k \in i..Len(site) PROVE site'[k + 1] = site[k]
    <3> PICK m \in Int : m = k + 1 - i
      OBVIOUS
    <3>1. m \in 1..Len(right) /\ right[m] = site[k]
      <4>1. m \in 1..(Len(site) - i + 1) /\ i + m - 1 = k
        OBVIOUS
      <4>2. right[m] = site[i + m - 1]
        BY <1>3, <4>1
      <4>3. QED
        BY <1>3, <4>1, <4>2
    <3>2. site'[i + m] = right[m]
      BY <1>3, <2>1, <3>1
    <3>3. i + m = k + 1
      OBVIOUS
    <3>4. QED
      BY <3>1, <3>2, <3>3
  <2>5. QED
    BY <2>2, <2>3, <2>4
<1>7. CASE j < i
  <2>1. j \in 1..Len(site') /\ site'[j] = id
    BY <1>1, <1>6, <1>7
  <2>2. QED
    BY <1>1, <2>1 DEF Beyond
<1>8. CASE j >= i
  <2>1. j + 1 \in 1..Len(site') /\ site'[j + 1] = id /\ j + 1 > n
    BY <1>1, <1>6, <1>8
  <2>2. QED
    BY <2>1 DEF Beyond
<1>9. QED
  BY <1>7, <1>8

\* Whatever is wrong with a page, a listing behind the earlier pages is on it or
\* makes more pages.
LEMMA PageDelivers ==
  ASSUME site \in Seq(Ids), NEW p \in Nat \ {0}, NEW page \in SearchPages(p),
         NEW id, Beyond(id, (p - 1) * Limit)
  PROVE  Delivered(id, page.data, p * Limit)
<1> DEFINE from == (p - 1) * Limit
           upto == p * Limit
           shown == Shown(p)
           good == SearchData(p)
<1>1. from \in Nat /\ upto \in Nat /\ upto = from + Limit /\ Limit \in Nat \ {0}
  BY LimitAssumption
<1>2. PICK j \in 1..Len(site) : site[j] = id /\ j > from
  BY DEF Beyond
<1>3. shown \in Seq(Ids)
  BY ShownAreIds
<1>4. /\ good.limit = Limit /\ good.total = Len(site)
      /\ good.results = [k \in 1..Len(shown) |-> SearchItem(shown[k])]
  BY <1>3 DEF SearchData
<1>5. \/ \E k \in 1..Len(shown) : shown[k] = id
      \/ Beyond(id, upto) /\ Len(site) > upto
  <2> HIDE DEF from, upto
  <2>1. CASE j > upto
    BY <1>1, <1>2, <2>1 DEF Beyond
  <2>2. CASE j <= upto
    <3> DEFINE last == IF upto < Len(site) THEN upto ELSE Len(site)
    <3>1. shown = SubSeq(site, from + 1, last)
      BY DEF Shown, from, upto
    <3>2. from + 1 \in 1..Len(site) /\ last \in 1..Len(site) /\ j \in (from + 1)..last
      BY <1>1, <1>2, <2>2
    <3> HIDE DEF last, shown
    <3>3. /\ Len(shown) = last - (from + 1) + 1
          /\ \A k \in 1..(last - (from + 1) + 1) : shown[k] = site[from + 1 + k - 1]
      BY <3>1, <3>2, SubSeqProperties
    <3> PICK k \in Int : k = j - from
      BY <1>1
    <3>4. k \in 1..(last - (from + 1) + 1) /\ from + 1 + k - 1 = j
      BY <1>1, <3>2
    <3>5. k \in 1..Len(shown) /\ shown[k] = site[j]
      <4>1. shown[k] = site[from + 1 + k - 1]
        BY <3>3, <3>4
      <4>2. QED
        BY <3>3, <3>4, <4>1
    <3>6. QED
      BY <1>2, <3>5
  <2>3. QED
    BY <1>1, <2>1, <2>2
<1>6. /\ page.data.total \in {Len(site), Text}
      /\ Len(page.data.results) = Len(shown)
      /\ \A k \in 1..Len(shown) : page.data.results[k].id = shown[k]
  <2>1. ASSUME NEW i \in DOMAIN good.results
        PROVE  LET data == [good EXCEPT !.results[i].categorySubCb = None]
               IN  /\ data.total = Len(site)
                   /\ Len(data.results) = Len(shown)
                   /\ \A k \in 1..Len(shown) : data.results[k].id = shown[k]
    <3> DEFINE item == [good.results[i] EXCEPT !.categorySubCb = None]
               results == [good.results EXCEPT ![i] = item]
    <3>1. [good EXCEPT !.results[i].categorySubCb = None].results = results
      BY DEF SearchData
    <3>2. item.id = shown[i] /\ i \in 1..Len(shown)
      BY <1>4 DEF SearchItem
    <3>3. \A k \in 1..Len(shown) : good.results[k].id = shown[k]
      BY <1>4 DEF SearchItem
    <3>4. Len(results) = Len(shown)
      BY <1>3, <1>4
    <3>5. \A k \in 1..Len(shown) : results[k].id = shown[k]
      <4> HIDE DEF item
      <4>1. QED
        BY <1>4, <3>2, <3>3
    <3>6. QED
      BY <3>1, <3>4, <3>5 DEF SearchData
  <2>2. ASSUME page.data.results = good.results
        PROVE  /\ Len(page.data.results) = Len(shown)
               /\ \A k \in 1..Len(shown) : page.data.results[k].id = shown[k]
    BY <1>3, <1>4, <2>2 DEF SearchItem
  <2>3. CASE \E i \in DOMAIN good.results :
               page.data = [good EXCEPT !.results[i].categorySubCb = None]
    BY <2>1, <2>3
  <2>4. CASE \/ page.data = good
             \/ page.data = [good EXCEPT !.page = p + 1]
             \/ page.data = [good EXCEPT !.limit = 0]
             \/ page.data = [good EXCEPT !.total = Text]
    <3>1. /\ page.data.results = good.results
          /\ page.data.total \in {Len(site), Text}
      BY <2>4 DEF SearchData
    <3>2. QED
      BY <2>2, <3>1
  <2>5. QED
    BY <2>3, <2>4, SearchPageData
<1>7. QED
  <2> HIDE DEF shown, upto
  <2>1. Delivered(id, page.data, upto)
    BY <1>5, <1>6 DEF Delivered
  <2>2. QED
    BY <2>1 DEF upto

LEMMA PageSays ==
  ASSUME site \in Seq(Ids), NEW p, NEW page \in SearchPages(p)
  PROVE  Says(page.data)
<1>1. Len(site) \in Nat
  OBVIOUS
<1>2. page.data.limit \in {0, Limit} /\ page.data.total \in {Len(site), Text}
  <2>1. CASE \E i \in DOMAIN SearchData(p).results :
               page.data = [SearchData(p) EXCEPT !.results[i].categorySubCb = None]
    BY <2>1 DEF SearchData
  <2>2. CASE \/ page.data = SearchData(p)
             \/ page.data = [SearchData(p) EXCEPT !.page = p + 1]
             \/ page.data = [SearchData(p) EXCEPT !.limit = 0]
             \/ page.data = [SearchData(p) EXCEPT !.total = Text]
    BY <2>2 DEF SearchData
  <2>3. QED
    BY <2>1, <2>2, SearchPageData
<1>3. QED
  BY <1>1, <1>2 DEF Says

LEMMA PagesReach ==
  ASSUME NEW total \in Nat, NEW p \in Nat, total > p * Limit
  PROVE  (total + Limit - 1) \div Limit \in Int /\ (total + Limit - 1) \div Limit >= p + 1
<1> DEFINE sum == total + Limit - 1
           rows == p * Limit
<1>1. Limit \in Nat \ {0} /\ rows \in Nat /\ (p + 1) * Limit = rows + Limit
  BY LimitAssumption
<1>2. sum \in Nat /\ sum >= (p + 1) * Limit
  <2> HIDE DEF rows
  <2>1. total > rows
    BY DEF rows
  <2>2. QED
    BY <1>1, <2>1
<1> HIDE DEF sum, rows
<1>3. sum \div Limit \in Int /\ sum \div Limit >= p + 1
  BY <1>1, <1>2
<1>4. QED
  BY <1>3 DEF sum

\* What is taken from a page that can be used: its listings, and enough pages
\* for what lies behind it.
LEMMA PageTaken ==
  ASSUME NEW id, NEW data, NEW page, data.results \in Seq(Items),
         page = ParseSearchData(data, Kind), page # ParseError, page.limit > 0,
         trav.page_number \in Nat \ {0}, SeenInv, Says(data),
         Delivered(id, data, trav.page_number * Limit)
  PROVE  \/ \E k \in 1..Len(page.listings) : page.listings[k].sreality_id = id
         \/ /\ Beyond(id, trav.page_number * Limit)
            /\ TotalPages(page) >= trav.page_number + 1
<1> DEFINE results  == data.results
           listings == [k \in 1..Len(results) |-> ParseSearchListing(results[k], Kind)]
<1>1. /\ page.listings = listings /\ page.limit = data.limit /\ page.total = data.total
      /\ None \notin {OptionalInt(data.limit), OptionalInt(data.total)}
      /\ \A k \in 1..Len(results) : ParseSearchListing(results[k], Kind) # ParseError
  BY DEF ParseSearchData
<1>2. \A k \in 1..Len(results) : listings[k].sreality_id = results[k].id
  BY <1>1 DEF ParseSearchListing
<1>3. Len(listings) = Len(results) /\ Len(results) \in Nat
  <2> HIDE DEF results
  <2>1. Len(results) \in Nat
    BY DEF results
  <2>2. QED
    BY <2>1
<1>4. data.limit = Limit /\ data.total # Text
  BY <1>1, LimitAssumption DEF Says, OptionalInt
<1>5. CASE \E k \in 1..Len(results) : results[k].id = id
  <2> HIDE DEF results, listings
  <2>1. QED
    BY <1>1, <1>2, <1>3, <1>5
<1>6. CASE /\ Beyond(id, trav.page_number * Limit)
           /\ data.total \in Nat /\ data.total > trav.page_number * Limit
  <2> DEFINE pages == (page.total + page.limit - 1) \div page.limit
  <2>1. pages \in Int /\ pages >= trav.page_number + 1
    BY <1>1, <1>4, <1>6, PagesReach
  <2> HIDE DEF pages
  <2>2. pages < 1 <=> FALSE
    BY <2>1
  <2>3. TotalPages(page) = IF trav.total_pages = None \/ trav.total_pages < pages
                           THEN pages ELSE trav.total_pages
    BY <2>2 DEF TotalPages, pages
  <2>4. TotalPages(page) >= trav.page_number + 1
    BY <2>1, <2>3 DEF SeenInv
  <2>5. QED
    BY <1>6, <2>4
<1>7. QED
  BY <1>4, <1>5, <1>6 DEF Delivered, Says

\* The number of pages is a number.
LEMMA TotalPagesIsNat ==
  ASSUME NEW page, page.total \in Nat, page.limit \in Nat \ {0}, SeenInv
  PROVE  TotalPages(page) \in Nat
<1> DEFINE sum == page.total + page.limit - 1
           pages == sum \div page.limit
<1>1. sum \in Nat
  OBVIOUS
<1>2. pages \in Nat
  <2> HIDE DEF sum
  <2>1. QED
    BY <1>1
<1> HIDE DEF pages
<1>3. TotalPages(page) = LET current == IF pages < 1 THEN 1 ELSE pages
                         IN  IF trav.total_pages = None \/ trav.total_pages < current
                             THEN current ELSE trav.total_pages
  BY DEF TotalPages, pages
<1>4. QED
  BY <1>2, <1>3 DEF SeenInv

\* What every reachable state says of itself.
MissInv == TraversalInv /\ SeenInv /\ AheadInv

LEMMA InitMiss == Init => SeenInv /\ AheadInv
<1> SUFFICES ASSUME Init PROVE SeenInv /\ AheadInv
  OBVIOUS
<1>1. SeenInv
  BY DEF Init, SeenInv
<1>2. \A id \in ToSet(SiteAtStart) : Beyond(id, (trav.page_number - 1) * Limit)
  <2>1. (trav.page_number - 1) * Limit = 0
    BY LimitAssumption DEF Init
  <2>2. QED
    BY <2>1, SiteAssumption DEF Init, Beyond, ToSet
<1>3. AheadInv
  BY <1>2 DEF Init, AheadInv, Ahead, Reaches
<1>4. QED
  BY <1>1, <1>3

\* The client delivers a page of the site as it is.
LEMMA MissDownload == ASSUME MissInv, Download PROVE SeenInv' /\ AheadInv'
<1>1. /\ UNCHANGED <<site, removed, trav, yielded>> /\ fetch.at \in {"request", "redirect"}
      /\ fetch'.at = "html" => body' \in IF fetch.page > 0 THEN SearchPages(fetch.page)
                                         ELSE DetailPages(Current.sreality_id)
  BY DEF Download, siteVars, Client, Answer, LedAway, Retry, GiveUp, Refused, Redirected, NotSsr,
         Html, Get, Follow, Reject
<1>2. /\ site \in Seq(Ids) /\ trav.page_number \in Nat \ {0}
      /\ trav.at = "search" => fetch.page = trav.page_number
  BY DEF MissInv, TraversalInv, Reading
<1>3. ASSUME trav.at = "search", fetch'.at = "html"
      PROVE  /\ body' \in SearchPages(trav.page_number) /\ Says(body'.data)
             /\ \A id : Beyond(id, (trav.page_number - 1) * Limit)
                         => Delivered(id, body'.data, trav.page_number * Limit)
  BY <1>1, <1>2, <1>3, PageSays, PageDelivers
<1>4. SeenInv'
  BY <1>1, <1>3 DEF MissInv, SeenInv, Says
<1>5. ASSUME ~removed, NEW id \in ToSet(SiteAtStart), id \notin trav.seen_ids
      PROVE  Ahead(id)'
  <2>1. Ahead(id)
    BY <1>5 DEF MissInv, AheadInv
  <2>2. CASE trav.at = "search"
    <3>1. Beyond(id, (trav.page_number - 1) * Limit)
      BY <1>1, <2>1, <2>2 DEF Ahead
    <3>2. QED
      BY <1>1, <1>3, <2>2, <3>1 DEF Ahead, Beyond, Delivered
  <2>3. CASE trav.at # "search"
    BY <1>1, <2>1, <2>3 DEF Ahead, Beyond, Reaches, InRest
  <2>4. QED
    BY <2>2, <2>3
<1>6. QED
  BY <1>1, <1>4, <1>5 DEF AheadInv

\* A listing that is yielded has been seen, and the others stay in the rest.
LEMMA MissYield ==
  ASSUME MissInv, trav.at \in {"listing", "detail"}, trav.rest # <<>>,
         NEW detail, detail.sreality_id = Current.sreality_id,
         NEW available, YieldDetail(detail, available), UNCHANGED siteVars
  PROVE  SeenInv' /\ AheadInv'
<1> PICK cur : cur = Current.sreality_id
  OBVIOUS
<1>1. trav.rest \in Seq(Offers) /\ yielded \in Seq(Yields)
  BY DEF MissInv, TraversalInv, Reading, Feeding
<1>2. /\ {"at", "page_number", "rest", "seen_ids", "total_pages"} \subseteq DOMAIN trav
      /\ trav.page_number \in Nat \ {0}
  BY DEF MissInv, TraversalInv, Reading, SeenInv
<1>3. /\ {"at", "page_number", "rest", "seen_ids", "total_pages"} \subseteq DOMAIN trav'
      /\ trav'.at = "listing" /\ trav'.page_number = trav.page_number
      /\ trav'.rest = Tail(trav.rest) /\ trav'.seen_ids = trav.seen_ids \cup {cur}
      /\ trav'.total_pages = trav.total_pages
  BY <1>2 DEF YieldDetail
<1>4. SeenInv'
  <2>1. /\ Len(yielded') = Len(yielded) + 1 /\ Len(yielded) \in Nat
        /\ \A i \in 1..Len(yielded) : yielded'[i] = yielded[i]
        /\ yielded'[Len(yielded) + 1].sreality_id = cur
    BY <1>1 DEF YieldDetail
  <2>2. ASSUME NEW id \in trav'.seen_ids
        PROVE  \E i \in 1..Len(yielded') : yielded'[i].sreality_id = id
    <3>1. CASE id = cur
      BY <2>1, <3>1
    <3>2. CASE id \in trav.seen_ids
      <4>1. PICK i \in 1..Len(yielded) : yielded[i].sreality_id = id
        BY <3>2 DEF MissInv, SeenInv
      <4>2. QED
        BY <2>1, <4>1
    <3>3. QED
      BY <1>3, <3>1, <3>2
  <2>3. QED
    BY <1>3, <2>2 DEF MissInv, SeenInv
<1>5. ASSUME ~removed, NEW id \in ToSet(SiteAtStart), id \notin trav'.seen_ids
      PROVE  Ahead(id)'
  <2>1. Ahead(id) /\ id # cur
    BY <1>3, <1>5 DEF MissInv, AheadInv
  <2>2. CASE InRest(id)
    <3>1. PICK k \in 1..Len(trav.rest) : trav.rest[k].sreality_id = id
      BY <2>2 DEF InRest
    <3>2. k # 1
      BY <1>1, <2>1, <3>1 DEF Current
    <3>3. k - 1 \in 1..Len(trav'.rest) /\ trav'.rest[k - 1] = trav.rest[k]
      BY <1>1, <1>3, <3>1, <3>2
    <3>4. InRest(id)'
      BY <3>1, <3>3 DEF InRest
    <3>5. QED
      BY <1>3, <3>4 DEF Ahead
  <2>3. CASE Beyond(id, trav.page_number * Limit) /\ Reaches(trav.page_number + 1)
    BY <1>3, <2>3 DEF Ahead, Beyond, Reaches, siteVars
  <2>4. QED
    BY <2>1, <2>2, <2>3 DEF Ahead
<1>6. QED
  BY <1>4, <1>5 DEF AheadInv, siteVars

\* Control that moves on keeps what has been seen.
LEMMA MissGoto ==
  ASSUME MissInv, NEW at, Goto(at), at # "search", UNCHANGED yielded
  PROVE  /\ SeenInv'
         /\ trav'.at = at /\ trav'.page_number = trav.page_number /\ trav'.rest = trav.rest
         /\ trav'.seen_ids = trav.seen_ids /\ trav'.total_pages = trav.total_pages
<1>1. "at" \in DOMAIN trav
  BY DEF MissInv, TraversalInv, Reading
<1>2. /\ DOMAIN trav' = DOMAIN trav
      /\ trav'.at = at /\ trav'.page_number = trav.page_number /\ trav'.rest = trav.rest
      /\ trav'.seen_ids = trav.seen_ids /\ trav'.total_pages = trav.total_pages
  BY <1>1 DEF Goto
<1>3. QED
  BY <1>2 DEF MissInv, SeenInv

LEMMA MissRead == ASSUME MissInv, ReadSearch PROVE SeenInv' /\ AheadInv'
<1> DEFINE page == IF fetch.at = "html" THEN ParseSearch(body, Kind) ELSE ParseError
<1>1. /\ trav.at = "search" /\ UNCHANGED <<site, removed, yielded>>
      /\ trav.page_number \in Nat \ {0}
      /\ {"at", "page_number", "rest", "seen_ids", "total_pages"} \subseteq DOMAIN trav
  BY DEF ReadSearch, siteVars, MissInv, TraversalInv, Reading, SeenInv
<1>2. CASE ~Acceptable(page)
  <2>1. Goto("failed")
    BY <1>2 DEF ReadSearch
  <2>2. SeenInv' /\ trav'.at = "failed"
    BY <1>1, <2>1, MissGoto
  <2>3. QED
    BY <2>2 DEF AheadInv, Ahead
<1>3. CASE Acceptable(page)
  <2>1. /\ fetch.at = "html" /\ page = ParseSearchData(body.data, Kind)
        /\ page # ParseError /\ page.limit > 0
    BY <1>3 DEF Acceptable, ParseSearch
  <2>2. body.data.results \in Seq(Items) /\ Says(body.data)
    BY <1>1, <2>1 DEF MissInv, TraversalInv, Reading, SeenInv
  <2>3. page.total \in Nat /\ page.limit \in Nat \ {0}
    <3>1. /\ page.limit = body.data.limit /\ page.total = body.data.total
          /\ None \notin {OptionalInt(body.data.limit), OptionalInt(body.data.total)}
      BY <2>1 DEF ParseSearchData
    <3>2. QED
      BY <2>1, <2>2, <3>1, LimitAssumption DEF Says, OptionalInt
  <2>4. TotalPages(page) \in Nat
    <3> HIDE DEF page
    <3>1. QED
      BY <2>3, TotalPagesIsNat DEF MissInv
  <2>5. /\ DOMAIN trav' = DOMAIN trav
        /\ trav'.at = "listing" /\ trav'.page_number = trav.page_number
        /\ trav'.rest = page.listings /\ trav'.seen_ids = trav.seen_ids
        /\ trav'.total_pages = TotalPages(page)
    BY <1>1, <1>3 DEF ReadSearch
  <2>6. SeenInv'
    BY <1>1, <2>4, <2>5 DEF MissInv, SeenInv
  <2>7. ASSUME ~removed, NEW id \in ToSet(SiteAtStart), id \notin trav.seen_ids
        PROVE  Ahead(id)'
    <3>1. Delivered(id, body.data, trav.page_number * Limit)
      BY <1>1, <2>1, <2>7 DEF MissInv, AheadInv, Ahead
    <3>2. \/ \E k \in 1..Len(page.listings) : page.listings[k].sreality_id = id
          \/ /\ Beyond(id, trav.page_number * Limit)
             /\ TotalPages(page) >= trav.page_number + 1
      <4> HIDE DEF page
      <4>1. QED
        BY <1>1, <2>1, <2>2, <3>1, PageTaken DEF MissInv
    <3>3. QED
      <4> HIDE DEF page
      <4>1. QED
        BY <1>1, <2>5, <3>2 DEF Ahead, InRest, Beyond, Reaches
  <2>8. QED
    BY <1>1, <2>5, <2>6, <2>7 DEF AheadInv
<1>4. QED
  BY <1>2, <1>3

LEMMA MissSkip == ASSUME MissInv, SkipSeen PROVE SeenInv' /\ AheadInv'
<1>1. /\ trav.at = "listing" /\ trav.rest # <<>> /\ trav.rest \in Seq(Offers)
      /\ Current.sreality_id \in trav.seen_ids
      /\ UNCHANGED <<site, removed, yielded>>
      /\ {"at", "page_number", "rest", "seen_ids", "total_pages"} \subseteq DOMAIN trav
  BY DEF SkipSeen, AtListing, siteVars, MissInv, TraversalInv, Reading, SeenInv
<1>2. /\ DOMAIN trav' = DOMAIN trav
      /\ trav'.at = "listing" /\ trav'.page_number = trav.page_number
      /\ trav'.rest = Tail(trav.rest) /\ trav'.seen_ids = trav.seen_ids
      /\ trav'.total_pages = trav.total_pages
  BY <1>1 DEF SkipSeen
<1>3. SeenInv'
  BY <1>1, <1>2 DEF MissInv, SeenInv
<1>4. ASSUME ~removed, NEW id \in ToSet(SiteAtStart), id \notin trav.seen_ids
      PROVE  Ahead(id)'
  <2>1. Ahead(id)
    BY <1>4 DEF MissInv, AheadInv
  <2>2. CASE InRest(id)
    <3>1. PICK k \in 1..Len(trav.rest) : trav.rest[k].sreality_id = id
      BY <2>2 DEF InRest
    <3>2. k # 1
      BY <1>1, <1>4, <3>1 DEF Current
    <3>3. k - 1 \in 1..Len(trav'.rest) /\ trav'.rest[k - 1] = trav.rest[k]
      BY <1>1, <1>2, <3>1, <3>2
    <3>4. InRest(id)'
      BY <3>1, <3>3 DEF InRest
    <3>5. QED
      BY <1>2, <3>4 DEF Ahead
  <2>3. CASE Beyond(id, trav.page_number * Limit) /\ Reaches(trav.page_number + 1)
    BY <1>1, <1>2, <2>3 DEF Ahead, Beyond, Reaches
  <2>4. QED
    BY <1>1, <2>1, <2>2, <2>3 DEF Ahead
<1>5. QED
  BY <1>1, <1>2, <1>3, <1>4 DEF AheadInv

LEMMA MissIterKind == ASSUME MissInv, IterKind PROVE SeenInv' /\ AheadInv'
<1>1. /\ trav.page_number \in Nat \ {0}
      /\ {"at", "page_number", "rest", "seen_ids", "total_pages"} \subseteq DOMAIN trav
  BY DEF MissInv, TraversalInv, Reading, SeenInv
<1>2. CASE FetchSearch
  <2>1. /\ trav.at = "page" /\ fetch'.at = "request" /\ UNCHANGED <<site, removed, yielded>>
    BY <1>2 DEF FetchSearch, Call, NoFetch, siteVars
  <2>2. /\ DOMAIN trav' = DOMAIN trav
        /\ trav'.at = "search" /\ trav'.page_number = trav.page_number
        /\ trav'.seen_ids = trav.seen_ids /\ trav'.total_pages = trav.total_pages
    BY <1>1, <1>2 DEF FetchSearch, Goto
  <2>3. QED
    BY <2>1, <2>2 DEF MissInv, SeenInv, AheadInv, Ahead, Beyond
<1>3. CASE Complete
  <2>1. /\ trav.at = "page" /\ ~MorePages /\ Goto("complete") /\ UNCHANGED <<removed, yielded>>
    BY <1>3 DEF Complete, siteVars
  <2>2. SeenInv' /\ trav'.at = "complete" /\ trav'.seen_ids = trav.seen_ids
    BY <2>1, MissGoto
  <2>3. \A id : ~Ahead(id)
    BY <1>1, <2>1 DEF Ahead, Reaches, MorePages, MissInv, SeenInv
  <2>4. QED
    BY <2>1, <2>2, <2>3 DEF MissInv, AheadInv
<1>4. CASE NoLink
  <2>1. Goto("failed") /\ UNCHANGED yielded
    BY <1>4 DEF NoLink
  <2>2. SeenInv' /\ trav'.at = "failed"
    BY <2>1, MissGoto
  <2>3. QED
    BY <2>2 DEF AheadInv, Ahead
<1>5. CASE FetchDetail
  <2>1. /\ trav.at = "listing" /\ Goto("detail") /\ UNCHANGED <<site, removed, yielded>>
    BY <1>5 DEF FetchDetail, NewListing, AtListing, siteVars
  <2>2. /\ SeenInv'
        /\ trav'.at = "detail" /\ trav'.page_number = trav.page_number /\ trav'.rest = trav.rest
        /\ trav'.seen_ids = trav.seen_ids /\ trav'.total_pages = trav.total_pages
    BY <2>1, MissGoto
  <2>3. QED
    BY <2>1, <2>2 DEF MissInv, AheadInv, Ahead, InRest, Beyond, Reaches
<1>6. CASE NextPage
  <2>1. /\ trav.at = "listing" /\ trav.rest = <<>> /\ UNCHANGED <<site, removed, yielded>>
    BY <1>6 DEF NextPage, siteVars
  <2>2. /\ DOMAIN trav' = DOMAIN trav
        /\ trav'.at = "page" /\ trav'.page_number = trav.page_number + 1
        /\ trav'.seen_ids = trav.seen_ids /\ trav'.total_pages = trav.total_pages
    BY <1>1, <1>6 DEF NextPage
  <2>3. (trav'.page_number - 1) = trav.page_number
    BY <1>1, <2>2
  <2>4. SeenInv'
    BY <2>1, <2>2 DEF MissInv, SeenInv
  <2>5. ASSUME NEW id, Ahead(id) PROVE Ahead(id)'
    <3>1. Beyond(id, trav.page_number * Limit) /\ Reaches(trav.page_number + 1)
      BY <2>1, <2>5 DEF Ahead, InRest
    <3>2. Beyond(id, (trav.page_number - 1) * Limit)' /\ Reaches(trav.page_number)'
      BY <2>1, <2>2, <2>3, <3>1 DEF Beyond, Reaches
    <3>3. QED
      BY <2>2, <3>2 DEF Ahead
  <2>6. QED
    BY <2>1, <2>2, <2>4, <2>5 DEF MissInv, AheadInv
<1>7. CASE FallBack
  <2>1. /\ trav.at = "listing" /\ trav.rest # <<>> /\ UNCHANGED siteVars
        /\ YieldDetail(DetailFromSearch, FALSE)
        /\ DetailFromSearch.sreality_id = Current.sreality_id
    BY <1>7 DEF FallBack, NewListing, AtListing, DetailFromSearch
  <2>2. QED
    BY <2>1, MissYield
<1>8. CASE ReadDetail
  <2> DEFINE detail == IF fetch.at = "html" THEN ParseDetail(body, Current.sreality_id, Kind)
                       ELSE ParseError
  <2>1. trav.at = "detail" /\ trav.rest # <<>> /\ UNCHANGED siteVars
    BY <1>8 DEF ReadDetail, MissInv, TraversalInv, Reading
  <2>2. CASE Goto("failed") /\ UNCHANGED yielded
    <3>1. SeenInv' /\ trav'.at = "failed"
      BY <2>2, MissGoto
    <3>2. QED
      BY <3>1 DEF AheadInv, Ahead
  <2>3. CASE YieldDetail(DetailFromSearch, FALSE)
    <3>1. DetailFromSearch.sreality_id = Current.sreality_id
      BY DEF DetailFromSearch
    <3>2. QED
      BY <2>1, <2>3, <3>1, MissYield
  <2>4. CASE detail # ParseError /\ YieldDetail(detail, TRUE)
    <3>1. detail.sreality_id = Current.sreality_id
      BY <2>4, ParsedDetailId
    <3>2. QED
      <4> HIDE DEF detail
      <4>1. QED
        BY <2>1, <2>4, <3>1, MissYield
  <2>5. QED
    BY <1>8, <2>2, <2>3, <2>4 DEF ReadDetail
<1>9. QED
  BY <1>2, <1>3, <1>4, <1>5, <1>6, <1>7, <1>8, MissRead, MissSkip DEF IterKind

LEMMA MissChange == ASSUME MissInv, Change PROVE SeenInv' /\ AheadInv'
<1>1. UNCHANGED <<fetch, body, trav, yielded>>
  BY DEF Change, Appear, Vanish, travVars, clientVars
<1>2. SeenInv'
  BY <1>1 DEF MissInv, SeenInv, Says
<1>3. CASE \E i \in 1..Len(site) : Vanish(i)
  BY <1>2, <1>3 DEF Vanish, AheadInv
<1>4. CASE \E new \in Ids, i \in 1..(Len(site) + 1) : Appear(new, i)
  <2>1. PICK new \in Ids, i \in 1..(Len(site) + 1) :
          site' = InsertAt(site, i, new) /\ UNCHANGED removed
    BY <1>4 DEF Appear
  <2>2. \A n \in Int : \A id : Beyond(id, n) => Beyond(id, n)'
    BY <2>1, InsertKeepsBeyond DEF MissInv, TraversalInv
  <2>3. PICK before \in Int, after \in Int :
          before = (trav.page_number - 1) * Limit /\ after = trav.page_number * Limit
    BY LimitAssumption DEF MissInv, TraversalInv, Reading
  <2>4. ASSUME NEW id, Ahead(id) PROVE Ahead(id)'
    <3>1. /\ Beyond(id, (trav.page_number - 1) * Limit) => Beyond(id, (trav.page_number - 1) * Limit)'
          /\ Beyond(id, trav.page_number * Limit) => Beyond(id, trav.page_number * Limit)'
      <4>1. Beyond(id, before) => Beyond(id, before)'
        BY <2>2
      <4>2. Beyond(id, after) => Beyond(id, after)'
        BY <2>2
      <4>3. QED
        BY <1>1, <2>3, <4>1, <4>2 DEF Beyond
    <3>2. QED
      BY <1>1, <2>4, <3>1 DEF Ahead, Delivered, InRest, Reaches
  <2>5. QED
    BY <1>1, <1>2, <2>1, <2>4 DEF MissInv, AheadInv
<1>5. QED
  <2>1. DOMAIN site = 1..Len(site)
    BY DEF MissInv, TraversalInv
  <2>2. QED
    BY <1>3, <1>4, <2>1 DEF Change

LEMMA MissStep == ASSUME MissInv, [Next]_vars PROVE MissInv'
<1>1. TraversalInv'
  BY TraversalStep DEF MissInv
<1>2. SeenInv' /\ AheadInv'
  <2>1. CASE UNCHANGED vars
    <3>1. UNCHANGED <<site, removed, fetch, body, trav, yielded>>
      BY <2>1 DEF vars, siteVars, travVars, clientVars
    <3>2. QED
      BY <3>1 DEF MissInv, SeenInv, AheadInv, Ahead, Beyond, Reaches, InRest, Delivered, Says
  <2>2. QED
    BY <2>1, MissDownload, MissIterKind, MissChange DEF Next
<1>3. QED
  BY <1>1, <1>2 DEF MissInv

\* For any site, page size and number of appearing listings: a traversal that
\* completes while nothing was removed has yielded every listing that was on the
\* site when it began (iter_kind, _detail_from_search).
THEOREM NothingMissed == Spec => []NothingIsPushedOut
<1>1. Init => MissInv
  BY InitTraversal, InitMiss DEF MissInv
<1>2. MissInv /\ [Next]_vars => MissInv'
  BY MissStep
<1>3. MissInv => NothingIsPushedOut
  <2> SUFFICES ASSUME MissInv, trav.at = "complete", ~removed, NEW id \in ToSet(SiteAtStart)
               PROVE  id \in YieldedIds
    BY DEF NothingIsPushedOut
  <2>1. id \in trav.seen_ids
    BY DEF MissInv, AheadInv, Ahead
  <2>2. QED
    <3>1. PICK i \in 1..Len(yielded) : yielded[i].sreality_id = id
      BY <2>1 DEF MissInv, SeenInv
    <3>2. DOMAIN yielded = 1..Len(yielded)
      BY DEF MissInv, TraversalInv, Feeding
    <3>3. QED
      BY <3>1, <3>2 DEF YieldedIds
<1>4. QED
  BY <1>1, <1>2, <1>3, PTL DEF Spec
=============================================================================
