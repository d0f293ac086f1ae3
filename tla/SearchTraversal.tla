-------------------------- MODULE SearchTraversal --------------------------
(***************************************************************************)
(* scraper/source.py: the traversal of one category's search pages, with   *)
(* its client and parser, over a site that changes while it is read.       *)
(* Sreality (external) lists the offers in some order and cuts the list    *)
(* into pages; an offer may appear or vanish between any two requests, and *)
(* a page may come without something the parser or the source needs.       *)
(***************************************************************************)
EXTENDS SrealityClient, SsrParser, SequencesExt

CONSTANTS
    Ids,            \* Sreality ids of the category
    Kind,           \* the category
    Ads,            \* Ads[id]: the JSON values of a listing
    SiteAtStart,    \* the ids listed when the traversal starts, in order
    Limit,          \* listings per search page
    MaxChanges      \* bound: changes of the site in a behaviour

ASSUME KindAssumption == Kind \in Kinds
ASSUME SiteAssumption == SiteAtStart \in Seq(Ids)
ASSUME LimitAssumption == Limit \in Nat \ {0}
ASSUME AdsAssumption ==
    \A id \in Ids :
        /\ {Ads[id].priceCzk, Ads[id].usableArea} \subseteq Nat \cup {None, Text}
        /\ Ads[id].latitude  \in -90..90 \cup {None, Text}
        /\ Ads[id].longitude \in -180..180 \cup {None, Text}

VARIABLES
    site,       \* the ids Sreality lists now
    removed,    \* something has been removed from it
    changes,    \* how often it has changed
    body,       \* the page the last call returned
    trav,       \* the locals of iter_kind
    yielded     \* the details it has yielded

siteVars == <<site, removed, changes>>
travVars == <<body, trav, yielded>>
vars     == <<siteVars, travVars, clientVars>>

-----------------------------------------------------------------------------
(* Sreality *)

SearchItem(id) ==
    [id |-> id, categorySubCb |-> Subtype(Kind), priceCzk |-> Ads[id].priceCzk,
     latitude |-> Ads[id].latitude, longitude |-> Ads[id].longitude]

\* The ids on search page p.
Shown(p) ==
    SubSeq(site, (p - 1) * Limit + 1, IF p * Limit < Len(site) THEN p * Limit ELSE Len(site))

SearchData(p) ==
    [categorySubCb |-> Subtype(Kind), page |-> p, limit |-> Limit, total |-> Len(site),
     results |-> [i \in DOMAIN Shown(p) |-> SearchItem(Shown(p)[i])]]

\* The page asked for, or one with something missing or wrong.
SearchPages(p) ==
    LET good  == SearchData(p)
        links == ToSet(Shown(p))
        Page(data) == [query |-> "estatesSearch", data |-> data, links |-> links]
    IN  {Page(good),
         Page([good EXCEPT !.page = p + 1]),
         Page([good EXCEPT !.limit = 0]),
         Page([good EXCEPT !.total = Text]),
         [Page(good) EXCEPT !.query = "other"]}
        \cup {[Page(good) EXCEPT !.links = links \ {id}] : id \in links}
        \cup {Page([good EXCEPT !.results[i].categorySubCb = None]) : i \in DOMAIN good.results}

DetailData(id, subtype) ==
    [categorySubCb |-> subtype, priceCzk |-> Ads[id].priceCzk, usableArea |-> Ads[id].usableArea,
     latitude |-> Ads[id].latitude, longitude |-> Ads[id].longitude]

DetailPages(id) ==
    {[query |-> query, links |-> {}, data |-> DetailData(id, subtype)] :
        query \in {"estate", "other"}, subtype \in {Subtype(Kind), None}}

Appear(id, i) ==
    /\ changes < MaxChanges
    /\ id \notin ToSet(site) /\ i \in 1..(Len(site) + 1)
    /\ site' = InsertAt(site, i, id)
    /\ changes' = changes + 1
    /\ UNCHANGED <<removed, travVars, clientVars>>

Vanish(i) ==
    /\ changes < MaxChanges
    /\ i \in DOMAIN site
    /\ site' = RemoveAt(site, i)
    /\ removed' = TRUE
    /\ changes' = changes + 1
    /\ UNCHANGED <<travVars, clientVars>>

-----------------------------------------------------------------------------
(* iter_kind *)

Init ==
    /\ ClientInit
    /\ site = SiteAtStart /\ removed = FALSE /\ changes = 0
    /\ body = None
    /\ trav = [at |-> "page", page_number |-> 1, total_pages |-> None, rest |-> <<>>,
               detail_paths |-> {}, seen_ids |-> {}, detail_pages_available |-> TRUE]
    /\ yielded = <<>>

Goto(at) == trav' = [trav EXCEPT !.at = at]

MorePages == trav.total_pages # None => trav.page_number <= trav.total_pages

FetchSearch ==
    /\ trav.at = "page" /\ MorePages
    /\ Call(trav.page_number)
    /\ Goto("search")
    /\ UNCHANGED <<siteVars, body, yielded>>

Complete ==
    /\ trav.at = "page" /\ ~MorePages
    /\ Goto("complete")
    /\ UNCHANGED <<siteVars, clientVars, body, yielded>>

\* The number of pages is what the first page said.
TotalPagesMutant(page) ==
    IF trav.total_pages = None
    THEN LET pages == (page.total + page.limit - 1) \div page.limit
         IN  IF pages < 1 THEN 1 ELSE pages
    ELSE trav.total_pages

\* At least one page, and never fewer than an earlier page said.
TotalPages(page) ==
    LET pages   == (page.total + page.limit - 1) \div page.limit
        current == IF pages < 1 THEN 1 ELSE pages
    IN  IF trav.total_pages = None \/ trav.total_pages < current
        THEN current ELSE trav.total_pages

Acceptable(page) ==
    page # ParseError /\ page.page = trav.page_number /\ page.limit > 0

\* A page that cannot be used is asked for again.
ReadSearchMutant ==
    LET page == IF fetch.at = "html" THEN ParseSearch(body, Kind) ELSE ParseError IN
    /\ trav.at = "search" /\ fetch.at \in Results
    /\ IF Acceptable(page)
       THEN trav' = [trav EXCEPT !.at = "listing", !.rest = page.listings,
                       !.detail_paths = body.links, !.total_pages = TotalPages(page)]
       ELSE Goto("page")
    /\ fetch' = NoFetch /\ body' = None
    /\ UNCHANGED <<siteVars, age, gap, cookies, yielded>>

ReadSearch ==
    LET page == IF fetch.at = "html" THEN ParseSearch(body, Kind) ELSE ParseError IN
    /\ trav.at = "search" /\ fetch.at \in Results
    /\ IF Acceptable(page)
       THEN trav' = [trav EXCEPT !.at = "listing", !.rest = page.listings,
                       !.detail_paths = body.links, !.total_pages = TotalPages(page)]
       ELSE Goto("failed")
    /\ fetch' = NoFetch /\ body' = None
    /\ UNCHANGED <<siteVars, age, gap, cookies, yielded>>

Current == Head(trav.rest)

AtListing == trav.at = "listing" /\ trav.rest # <<>>

SkipSeen ==
    /\ AtListing /\ Current.sreality_id \in trav.seen_ids
    /\ trav' = [trav EXCEPT !.rest = Tail(@)]
    /\ UNCHANGED <<siteVars, clientVars, body, yielded>>

\* seen_ids is not looked at.
NewListingMutant == AtListing

NewListing == AtListing /\ Current.sreality_id \notin trav.seen_ids

HasLink == Current.sreality_id \in trav.detail_paths

NoLink ==
    /\ NewListing /\ ~HasLink
    /\ Goto("failed")
    /\ UNCHANGED <<siteVars, clientVars, body, yielded>>

FetchDetail ==
    /\ NewListing /\ HasLink /\ trav.detail_pages_available
    /\ Call(0)
    /\ Goto("detail")
    /\ UNCHANGED <<siteVars, body, yielded>>

\* _detail_from_search
DetailFromSearch ==
    [sreality_id |-> Current.sreality_id, kind |-> Current.kind, usable_area_m2 |-> None,
     price |-> Current.price, locality |-> Current.locality]

YieldDetail(detail, available) ==
    /\ yielded' = Append(yielded, detail)
    /\ trav' = [trav EXCEPT !.at = "listing", !.rest = Tail(@),
                  !.seen_ids = @ \cup {Current.sreality_id},
                  !.detail_pages_available = available]

\* The generator ends on a request that failed; what is wrong with the page
\* itself only switches the rest of the category to search data.
ReadDetail ==
    LET detail == IF fetch.at = "html" THEN ParseDetail(body, Current.sreality_id, Kind)
                  ELSE ParseError IN
    /\ trav.at = "detail" /\ fetch.at \in Results
    /\ \/ fetch.at = "failed" /\ Goto("failed") /\ UNCHANGED yielded
       \/ fetch.at # "failed" /\ detail = ParseError /\ YieldDetail(DetailFromSearch, FALSE)
       \/ detail # ParseError /\ YieldDetail(detail, TRUE)
    /\ fetch' = NoFetch /\ body' = None
    /\ UNCHANGED <<siteVars, age, gap, cookies>>

FallBack ==
    /\ NewListing /\ HasLink /\ ~trav.detail_pages_available
    /\ YieldDetail(DetailFromSearch, FALSE)
    /\ UNCHANGED <<siteVars, clientVars, body>>

NextPage ==
    /\ trav.at = "listing" /\ trav.rest = <<>>
    /\ trav' = [trav EXCEPT !.at = "page", !.page_number = @ + 1]
    /\ UNCHANGED <<siteVars, clientVars, body, yielded>>

\* The page the client returns is the site's at the moment of the answer.
Download ==
    /\ Client
    /\ IF fetch'.at # "html" THEN UNCHANGED body
       ELSE body' \in IF fetch.page > 0 THEN SearchPages(fetch.page)
                      ELSE DetailPages(Current.sreality_id)
    /\ UNCHANGED <<siteVars, trav, yielded>>

IterKind ==
    \/ FetchSearch \/ Complete \/ ReadSearch
    \/ SkipSeen \/ NoLink \/ FetchDetail \/ ReadDetail \/ FallBack \/ NextPage

Change ==
    \/ \E id \in Ids, i \in 1..(Len(site) + 1) : Appear(id, i)
    \/ \E i \in DOMAIN site : Vanish(i)

Next == Download \/ IterKind \/ Change

Spec == Init /\ [][Next]_vars

\* The process keeps running, and every request is answered or times out.
FairSpec == Spec /\ WF_vars(Download) /\ WF_vars(IterKind)

-----------------------------------------------------------------------------
(* Properties *)

Ended == trav.at \in {"complete", "failed"}

YieldedIds == {yielded[i].sreality_id : i \in DOMAIN yielded}

\* Paging a moving list misses nothing that could be seen: unless something was
\* removed (and what follows it moved to a page already read), a complete
\* traversal has yielded every listing that was on the site when it began,
\* wherever new ones appeared and whatever became of the detail pages.
NothingIsPushedOut ==
    trav.at = "complete" /\ ~removed => ToSet(SiteAtStart) \subseteq YieldedIds

Schema == INSTANCE MigratedSchema

\* Whether a listing comes from its own page or from the search page, its price
\* is the same fact, never less than its price per square metre says, and its
\* row meets the checks of the migrated schema; so the fallback never makes a
\* price event by itself (parser.py, _detail_from_search).
DetailsFitSchema ==
    \A i \in DOMAIN yielded :
        LET d == yielded[i]  p == d.price IN
        /\ Schema!ListingRow(d)
        /\ p.source_price_czk = OptionalInt(Ads[d.sreality_id].priceCzk)
        /\ p.source_price_czk \notin {None, 0} => p.price_czk = p.source_price_czk
        /\ p.derived_price_per_sqm_czk # None =>
             /\ p.price_czk # None
             /\ p.derived_price_per_sqm_czk * d.usable_area_m2 <= p.price_czk

\* The traversal is a ListingFeed: no listing twice, and one end.
Feed == INSTANCE ListingFeed WITH
    FeedIds <- Ids,
    feed    <- [i \in DOMAIN yielded |-> yielded[i].sreality_id],
    outcome <- IF Ended THEN trav.at ELSE "open"

ImplementsListingFeed == Feed!FeedSpec

\* Whatever the site answers, the traversal completes or fails: retries,
\* redirects and pages all run out.
TraversalEnds == <>Ended
=============================================================================
