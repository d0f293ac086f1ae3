------------------------------ MODULE ReadApi ------------------------------
(***************************************************************************)
(* The queries of the dashboard as functions of the tables that            *)
(* ScrapePipeline writes: api/listing_repository.py (the pages of a        *)
(* filtered and sorted list) and api/listing_insight_repository.py (the    *)
(* history of a listing, the medians of a filter).  A query reads one      *)
(* committed snapshot.  Of the filters those are kept whose columns the    *)
(* tables of the model have; regions, areas, distances and the owner's     *)
(* flags are left out.                                                     *)
(***************************************************************************)
EXTENDS ScrapePipeline

StatusFilters == {"active", "inactive", "all", "new", "price_decreased", "reactivated"}

\* A range whose minimum exceeds its maximum is refused.
ListingFilters ==
    {f \in [status : StatusFilters, kind : Kinds \cup {None}, price_min : Price, price_max : Price] :
        f.price_min # None /\ f.price_max # None => f.price_min <= f.price_max}

CONSTANT Filters    \* the filters that are asked for

ASSUME FiltersAssumption == Filters \subseteq ListingFilters

EventTypeOf(status) == IF status = "new" THEN "created" ELSE status

\* A comparison with NULL is not true.
InRange(price, f) ==
    /\ f.price_min # None => price # None /\ price >= f.price_min
    /\ f.price_max # None => price # None /\ price <= f.price_max

HasEvent(k, l, status) == [run |-> k, listing |-> l, type |-> EventTypeOf(status)] \in events

Succeeded(k) == run[k] # None /\ run[k].status = "succeeded"

-----------------------------------------------------------------------------
(* list_listings *)

\* latest: the succeeded run that was started last, or None.
Matches(f, latest, l) ==
    /\ listing[l] # None
    /\ CASE f.status = "active"   -> listing[l].active
         [] f.status = "inactive" -> ~listing[l].active
         [] f.status = "all"      -> TRUE
         [] OTHER -> listing[l].active /\ HasEvent(latest, l, f.status)
    /\ f.kind # None => listing[l].kind = f.kind
    /\ InRange(listing[l].price, f)

Listed(f, latest) == {l \in Listings : Matches(f, latest, l)}

Sorts == {"price_asc", "price_desc"}

\* Without the second key of ORDER BY, listings of one price have one place.
PrecedesMutant(sort, rank, l, m) ==
    LET p == listing[l].price  q == listing[m].price IN
    \/ p # None /\ q = None
    \/ p # None /\ q # None /\ IF sort = "price_asc" THEN p < q ELSE p > q

\* The orders the Sreality ids of the listings may have.
Rankings ==
    {r \in [Listings -> 1..Cardinality(Listings)] : \A l, m \in Listings : r[l] = r[m] => l = m}

\* ORDER BY: the price, NULL last in both directions, then the Sreality id,
\* whose order rank gives.
Precedes(sort, rank, l, m) ==
    LET p == listing[l].price  q == listing[m].price IN
    \/ p # None /\ q = None
    \/ p # None /\ q # None /\ IF sort = "price_asc" THEN p < q ELSE p > q
    \/ p = q /\ rank[l] < rank[m]

\* OFFSET and LIMIT of a page of the rows listed.
Items(listed, sort, rank, size, page) ==
    LET Before(l) == Cardinality({m \in listed : Precedes(sort, rank, m, l)})
    IN  {l \in listed : Before(l) \in (page - 1) * size .. page * size - 1}

Pages(listed, size) == (Cardinality(listed) + size - 1) \div size

-----------------------------------------------------------------------------
(* get_listing_history *)

PriceHistory(l) ==
    {[run |-> k, price |-> observation[k][l].price] : k \in {k \in Keys : ObservedIn(k, l)}}

EventHistory(l) == {[run |-> x.run, type |-> x.type] : x \in {x \in events : x.listing = l}}

-----------------------------------------------------------------------------
(* get_price_medians *)

\* The i-th of the prices of the listings of a sample.
Nth(sample, price, i) ==
    CHOOSE p \in {price[l] : l \in sample} :
        /\ Cardinality({l \in sample : price[l] < p}) < i
        /\ Cardinality({l \in sample : price[l] <= p}) >= i

\* percentile_cont(0.5) is the mean of the two prices in the middle; doubled,
\* it is an integer.
Median(sample, price) ==
    LET size == Cardinality(sample) IN
    IF size = 0 THEN None
    ELSE [doubled |-> Nth(sample, price, (size + 1) \div 2) + Nth(sample, price, size \div 2 + 1),
          size |-> size]

\* _historical_conditions: the prices and events are those of the run, the
\* category is that of the listing's present row.
HistoricallyMatches(f, k, l) ==
    /\ ObservedIn(k, l) /\ observation[k][l].price # None
    /\ CASE f.status = "inactive"          -> FALSE
         [] f.status \in {"active", "all"} -> TRUE
         [] OTHER                          -> HasEvent(k, l, f.status)
    /\ f.kind # None => listing[l].kind = f.kind
    /\ InRange(observation[k][l].price, f)

\* The point of a run in the history of medians, if it has one.
MedianPoint(f, k) ==
    LET sample == {l \in Listings : HistoricallyMatches(f, k, l)} IN
    IF Succeeded(k) THEN Median(sample, [l \in sample |-> observation[k][l].price]) ELSE None

-----------------------------------------------------------------------------
(* Properties *)

\* The past of the median chart never changes: the point of a succeeded run
\* stays as it is under every filter, whatever later runs observe, withdraw or
\* refuse - although it is joined with the present rows of the listings, whose
\* category it filters by (get_price_medians).
MediansAreFinal ==
    [][\A k \in Keys, f \in Filters :
        Succeeded(k) => MedianPoint(f, k)' = MedianPoint(f, k)]_dbVars

\* The two halves of a listing's history tell one story: a price event of a run
\* has a point of that run on the right side of another run's, and prices that
\* differ are never told without an event (get_listing_history).
HistoryTellsOneStory ==
    \A l \in Listings :
        LET points  == PriceHistory(l)
            changes == {x \in EventHistory(l) : x.type \in {"price_decreased", "price_increased"}}
            prices  == {p.price : p \in points}
        IN  /\ \A x \in changes : \E p, q \in points :
                 /\ p.run = x.run /\ q.run # x.run /\ Priced(p, q)
                 /\ IF x.type = "price_decreased" THEN p.price < q.price ELSE p.price > q.price
            /\ None \notin prices /\ prices # {} =>
                 Cardinality(prices) <= Cardinality(changes) + 1

\* Leafing through a list shows every matching listing on exactly one page, in
\* order, also where prices are equal or missing, and only the last page is
\* short; pages smaller than the list are meant (list_listings).
PagesCoverOnce ==
    \A listed \in {Listed(f, latest) : f \in Filters,
                                       latest \in {k \in Keys : Succeeded(k)} \cup {None}} :
        \A sort \in Sorts, rank \in Rankings, size \in 1..(Cardinality(listed) - 1) :
            LET On(page) == Items(listed, sort, rank, size, page)
                pages    == 1..Pages(listed, size)
            IN  /\ UNION {On(page) : page \in pages} = listed
                /\ \A p, q \in pages : p < q =>
                     /\ Cardinality(On(p)) = size
                     /\ \A l \in On(p), m \in On(q) : l # m /\ ~Precedes(sort, rank, m, l)
=============================================================================
