----------------------------- MODULE SsrParser -----------------------------
(***************************************************************************)
(* scraper/parser.py: what is read from the JSON that Sreality embeds in   *)
(* its search and detail pages.  A JSON value is an integer, None (absent  *)
(* or null) or Text (a value of any other type).  A page is a record       *)
(* [query, data, links]; a page whose payload is missing or not JSON, or   *)
(* that lacks the wanted query, has another query name.                    *)
(***************************************************************************)
EXTENDS Integers, Sequences

CONSTANTS
    None,           \* no value
    Text,           \* a JSON value of an unexpected type
    ParseError      \* the exception

Kinds == {"chata", "chalupa"}

Subtype(kind) == IF kind = "chata" THEN 33 ELSE 43

OptionalInt(value) == IF value = Text THEN None ELSE value

KindFromMapping(data) ==
    IF \E kind \in Kinds : OptionalInt(data.categorySubCb) = Subtype(kind)
    THEN CHOOSE kind \in Kinds : data.categorySubCb = Subtype(kind)
    ELSE ParseError

\* Zero taken for a price.
ParsePriceMutant(data, area) ==
    LET source == OptionalInt(data.priceCzk)
    IN  [source_price_czk |-> source, price_czk |-> source,
         price_on_request |-> source = 0, derived_price_per_sqm_czk |-> None]

\* Sreality prices a listing whose price is on request at zero.
ParsePrice(data, area) ==
    LET source == OptionalInt(data.priceCzk)
        price  == IF source # None /\ source > 0 THEN source ELSE None
    IN  [source_price_czk |-> source,
         price_czk |-> price,
         price_on_request |-> source = 0,
         derived_price_per_sqm_czk |->
            IF price # None /\ area # None /\ area > 0 THEN price \div area ELSE None]

\* Half a coordinate pair is no place.
ParseLocality(data) ==
    IF OptionalInt(data.latitude) = None \/ OptionalInt(data.longitude) = None
    THEN [latitude |-> None, longitude |-> None]
    ELSE [latitude |-> data.latitude, longitude |-> data.longitude]

\* extract_query: the data of a query, if the page has it.
Query(page, name) == IF page.query = name THEN page.data ELSE ParseError

-----------------------------------------------------------------------------

ParseSearchListing(data, kind) ==
    IF KindFromMapping(data) # kind \/ OptionalInt(data.id) = None THEN ParseError
    ELSE [sreality_id |-> data.id, kind |-> kind,
          price |-> ParsePrice(data, None), locality |-> ParseLocality(data)]

ParseSearchData(data, kind) ==
    LET listings == [i \in 1..Len(data.results) |-> ParseSearchListing(data.results[i], kind)]
        page     == OptionalInt(data.page)
    IN  IF \/ data.categorySubCb \notin {None, Subtype(kind)}
           \/ None \in {OptionalInt(data.limit), OptionalInt(data.total)}
           \/ \E i \in DOMAIN listings : listings[i] = ParseError
        THEN ParseError
        ELSE [page |-> IF page \in {None, 0} THEN 1 ELSE page,
              limit |-> data.limit, total |-> data.total, listings |-> listings]

ParseSearch(page, kind) ==
    IF Query(page, "estatesSearch") = ParseError THEN ParseError
    ELSE ParseSearchData(page.data, kind)

\* The id is the one asked for: the page's own is not compared with it.
ParseDetail(page, id, kind) ==
    IF Query(page, "estate") = ParseError THEN ParseError
    ELSE IF KindFromMapping(page.data) # kind THEN ParseError
    ELSE LET area == OptionalInt(page.data.usableArea)
         IN  [sreality_id |-> id, kind |-> kind, usable_area_m2 |-> area,
              price |-> ParsePrice(page.data, area),
              locality |-> ParseLocality(page.data)]
=============================================================================
