---------------------------- MODULE LegacyRunner ----------------------------
(***************************************************************************)
(* The scraper of 2024 (run.py, scraper/, utils/, db_managment/): one      *)
(* process that hands its results over in files.  A run saves price lists  *)
(* as CSV and details as JSON files named by the minute, adds a file of    *)
(* geodata to every JSON file that has none, and inserts what its SQLite   *)
(* tables do not have yet.  It may die between any two steps; the files it *)
(* leaves are picked up by the next run.                                   *)
(***************************************************************************)
EXTENDS Integers, FiniteSets, Sequences, Bags

CONSTANTS
    None,
    Codes,          \* estates of the site
    Flats,          \* those on sale as flats, the first of the two scrapes
    Prices,
    SaveEvery,      \* details between two saves of the progress: 500
    MaxRuns,        \* bound: runs in a behaviour
    MaxMinutes      \* bound: minutes that pass

ASSUME CodesAssumption == Flats \subseteq Codes /\ None \notin Codes
ASSUME BoundsAssumption == SaveEvery \in Nat \ {0} /\ MaxRuns \in Nat /\ MaxMinutes \in Nat

VARIABLES
    minute,         \* the clock, as generate_timestamp formats it for names
    csv,            \* scraped_prices_folder: file name -> its rows
    json,           \* estate_details_folder: minute of the name -> its records
    geo,            \* geo_locations_folder: minute -> the geodata of the records
    estate_detail,
    price_history,
    run,            \* the process
    stale           \* codes saved in a file that already had geodata

files  == <<csv, json, geo>>
tables == <<estate_detail, price_history>>
vars   == <<minute, files, tables, run, stale>>

Scrapes == <<"prodej_byty", "all">>
Offered(scrape) == IF scrape = "prodej_byty" THEN Flats ELSE Codes

NotRunning == [at |-> "idle", nr |-> 0, name |-> None, left |-> <<>>, codes |-> <<{}, {}>>,
               missing |-> {}, data |-> <<>>, counter |-> 0, refused |-> FALSE]

NoFiles == [x \in {} |-> None]
Write(folder, name, content) ==
    [x \in DOMAIN folder \cup {name} |-> IF x = name THEN content ELSE folder[x]]
Elements(s) == {s[i] : i \in DOMAIN s}

Init ==
    /\ minute = 1
    /\ csv = NoFiles /\ json = NoFiles /\ geo = NoFiles
    /\ estate_detail = EmptyBag /\ price_history = EmptyBag
    /\ run = NotRunning
    /\ stale = {}

-----------------------------------------------------------------------------
(* scrape_prices_and_details *)

\* run_complete_scraping, of run_scheduled.py.
Start ==
    /\ run.at \in {"idle", "done"} /\ run.nr < MaxRuns
    /\ run' = [NotRunning EXCEPT !.at = "prices", !.nr = run.nr + 1, !.name = minute,
                                 !.left = Scrapes]
    /\ UNCHANGED <<minute, files, tables, stale>>

\* safe_save_csv: the second name is not checked.
CsvName(scrape, m) ==
    IF <<scrape, m, "">> \in DOMAIN csv THEN <<scrape, m, "_SAFE">> ELSE <<scrape, m, "">>

\* scrape_all_with_filter: a page that cannot be read is left out.
ScrapePrices ==
    /\ run.at = "prices" /\ run.left # <<>>
    /\ \E found \in SUBSET Offered(Head(run.left)) : \E price \in [found -> Prices] :
        /\ csv' = Write(csv, CsvName(Head(run.left), run.name),
                        {[code |-> c, price |-> price[c], at |-> run.nr] : c \in found})
        /\ run' = [run EXCEPT !.left = Tail(@),
                              !.codes[IF Head(run.left) = "all" THEN 2 ELSE 1] = found]
    /\ UNCHANGED <<minute, json, geo, tables, stale>>

KnownCodes == {r.code : r \in BagToSet(estate_detail)}

\* compare_codes_to_existing_jsons
SavedCodes == {r.code : r \in UNION {Elements(json[m]) : m \in DOMAIN json}}

\* The codes of the next scrape without a detail.  A frame without rows has no
\* column "code": the run ends with a KeyError.
FindMissing ==
    /\ \/ run.at = "prices" /\ run.left = <<>>
       \/ run.at = "details" /\ run.missing = {} /\ run.data = <<>> /\ run.codes # <<>>
    /\ run' = IF Head(run.codes) = {} THEN [NotRunning EXCEPT !.nr = run.nr]
              ELSE [run EXCEPT !.at = "details", !.codes = Tail(@), !.counter = 0,
                               !.missing = (Head(run.codes) \ KnownCodes) \ SavedCodes]
    /\ UNCHANGED <<minute, files, tables, stale>>

\* scrape_specific_estates, one code: of a detail that cannot be read only the code
\* is kept.
FetchDetail(c, ok) ==
    /\ run.at = "details" /\ c \in run.missing /\ run.counter < SaveEvery
    /\ run' = [run EXCEPT !.missing = @ \ {c}, !.counter = @ + 1,
                          !.data = Append(@, [code |-> c, complete |-> ok])]
    /\ UNCHANGED <<minute, files, tables, stale>>

\* save_progress_json: everything so far under the name of this minute, over a file
\* that may have it; at the end of the scrape as well.
SaveProgress ==
    /\ run.at = "details" /\ run.data # <<>>
    /\ run.missing = {} \/ run.counter = SaveEvery
    /\ json' = Write(json, minute, run.data)
    /\ stale' = IF minute \in DOMAIN geo
                THEN stale \cup {r.code : r \in Elements(run.data)} ELSE stale
    /\ run' = [run EXCEPT !.counter = 0, !.data = IF run.missing = {} THEN <<>> ELSE @]
    /\ UNCHANGED <<minute, csv, geo, tables>>

-----------------------------------------------------------------------------
(* update_geodata *)

\* Records without coordinates are dropped.
LocationsMutant(data) ==
    LET found == SelectSeq(data, LAMBDA r : r.complete) IN [i \in DOMAIN found |-> found[i].code]

\* assign_location_to_df: where each record is, as far as it has coordinates.
Locations(data) == [i \in DOMAIN data |-> IF data[i].complete THEN data[i].code ELSE None]

NextGeodata ==
    /\ run.at = "details" /\ run.missing = {} /\ run.data = <<>> /\ run.codes = <<>>
    /\ run' = [run EXCEPT !.at = "geodata"]
    /\ UNCHANGED <<minute, files, tables, stale>>

\* enrich_jsons_with_geodata, one file without geodata.  If no record has
\* coordinates the frame has no such column: the run ends with a KeyError.
Enrich(m) ==
    /\ run.at = "geodata" /\ m \in DOMAIN json \ DOMAIN geo
    /\ IF \E r \in Elements(json[m]) : r.complete
       THEN geo' = Write(geo, m, Locations(json[m])) /\ run' = run
       ELSE run' = [NotRunning EXCEPT !.nr = run.nr] /\ geo' = geo
    /\ UNCHANGED <<minute, csv, json, tables, stale>>

-----------------------------------------------------------------------------
(* input_all_estates_to_db, input_all_prices_to_db *)

\* prepare_estate_detail_jsons_to_df: the records of a file zipped with its geodata.
Merged(m) ==
    {[code |-> json[m][i].code, place |-> geo[m][i], row |-> <<m, i>>] :
        i \in DOMAIN json[m] \cap DOMAIN geo[m]}

NewEstates ==
    {r \in UNION {Merged(m) : m \in DOMAIN json \cap DOMAIN geo} : r.code \notin KnownCodes}

\* A code that several files hold gets several rows.
NewRows ==
    LET Row(r) == [code |-> r.code, place |-> r.place] IN
    [x \in {Row(r) : r \in NewEstates} |-> Cardinality({r \in NewEstates : Row(r) = x})]

\* insert_new_estates: an error rolls all rows back and is only logged.  Without a
\* single file there is nothing to concatenate: the run ends.
InputEstates(ok) ==
    /\ run.at = "geodata" /\ DOMAIN json \subseteq DOMAIN geo
    /\ IF DOMAIN json = {} THEN run' = [NotRunning EXCEPT !.nr = run.nr]
       ELSE run' = [run EXCEPT !.at = "history", !.refused = ~ok]
    /\ estate_detail' = IF ok THEN estate_detail (+) NewRows ELSE estate_detail
    /\ UNCHANGED <<minute, files, price_history, stale>>

\* A row is known by its estate and its price.
KnownPriceMutant(r) ==
    \E s \in BagToSet(price_history) : s.code = r.code /\ s.price = r.price

\* DataFrame.isin with a dictionary: each column is looked up on its own.
KnownPrice(r) ==
    LET rows == BagToSet(price_history) IN
    /\ r.code \in {s.code : s \in rows}
    /\ r.price \in {s.price : s \in rows}
    /\ r.at \in {s.at : s \in rows}

\* prepare_price_history_csv_to_df, drop_duplicates, insert_new_price
InputPrices(ok) ==
    /\ run.at = "history"
    /\ price_history' = IF ok THEN price_history (+) SetToBag(
                            {r \in UNION {csv[f] : f \in DOMAIN csv} : ~KnownPrice(r)})
                        ELSE price_history
    /\ run' = [run EXCEPT !.at = "done", !.refused = @ \/ ~ok]
    /\ UNCHANGED <<minute, files, estate_detail, stale>>

-----------------------------------------------------------------------------

\* The process is stopped, or an exception nobody handles: no network, a file.
Crash ==
    /\ run.at \notin {"idle", "done"}
    /\ run' = [NotRunning EXCEPT !.nr = run.nr]
    /\ UNCHANGED <<minute, files, tables, stale>>

Tick ==
    /\ minute < MaxMinutes
    /\ minute' = minute + 1
    /\ UNCHANGED <<files, tables, run, stale>>

Next ==
    \/ Start \/ ScrapePrices \/ FindMissing \/ SaveProgress \/ NextGeodata \/ Crash \/ Tick
    \/ \E c \in Codes, ok \in BOOLEAN : FetchDetail(c, ok)
    \/ \E m \in DOMAIN json : Enrich(m)
    \/ \E ok \in BOOLEAN : InputEstates(ok) \/ InputPrices(ok)

Spec == Init /\ [][Next]_vars

-----------------------------------------------------------------------------
(* Properties *)

\* Geodata reaches the row of the record it was looked up for, also of records that
\* could not be read and of files left by a run that died: unless a file took the
\* name of an earlier one that already had geodata.
RowsKeepTheirPlace ==
    \A r \in BagToSet(estate_detail) : r.code \notin stale => r.place \in {r.code, None}

\* A run that ends without a refused insert leaves nothing behind: every record and
\* every price of every file on disk is in the tables, each price once, though
\* known prices are recognised column by column and earlier runs died anywhere.
FinishedRunStoresAll ==
    run.at = "done" /\ ~run.refused =>
        /\ SavedCodes \subseteq KnownCodes \cup stale
        /\ \A f \in DOMAIN csv : csv[f] \subseteq BagToSet(price_history)
        /\ \A r \in BagToSet(price_history) : price_history[r] = 1
=============================================================================
