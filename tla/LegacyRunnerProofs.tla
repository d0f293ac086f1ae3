------------------------- MODULE LegacyRunnerProofs -------------------------
(***************************************************************************)
(* Theorems about LegacyRunner for every set of estates and prices and any *)
(* number of runs and minutes: rows keep the places of their records, and  *)
(* a run that ends without a refused insert has stored everything.         *)
(***************************************************************************)
EXTENDS LegacyRunner, TLAPS

Running == run.at \notin {"idle", "done"}

RunInv ==
    /\ {"at", "nr", "refused"} \subseteq DOMAIN run
    /\ run.nr \in Nat

-----------------------------------------------------------------------------
(* The places of the estates *)

\* The geodata of a file are those of its records, or the file took the name of
\* an earlier one.
Matching ==
    \A m \in DOMAIN json \cap DOMAIN geo :
        geo[m] = Locations(json[m]) \/ \A r \in Elements(json[m]) : r.code \in stale

PlaceInv == Matching /\ RowsKeepTheirPlace

-----------------------------------------------------------------------------
(* What is stored *)

\* The prices of a run are in the table all together or not at all, so that a
\* row of a time that the table has is in the table.
Together ==
    \A f \in DOMAIN csv : \A r \in csv[f] :
        /\ r.at \in Nat /\ r.at <= run.nr
        /\ r \in DOMAIN price_history \/ \A s \in DOMAIN price_history : s.at # r.at

\* A run at work has no prices in the table yet.
Earlier ==
    \A r \in DOMAIN price_history :
        /\ r.at \in Nat /\ r.at <= run.nr
        /\ Running => r.at < run.nr

Once == \A r \in DOMAIN price_history : price_history[r] = 1

EstatesStored ==
    run.at \in {"history", "done"} /\ ~run.refused => SavedCodes \subseteq KnownCodes \cup stale

PricesStored ==
    run.at = "done" /\ ~run.refused =>
        \A f \in DOMAIN csv : csv[f] \subseteq DOMAIN price_history

StoreInv == Together /\ Earlier /\ Once /\ EstatesStored /\ PricesStored

LegacyInv == RunInv /\ PlaceInv /\ StoreInv

LEMMA InitLegacy == Init => LegacyInv
BY DEF Init, NotRunning, NoFiles, EmptyBag, SetToBag, BagToSet, LegacyInv, RunInv, PlaceInv, Matching,
       RowsKeepTheirPlace, StoreInv, Together, Earlier, Once, EstatesStored, PricesStored

-----------------------------------------------------------------------------
(* Operators *)

\* A place is the record's own, or None.
LEMMA LocationsFit ==
  ASSUME NEW data
  PROVE  /\ DOMAIN Locations(data) = DOMAIN data
         /\ \A i \in DOMAIN data : Locations(data)[i] \in {data[i].code, None}
BY DEF Locations

-----------------------------------------------------------------------------
(* Steps that keep the tables *)

Still == UNCHANGED <<csv, json, geo, estate_detail, price_history, stale>>

\* A process that goes on, or ends, without looking at the tables.
LEMMA TablesKept ==
  ASSUME LegacyInv, RunInv', Still,
         run'.nr = run.nr \/ (~Running /\ run.nr < run'.nr),
         Running' /\ run'.nr = run.nr => Running,
         run'.at \notin {"history", "done"}
  PROVE  LegacyInv'
<1>1. PlaceInv'
  BY DEF LegacyInv, PlaceInv, Matching, RowsKeepTheirPlace, Still
<1>2. Together'
  BY DEF LegacyInv, RunInv, StoreInv, Together, Still
<1>3. Earlier'
  BY DEF LegacyInv, RunInv, StoreInv, Earlier, Still
<1>4. Once' /\ EstatesStored' /\ PricesStored'
  BY DEF LegacyInv, StoreInv, Once, EstatesStored, PricesStored, Still
<1>5. QED
  BY <1>1, <1>2, <1>3, <1>4 DEF LegacyInv, StoreInv

LEMMA StartStep == ASSUME LegacyInv, Start PROVE LegacyInv'
<1>1. RunInv' /\ run'.nr = run.nr + 1 /\ run'.at = "prices"
  BY DEF Start, LegacyInv, RunInv, NotRunning
<1>2. Still /\ ~Running
  BY DEF Start, files, tables, Still, Running
<1>3. run.nr \in Nat
  BY DEF LegacyInv, RunInv
<1>4. QED
  BY <1>1, <1>2, <1>3, TablesKept DEF Running

LEMMA EndStep ==
  ASSUME LegacyInv, run' = [NotRunning EXCEPT !.nr = run.nr],
         Still
  PROVE  LegacyInv'
<1>1. RunInv' /\ run'.nr = run.nr /\ run'.at = "idle"
  BY DEF LegacyInv, RunInv, NotRunning
<1>2. ~Running'
  BY <1>1 DEF Running
<1>3. QED
  BY <1>1, <1>2, TablesKept DEF Running

LEMMA FindMissingStep == ASSUME LegacyInv, FindMissing PROVE LegacyInv'
<1>1. Still
  BY DEF FindMissing, files, tables, Still
<1>2. CASE run' = [NotRunning EXCEPT !.nr = run.nr]
  BY <1>1, <1>2, EndStep
<1>3. CASE run' = [run EXCEPT !.at = "details", !.codes = Tail(@), !.counter = 0,
                              !.missing = (Head(run.codes) \ KnownCodes) \ SavedCodes]
  <2>1. RunInv' /\ run'.nr = run.nr /\ run'.at = "details"
    BY <1>3 DEF LegacyInv, RunInv
  <2>2. Running
    BY DEF FindMissing, Running
  <2>3. QED
    BY <1>1, <2>1, <2>2, TablesKept DEF Running
<1>4. QED
  BY <1>2, <1>3 DEF FindMissing

LEMMA FetchDetailStep ==
  ASSUME LegacyInv, NEW c \in Codes, NEW ok \in BOOLEAN, FetchDetail(c, ok)
  PROVE  LegacyInv'
<1>1. Still /\ Running
  BY DEF FetchDetail, files, tables, Still, Running
<1>2. RunInv' /\ run'.nr = run.nr /\ run'.at = "details"
  BY DEF FetchDetail, LegacyInv, RunInv
<1>3. QED
  BY <1>1, <1>2, TablesKept DEF Running

LEMMA NextGeodataStep == ASSUME LegacyInv, NextGeodata PROVE LegacyInv'
<1>1. Still /\ Running
  BY DEF NextGeodata, files, tables, Still, Running
<1>2. RunInv' /\ run'.nr = run.nr /\ run'.at = "geodata"
  BY DEF NextGeodata, LegacyInv, RunInv
<1>3. QED
  BY <1>1, <1>2, TablesKept DEF Running

-----------------------------------------------------------------------------
(* Steps that write files *)

LEMMA ScrapePricesStep == ASSUME LegacyInv, ScrapePrices PROVE LegacyInv'
<1>1. PICK found \in SUBSET Offered(Head(run.left)) : \E price \in [found -> Prices] :
        /\ csv' = Write(csv, CsvName(Head(run.left), run.name),
                        {[code |-> c, price |-> price[c], at |-> run.nr] : c \in found})
        /\ run' = [run EXCEPT !.left = Tail(@),
                              !.codes[IF Head(run.left) = "all" THEN 2 ELSE 1] = found]
  BY DEF ScrapePrices
<1>2. PICK price \in [found -> Prices] :
        csv' = Write(csv, CsvName(Head(run.left), run.name),
                     {[code |-> c, price |-> price[c], at |-> run.nr] : c \in found})
  BY <1>1
<1>3. UNCHANGED <<json, geo, tables, stale>> /\ run.at = "prices" /\ Running
  BY DEF ScrapePrices, Running
<1>4. RunInv' /\ run'.nr = run.nr /\ run'.at = "prices" /\ Running'
  BY <1>1, <1>3 DEF LegacyInv, RunInv, Running
<1>5. Together'
  <2> SUFFICES ASSUME NEW f \in DOMAIN csv', NEW r \in csv'[f]
               PROVE  /\ r.at \in Nat /\ r.at <= run.nr
                      /\ r \in DOMAIN price_history \/ \A s \in DOMAIN price_history : s.at # r.at
    BY <1>3, <1>4 DEF Together, tables
  <2> PICK name : name = CsvName(Head(run.left), run.name)
    OBVIOUS
  <2>1. CASE f = name
    <3>1. PICK c \in found : r = [code |-> c, price |-> price[c], at |-> run.nr]
      BY <1>2, <2>1 DEF Write
    <3>2. r.at = run.nr /\ run.nr \in Nat
      BY <3>1 DEF LegacyInv, RunInv
    <3>3. QED
      BY <1>3, <3>2 DEF LegacyInv, StoreInv, Earlier
  <2>2. CASE f # name
    <3>1. f \in DOMAIN csv /\ r \in csv[f]
      BY <1>2, <2>2 DEF Write
    <3>2. QED
      BY <3>1 DEF LegacyInv, StoreInv, Together
  <2>3. QED
    BY <2>1, <2>2
<1>6. PlaceInv'
  BY <1>3 DEF LegacyInv, PlaceInv, Matching, RowsKeepTheirPlace, tables
<1>7. Earlier' /\ Once' /\ EstatesStored' /\ PricesStored'
  BY <1>3, <1>4 DEF LegacyInv, StoreInv, Earlier, Once, EstatesStored, PricesStored, tables
<1>8. QED
  BY <1>4, <1>5, <1>6, <1>7 DEF LegacyInv, StoreInv

LEMMA SaveProgressStep == ASSUME LegacyInv, SaveProgress PROVE LegacyInv'
<1>1. /\ json' = Write(json, minute, run.data) /\ UNCHANGED <<csv, geo, tables>>
      /\ run.at = "details" /\ Running
      /\ stale' = IF minute \in DOMAIN geo
                  THEN stale \cup {r.code : r \in Elements(run.data)} ELSE stale
  BY DEF SaveProgress, Running
<1>2. RunInv' /\ run'.nr = run.nr /\ run'.at = "details" /\ Running'
  BY <1>1 DEF SaveProgress, LegacyInv, RunInv, Running
<1>3. Matching'
  <2> SUFFICES ASSUME NEW m \in DOMAIN json' \cap DOMAIN geo
               PROVE  geo[m] = Locations(json'[m]) \/ \A r \in Elements(json'[m]) : r.code \in stale'
    BY <1>1 DEF Matching
  <2>1. CASE m = minute
    BY <1>1, <2>1 DEF Write
  <2>2. CASE m # minute
    <3>1. m \in DOMAIN json /\ json'[m] = json[m] /\ stale \subseteq stale'
      BY <1>1, <2>2 DEF Write
    <3>2. QED
      BY <3>1 DEF LegacyInv, PlaceInv, Matching
  <2>3. QED
    BY <2>1, <2>2
<1>4. RowsKeepTheirPlace'
  BY <1>1 DEF LegacyInv, PlaceInv, RowsKeepTheirPlace, tables
<1>5. StoreInv'
  BY <1>1, <1>2 DEF LegacyInv, StoreInv, Together, Earlier, Once, EstatesStored, PricesStored, tables
<1>6. QED
  BY <1>2, <1>3, <1>4, <1>5 DEF LegacyInv, PlaceInv

LEMMA EnrichStep == ASSUME LegacyInv, NEW m \in DOMAIN json, Enrich(m) PROVE LegacyInv'
<1>1. UNCHANGED <<csv, json, tables, stale>> /\ run.at = "geodata"
  BY DEF Enrich
<1>2. CASE run' = [NotRunning EXCEPT !.nr = run.nr] /\ geo' = geo
  BY <1>1, <1>2, EndStep DEF Still, tables
<1>3. CASE geo' = Write(geo, m, Locations(json[m])) /\ run' = run
  <2>1. Matching'
    <3> SUFFICES ASSUME NEW n \in DOMAIN json \cap DOMAIN geo'
                 PROVE  geo'[n] = Locations(json[n]) \/ \A r \in Elements(json[n]) : r.code \in stale
      BY <1>1 DEF Matching
    <3>1. CASE n = m
      BY <1>3, <3>1 DEF Write
    <3>2. CASE n # m
      <4>1. n \in DOMAIN geo /\ geo'[n] = geo[n]
        BY <1>3, <3>2 DEF Write
      <4>2. QED
        BY <4>1 DEF LegacyInv, PlaceInv, Matching
    <3>3. QED
      BY <3>1, <3>2
  <2>2. RowsKeepTheirPlace'
    BY <1>1 DEF LegacyInv, PlaceInv, RowsKeepTheirPlace, tables
  <2>3. RunInv' /\ StoreInv'
    BY <1>1, <1>3 DEF LegacyInv, RunInv, StoreInv, Together, Earlier, Once, EstatesStored,
                      PricesStored, tables, Running, SavedCodes, KnownCodes
  <2>4. QED
    BY <2>1, <2>2, <2>3 DEF LegacyInv, PlaceInv
<1>4. QED
  BY <1>2, <1>3 DEF Enrich

-----------------------------------------------------------------------------
(* Steps that write tables *)

\* The row of a record has its code, and its place unless the file is stale.
LEMMA MergedFits ==
  ASSUME Matching, NEW m \in DOMAIN json \cap DOMAIN geo, NEW r \in Merged(m)
  PROVE  r.code \notin stale => r.place \in {r.code, None}
<1>1. PICK i \in DOMAIN json[m] \cap DOMAIN geo[m] :
        r = [code |-> json[m][i].code, place |-> geo[m][i], row |-> <<m, i>>]
  BY DEF Merged
<1>2. json[m][i] \in Elements(json[m])
  BY DEF Elements
<1>3. CASE geo[m] = Locations(json[m])
  BY <1>1, <1>3, LocationsFit
<1>4. CASE \A q \in Elements(json[m]) : q.code \in stale
  BY <1>1, <1>2, <1>4
<1>5. QED
  BY <1>3, <1>4 DEF Matching

\* Every saved code reaches a row once all files have geodata.
LEMMA SavedIsMerged ==
  ASSUME Matching, DOMAIN json \subseteq DOMAIN geo, NEW c \in SavedCodes, c \notin stale
  PROVE  \E m \in DOMAIN json \cap DOMAIN geo : \E r \in Merged(m) : r.code = c
<1>1. PICK m \in DOMAIN json : \E r \in Elements(json[m]) : r.code = c
  BY DEF SavedCodes
<1>2. PICK i \in DOMAIN json[m] : json[m][i].code = c
  BY <1>1 DEF Elements
<1>3. geo[m] = Locations(json[m])
  BY <1>1 DEF Matching
<1>4. i \in DOMAIN geo[m]
  BY <1>2, <1>3, LocationsFit
<1> DEFINE r == [code |-> json[m][i].code, place |-> geo[m][i], row |-> <<m, i>>]
<1>5. r \in Merged(m) /\ r.code = c
  BY <1>2, <1>4 DEF Merged
<1> HIDE DEF r
<1>6. QED
  BY <1>1, <1>5

LEMMA NewRowsAre ==
  /\ \A x \in DOMAIN NewRows : \E r \in NewEstates : x.code = r.code /\ x.place = r.place
  /\ \A r \in NewEstates : \E x \in DOMAIN NewRows : x.code = r.code
<1> DEFINE Row(r) == [code |-> r.code, place |-> r.place]
<1>1. DOMAIN NewRows = {Row(r) : r \in NewEstates}
  BY DEF NewRows
<1>2. \A r : Row(r).code = r.code /\ Row(r).place = r.place
  OBVIOUS
<1> HIDE DEF Row
<1>3. ASSUME NEW x \in DOMAIN NewRows
      PROVE  \E r \in NewEstates : x.code = r.code /\ x.place = r.place
  <2>1. PICK r \in NewEstates : x = Row(r)
    BY <1>1
  <2>2. QED
    BY <1>2, <2>1
<1>4. ASSUME NEW r \in NewEstates PROVE \E x \in DOMAIN NewRows : x.code = r.code
  <2>1. Row(r) \in DOMAIN NewRows
    BY <1>1
  <2>2. QED
    BY <1>2, <2>1
<1>5. QED
  BY <1>3, <1>4

LEMMA InputEstatesStep ==
  ASSUME LegacyInv, NEW ok \in BOOLEAN, InputEstates(ok)
  PROVE  LegacyInv'
<1>1. /\ run.at = "geodata" /\ DOMAIN json \subseteq DOMAIN geo
      /\ UNCHANGED <<csv, json, geo, price_history, stale>>
      /\ estate_detail' = IF ok THEN estate_detail (+) NewRows ELSE estate_detail
  BY DEF InputEstates, files
<1>2. /\ RunInv' /\ run'.nr = run.nr /\ run'.at \in {"idle", "history"}
      /\ run'.at = "history" => run'.refused = ~ok
  <2>1. CASE run' = [NotRunning EXCEPT !.nr = run.nr]
    BY <2>1 DEF LegacyInv, RunInv, NotRunning
  <2>2. CASE run' = [run EXCEPT !.at = "history", !.refused = ~ok]
    BY <2>2 DEF LegacyInv, RunInv
  <2>3. QED
    BY <2>1, <2>2 DEF InputEstates
<1>3. Matching /\ RowsKeepTheirPlace
  BY DEF LegacyInv, PlaceInv
<1>4. ok => DOMAIN estate_detail' = DOMAIN estate_detail \cup DOMAIN NewRows
  BY <1>1 DEF (+)
<1>5. RowsKeepTheirPlace'
  <2> SUFFICES ASSUME NEW x \in DOMAIN estate_detail', x \notin DOMAIN estate_detail
               PROVE  x.code \notin stale => x.place \in {x.code, None}
    BY <1>1, <1>3 DEF RowsKeepTheirPlace, BagToSet
  <2>1. x \in DOMAIN NewRows
    BY <1>1, <1>4
  <2>2. PICK r \in NewEstates : x.code = r.code /\ x.place = r.place
    BY <2>1, NewRowsAre
  <2>3. PICK m \in DOMAIN json \cap DOMAIN geo : r \in Merged(m)
    BY DEF NewEstates
  <2>4. QED
    BY <1>3, <2>2, <2>3, MergedFits
<1>6. EstatesStored'
  <2> SUFFICES ASSUME ok, NEW c \in SavedCodes, c \notin stale
               PROVE  \E x \in DOMAIN estate_detail' : x.code = c
    <3>1. SavedCodes' = SavedCodes /\ stale' = stale
      BY <1>1 DEF SavedCodes
    <3>2. KnownCodes' = {x.code : x \in DOMAIN estate_detail'}
      BY DEF KnownCodes, BagToSet
    <3>3. run'.at \in {"history", "done"} /\ ~run'.refused => ok
      BY <1>2
    <3>4. QED
      BY <3>1, <3>2, <3>3 DEF EstatesStored
  <2>1. PICK m \in DOMAIN json \cap DOMAIN geo : \E r \in Merged(m) : r.code = c
    BY <1>1, <1>3, SavedIsMerged
  <2>2. PICK r \in Merged(m) : r.code = c
    BY <2>1
  <2>3. CASE c \in KnownCodes
    BY <1>4, <2>3 DEF KnownCodes, BagToSet
  <2>4. CASE c \notin KnownCodes
    <3>1. r \in NewEstates
      BY <2>2, <2>4 DEF NewEstates
    <3>2. QED
      BY <1>4, <2>2, <3>1, NewRowsAre
  <2>5. QED
    BY <2>3, <2>4
<1>7. Matching' /\ Together' /\ Earlier' /\ Once' /\ PricesStored'
  BY <1>1, <1>2 DEF LegacyInv, PlaceInv, Matching, StoreInv, Together, Earlier, Once, PricesStored,
                    Running
<1>8. QED
  BY <1>2, <1>5, <1>6, <1>7 DEF LegacyInv, PlaceInv, StoreInv

\* The rows of the files that the table does not have, however they are looked up.
LEMMA UnknownPrices ==
  ASSUME Together
  PROVE  \A f \in DOMAIN csv : \A r \in csv[f] : ~KnownPrice(r) <=> r \notin DOMAIN price_history
<1> SUFFICES ASSUME NEW f \in DOMAIN csv, NEW r \in csv[f]
             PROVE  ~KnownPrice(r) <=> r \notin DOMAIN price_history
  OBVIOUS
<1>1. CASE r \in DOMAIN price_history
  BY <1>1 DEF KnownPrice, BagToSet
<1>2. CASE r \notin DOMAIN price_history
  BY <1>2 DEF KnownPrice, BagToSet, Together
<1>3. QED
  BY <1>1, <1>2

LEMMA InputPricesStep ==
  ASSUME LegacyInv, NEW ok \in BOOLEAN, InputPrices(ok)
  PROVE  LegacyInv'
<1> PICK unknown : unknown = {r \in UNION {csv[f] : f \in DOMAIN csv} : ~KnownPrice(r)}
  OBVIOUS
<1>1. /\ run.at = "history" /\ UNCHANGED <<csv, json, geo, estate_detail, stale>>
      /\ price_history' = IF ok THEN price_history (+) SetToBag(unknown) ELSE price_history
      /\ run' = [run EXCEPT !.at = "done", !.refused = @ \/ ~ok]
  BY DEF InputPrices, files
<1>2. /\ RunInv' /\ run'.nr = run.nr /\ run'.at = "done" /\ ~Running'
      /\ ~run'.refused => ok /\ ~run.refused
  BY <1>1 DEF LegacyInv, RunInv, Running
<1>3. /\ \A f \in DOMAIN csv : \A r \in csv[f] : r \in DOMAIN price_history \/ r \in unknown
      /\ \A r \in unknown : r \notin DOMAIN price_history /\ \E f \in DOMAIN csv : r \in csv[f]
  BY UnknownPrices DEF LegacyInv, StoreInv
<1>4. /\ DOMAIN SetToBag(unknown) = unknown
      /\ \A r \in unknown : SetToBag(unknown)[r] = 1
  BY DEF SetToBag
<1>5. ok => /\ DOMAIN price_history' = DOMAIN price_history \cup unknown
            /\ \A r \in unknown : price_history'[r] = 0 + 1
            /\ \A r \in DOMAIN price_history : price_history'[r] = price_history[r] + 0
  <2> SUFFICES ASSUME ok
               PROVE  /\ DOMAIN price_history' = DOMAIN price_history \cup unknown
                      /\ \A r \in unknown : price_history'[r] = 0 + 1
                      /\ \A r \in DOMAIN price_history : price_history'[r] = price_history[r] + 0
    OBVIOUS
  <2> PICK new : new = SetToBag(unknown)
    OBVIOUS
  <2> PICK old : old = price_history
    OBVIOUS
  <2> PICK sum : sum = price_history'
    OBVIOUS
  <2>1. DOMAIN new = unknown /\ \A r \in unknown : new[r] = 1
    BY <1>4
  <2>2. sum = old (+) new
    BY <1>1
  <2>3. /\ DOMAIN sum = DOMAIN old \cup DOMAIN new
        /\ \A x \in DOMAIN old \ DOMAIN new : sum[x] = old[x] + 0
        /\ \A x \in DOMAIN new \ DOMAIN old : sum[x] = 0 + new[x]
    BY <2>2 DEF (+)
  <2>4. \A r \in unknown : r \notin DOMAIN old
    BY <1>3
  <2>5. QED
    BY <2>1, <2>3, <2>4
<1>6. Once'
  BY <1>1, <1>5 DEF LegacyInv, StoreInv, Once
<1>7. Together' /\ PricesStored'
  BY <1>1, <1>2, <1>3, <1>5 DEF LegacyInv, StoreInv, Together, PricesStored
<1>8. Earlier'
  BY <1>1, <1>2, <1>3, <1>5 DEF LegacyInv, StoreInv, Together, Earlier
<1>9. EstatesStored'
  BY <1>1, <1>2 DEF LegacyInv, StoreInv, EstatesStored, SavedCodes, KnownCodes
<1>10. PlaceInv'
  BY <1>1 DEF LegacyInv, PlaceInv, Matching, RowsKeepTheirPlace
<1>11. QED
  BY <1>2, <1>6, <1>7, <1>8, <1>9, <1>10 DEF LegacyInv, StoreInv

-----------------------------------------------------------------------------
(* Theorems *)

LEMMA StepKeeps == ASSUME LegacyInv, [Next]_vars PROVE LegacyInv'
<1>1. CASE Crash
  BY <1>1, EndStep DEF Crash, files, tables, Still
<1>2. CASE Tick
  BY <1>2 DEF Tick, files, tables, LegacyInv, RunInv, PlaceInv, Matching, RowsKeepTheirPlace, StoreInv,
              Together, Earlier, Once, EstatesStored, PricesStored, Running, SavedCodes, KnownCodes
<1>3. CASE UNCHANGED vars
  BY <1>3 DEF vars, files, tables, LegacyInv, RunInv, PlaceInv, Matching, RowsKeepTheirPlace, StoreInv,
              Together, Earlier, Once, EstatesStored, PricesStored, Running, SavedCodes, KnownCodes
<1>4. CASE Start \/ ScrapePrices \/ FindMissing \/ SaveProgress \/ NextGeodata
  BY <1>4, StartStep, ScrapePricesStep, FindMissingStep, SaveProgressStep, NextGeodataStep
<1>5. CASE \E c \in Codes, ok \in BOOLEAN : FetchDetail(c, ok)
  BY <1>5, FetchDetailStep
<1>6. CASE \E m \in DOMAIN json : Enrich(m)
  BY <1>6, EnrichStep
<1>7. CASE \E ok \in BOOLEAN : InputEstates(ok) \/ InputPrices(ok)
  BY <1>7, InputEstatesStep, InputPricesStep
<1>8. QED
  BY <1>1, <1>2, <1>3, <1>4, <1>5, <1>6, <1>7 DEF Next

LEMMA LegacyInvariant == Spec => []LegacyInv
BY InitLegacy, StepKeeps, PTL DEF Spec

\* Geodata reaches the row of the record it was looked up for, through any number
\* of runs, deaths and refused inserts, unless a file took the name of one that
\* already had geodata (update_geodata, prepare_estate_detail_jsons_to_df).
THEOREM PlacesCorrect == Spec => []RowsKeepTheirPlace
<1>1. LegacyInv => RowsKeepTheirPlace
  BY DEF LegacyInv, PlaceInv
<1>2. QED
  BY <1>1, LegacyInvariant, PTL

\* A run that ends without a refused insert has stored every record and, once
\* each, every price that any run left on disk (input_all_estates_to_db,
\* input_all_prices_to_db).
THEOREM StoredCorrect == Spec => []FinishedRunStoresAll
<1>1. LegacyInv => FinishedRunStoresAll
  BY DEF LegacyInv, StoreInv, EstatesStored, PricesStored, Once, FinishedRunStoresAll, BagToSet
<1>2. QED
  BY <1>1, LegacyInvariant, PTL
=============================================================================
