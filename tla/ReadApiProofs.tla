--------------------------- MODULE ReadApiProofs ---------------------------
(***************************************************************************)
(* What the dashboard reads from the tables, for every set of keys,        *)
(* listings, processes and filters: the history of a listing is one story, *)
(* the medians of succeeded runs are final, and the pages of a list cover  *)
(* it once.  The theorems stand on the invariants of ScrapePipelineProofs. *)
(***************************************************************************)
EXTENDS ReadApi, ScrapePipelineProofs

-----------------------------------------------------------------------------
(* Rows and observations *)

\* What a run observed has a row.
ListedInv == \A k \in Keys, l \in Listings : ObservedIn(k, l) => listing[l] # None

LEMMA ListedStep ==
  ASSUME CoreInv, ListedInv, NEW e \in Executors, Step(e)
  PROVE  ListedInv'
<1> SUFFICES ASSUME NEW k \in Keys, NEW l \in Listings, ObservedIn(k, l)'
             PROVE  listing'[l] # None
  BY DEF ListedInv, ObservedIn
<1> USE DEF CoreInv, TypeInv, TypeOK
<1>1. CASE ObservedIn(k, l)
  BY <1>1, ListingStays DEF ListedInv
<1>2. CASE ~ObservedIn(k, l)
  <2>1. CommitDetail(e) /\ l = txn[e].listing /\ txn[e].detail \in Detail
    BY <1>2, ObservationWriter DEF ObservedIn
  <2>2. listing'[l] = Observed(txn[e].detail)
    BY <2>1 DEF CommitDetail, CurrentState
  <2>3. QED
    BY <2>1, <2>2, ObservedType, NoneAssumption
<1>3. QED
  BY <1>1, <1>2

\* A listings row keeps its category.
LEMMA KindStays ==
  ASSUME CoreInv, LedgerInv, NEW e \in Executors, Step(e),
         NEW l \in Listings, listing[l] # None
  PROVE  listing'[l].kind = listing[l].kind
<1>1. CASE CommitDetail(e) /\ l = txn[e].listing
  <2>1. listing[l] = txn[e].before
    BY <1>1, CommitSeesRow
  <2>2. txn[e].before.kind = txn[e].detail.kind
    BY <1>1, <2>1 DEF CommitDetail, CanWrite
  <2>3. listing'[l] = Observed(txn[e].detail)
    BY <1>1 DEF CommitDetail, CurrentState, CoreInv, TypeInv, TypeOK
  <2>4. QED
    BY <2>1, <2>2, <2>3 DEF Observed
<1>2. CASE ~(CommitDetail(e) /\ l = txn[e].listing)
  BY <1>2, ListingWriter, ListingStays
<1>3. QED
  BY <1>1, <1>2

-----------------------------------------------------------------------------
(* Medians *)

\* Under keys of their own nothing is written for a run that has succeeded.
LEMMA SucceededRunRests ==
  ASSUME TypeInv, ControlInv, ResultInv, NEW e \in Executors, Step(e),
         NEW k \in Keys, Succeeded(k)
  PROVE  /\ run'[k] = run[k] /\ observation'[k] = observation[k]
         /\ \A x : x.run = k => (x \in events' <=> x \in events)
<1>1. CASE k # Key(e) \/ pc[e] = "idle"
  BY <1>1, OnlyOwnRun DEF dbVars
<1>2. CASE k = Key(e) /\ pc[e] # "idle"
  BY <1>2 DEF ResultInv, OwnRun, Succeeded
<1>3. QED
  BY <1>1, <1>2

LEMMA MatchStays ==
  ASSUME CoreInv, LedgerInv, ResultInv, ListedInv, NEW e \in Executors, Step(e),
         NEW k \in Keys, NEW l \in Listings, NEW f, Succeeded(k)
  PROVE  HistoricallyMatches(f, k, l)' <=> HistoricallyMatches(f, k, l)
<1>1. observation'[k] = observation[k]
  BY SucceededRunRests DEF CoreInv
<1>2. HasEvent(k, l, f.status)' <=> HasEvent(k, l, f.status)
  <2>1. PICK x : x = [run |-> k, listing |-> l, type |-> EventTypeOf(f.status)]
    OBVIOUS
  <2>2. x \in events' <=> x \in events
    BY <2>1, SucceededRunRests DEF CoreInv
  <2>3. QED
    BY <2>1, <2>2 DEF HasEvent
<1>3. ObservedIn(k, l) => listing'[l].kind = listing[l].kind
  BY KindStays DEF ListedInv
<1>4. ObservedIn(k, l)' <=> ObservedIn(k, l)
  BY <1>1 DEF ObservedIn
<1>5. InRange(observation[k][l].price, f)' <=> InRange(observation[k][l].price, f)
  BY <1>1 DEF InRange
<1>6. QED
  BY <1>1, <1>2, <1>3, <1>4, <1>5 DEF HistoricallyMatches

LEMMA PointStays ==
  ASSUME CoreInv, LedgerInv, ResultInv, ListedInv, NEW e \in Executors, Step(e),
         NEW k \in Keys, NEW f, Succeeded(k)
  PROVE  MedianPoint(f, k)' = MedianPoint(f, k)
<1> PICK sample : sample = {l \in Listings : HistoricallyMatches(f, k, l)}
  OBVIOUS
<1> PICK price : price = [l \in sample |-> observation[k][l].price]
  OBVIOUS
<1>1. observation'[k] = observation[k] /\ Succeeded(k)'
  BY SucceededRunRests DEF CoreInv, Succeeded
<1>2. {l \in Listings : HistoricallyMatches(f, k, l)'} = sample
  BY MatchStays
<1>3. MedianPoint(f, k) = Median(sample, price)
  BY DEF MedianPoint
<1>4. MedianPoint(f, k)' = Median(sample, price)
  BY <1>1, <1>2 DEF MedianPoint
<1>5. QED
  BY <1>3, <1>4

LEMMA ListedInvariant == Spec => []ListedInv
<1>1. Init => ListedInv
  BY DEF Init, ListedInv, ObservedIn
<1>2. CoreInv /\ ListedInv /\ UNCHANGED vars => ListedInv'
  BY DEF vars, ListedInv, ObservedIn
<1>3. CoreInv /\ ListedInv /\ [Next]_vars => ListedInv'
  BY <1>2, ListedStep DEF Next, Step
<1>4. QED
  BY <1>1, <1>3, CoreInvariant, PTL DEF Spec

\* If every execution has a key of its own, the median of a succeeded run is the
\* same for ever under every filter: later runs observe, deactivate and refuse
\* listings, but none of them changes the category a listing is filtered by
\* (get_price_medians, _persist_detail).
THEOREM MediansCorrect ==
  ASSUME KeysAreOwn
  PROVE  Spec => MediansAreFinal
<1> DEFINE Final == \A k \in Keys, f \in Filters :
                       Succeeded(k) => MedianPoint(f, k)' = MedianPoint(f, k)
<1>1. ASSUME CoreInv, LedgerInv, ResultInv, ListedInv, NEW e \in Executors, Step(e)
      PROVE  Final
  BY <1>1, PointStays
<1>2. CoreInv /\ LedgerInv /\ ResultInv /\ ListedInv /\ [Next]_vars => [Final]_dbVars
  <2> HIDE DEF Final
  <2>1. QED
    BY <1>1 DEF Next, Step, vars, dbVars
<1>3. QED
  BY <1>2, CoreInvariant, LedgerInvariant, ResultInvariant, ListedInvariant, PTL
     DEF Spec, MediansAreFinal

-----------------------------------------------------------------------------
(* The history of a listing *)

PriceChanges == {"price_decreased", "price_increased"}

\* The price a process compares with is one that another run observed.
ToldPrice(e) ==
    pc[e] \in {"store", "commit"} /\ txn[e].before # None =>
        \E k \in Keys \ {Key(e)} : Reflects(txn[e].before, k, txn[e].listing)

\* The price p of a price event is on the right side of q.
RightSide(type, p, q) ==
    p # None /\ q # None /\ (IF type = "price_decreased" THEN p < q ELSE p > q)

PriceTold ==
    \A x \in events : x.type \in PriceChanges =>
        \E k \in Keys \ {x.run} :
            /\ ObservedIn(x.run, x.listing) /\ ObservedIn(k, x.listing)
            /\ RightSide(x.type, observation[x.run][x.listing].price,
                                 observation[k][x.listing].price)

Prices(l) == {observation[k][l].price : k \in {k \in Keys : ObservedIn(k, l)}}

Changes(l) == {x \in EventHistory(l) : x.type \in PriceChanges}

\* Every price after the first was told.
Counted(l) ==
    None \notin Prices(l) /\ Prices(l) # {} => Cardinality(Prices(l)) <= Cardinality(Changes(l)) + 1

StoryInv ==
    /\ \A e \in Executors : ToldPrice(e)
    /\ PriceTold
    /\ \A l \in Listings : Counted(l)

LEMMA ToldPriceOthers ==
  ASSUME CoreInv, NEW e \in Executors, Step(e), NEW f \in Executors, f # e, ToldPrice(f)
  PROVE  ToldPrice(f)'
<1> USE DEF CoreInv, TypeInv, TypeOK
<1>1. pc'[f] = pc[f] /\ work'[f] = work[f] /\ txn'[f] = txn[f]
  BY Frame
<1>2. CASE pc[f] \in {"store", "commit"} /\ txn[f].before # None
  <2>1. PICK k \in Keys \ {Key(f)} : Reflects(txn[f].before, k, txn[f].listing)
    BY <1>2 DEF ToldPrice
  <2>2. txn[f].listing \in Listings
    BY <1>2 DEF ControlInv, Controlled
  <2>3. observation'[k][txn[f].listing] = observation[k][txn[f].listing]
    BY <2>1, <2>2, ObservationStays DEF Reflects, ObservedIn
  <2>4. QED
    BY <1>1, <2>1, <2>3 DEF ToldPrice, Key, Reflects, ObservedIn
<1>3. CASE ~(pc[f] \in {"store", "commit"} /\ txn[f].before # None)
  BY <1>1, <1>3 DEF ToldPrice
<1>4. QED
  BY <1>2, <1>3

LEMMA ToldPriceSelf ==
  ASSUME CoreInv, ListingReflectsObservation, NEW e \in Executors, Step(e), ToldPrice(e)
  PROVE  ToldPrice(e)'
<1> USE DEF CoreInv, TypeInv, TypeOK
<1>1. CASE OpenDetail(e)
  <2> PICK l \in Listings : l = txn[e].listing
    BY <1>1 DEF OpenDetail, ControlInv, Controlled
  <2>1. work' = work /\ observation' = observation
    BY <1>1 DEF OpenDetail, dbVars
  <2>2. CASE pc'[e] = "store"
    <3>1. ~ObservedIn(Key(e), l) \/ listing[l] = None
      BY <1>1, <2>2 DEF OpenDetail
    <3>2. txn'[e].before = listing[l] /\ txn'[e].listing = l
      BY <1>1, <2>2 DEF OpenDetail, Txn
    <3>3. ASSUME listing[l] # None
          PROVE  \E k \in Keys \ {Key(e)} : Reflects(listing[l], k, l)
      BY <3>1, <3>3 DEF ListingReflectsObservation, Reflects
    <3>4. QED
      BY <2>1, <3>2, <3>3 DEF ToldPrice, Key, Reflects, ObservedIn
  <2>3. CASE pc'[e] # "store"
    BY <1>1, <2>3 DEF OpenDetail, ToldPrice
  <2>4. QED
    BY <2>2, <2>3
<1>2. CASE StoreRaw(e)
  BY <1>2 DEF StoreRaw, ToldPrice, Reflects, ObservedIn, Key, dbVars
<1>3. CASE pc'[e] \notin {"store", "commit"}
  BY <1>3 DEF ToldPrice
<1>4. CASE UNCHANGED <<pc, work, txn, observation>>
  BY <1>4 DEF ToldPrice, Reflects, ObservedIn, Key
<1>5. QED
  BY <1>1, <1>2, <1>3, <1>4
     DEF Step, Execute, FindRun, CreateRun, Fetch, CompleteCategory, FailCategory,
         RawConflict, RefuseDetail, NextKind, CommitDetail, FinishRead,
         FinishIncomplete, FinishSelect, FinishSucceeded, Crash, Ends, dbVars

\* What a commit writes, with the row and the detail it has in hand.
LEMMA CommitWrites ==
  ASSUME CoreInv, LedgerInv, NEW e \in Executors, CommitDetail(e)
  PROVE  \E k \in Keys, l \in Listings, d \in Detail, before \in Listing \cup {None} :
            /\ k = Key(e) /\ l = txn[e].listing /\ d = txn[e].detail /\ before = txn[e].before
            /\ listing[l] = before /\ (before # None => ~ObservedIn(k, l))
            /\ observation' = [observation EXCEPT ![k][l] = d]
            /\ events' = events \cup {[run |-> k, listing |-> l, type |-> t] :
                                        t \in ObservationEvents(before, Observed(d))}
<1>1. /\ txn[e].listing \in Listings /\ Key(e) \in Keys /\ txn[e].detail \in Detail
      /\ listing[txn[e].listing] = txn[e].before
  BY CommitSeesRow
<1>2. txn[e].before \in Listing \cup {None}
  BY <1>1 DEF CoreInv, TypeInv, TypeOK
<1>3. txn[e].before # None => ~ObservedIn(Key(e), txn[e].listing)
  BY DEF CommitDetail, LedgerInv, RowKept, Holds
<1>4. /\ observation' = [observation EXCEPT ![Key(e)][txn[e].listing] = txn[e].detail]
      /\ events' = events \cup {[run |-> Key(e), listing |-> txn[e].listing, type |-> t] :
                          t \in ObservationEvents(txn[e].before, Observed(txn[e].detail))}
  BY DEF CommitDetail
<1>5. QED
  BY <1>1, <1>2, <1>3, <1>4

LEMMA PriceToldStep ==
  ASSUME CoreInv, LedgerInv, StoryInv, NEW e \in Executors, Step(e)
  PROVE  PriceTold'
<1> SUFFICES ASSUME NEW x \in events', x.type \in PriceChanges
             PROVE  \E k \in Keys \ {x.run} :
                      /\ ObservedIn(x.run, x.listing)' /\ ObservedIn(k, x.listing)'
                      /\ RightSide(x.type, observation'[x.run][x.listing].price,
                                           observation'[k][x.listing].price)
  BY DEF PriceTold
<1>1. CASE x \in events
  <2>1. x.run \in Keys /\ x.listing \in Listings
    BY <1>1 DEF CoreInv, TypeInv, TypeOK, Event
  <2>2. PICK k \in Keys \ {x.run} :
          /\ ObservedIn(x.run, x.listing) /\ ObservedIn(k, x.listing)
          /\ RightSide(x.type, observation[x.run][x.listing].price,
                               observation[k][x.listing].price)
    BY <1>1 DEF StoryInv, PriceTold
  <2>3. /\ observation'[x.run][x.listing] = observation[x.run][x.listing]
        /\ observation'[k][x.listing] = observation[k][x.listing]
    BY <2>1, <2>2, ObservationStays DEF ObservedIn
  <2>4. QED
    BY <2>2, <2>3 DEF ObservedIn
<1>2. CASE x \notin events
  <2>1. /\ pc[e] = "commit" /\ txn[e].before # None
        /\ x.run = Key(e) /\ x.listing = txn[e].listing
    BY <1>2, ChangeWriter DEF PriceChanges, ChangeTypes
  <2>2. CommitDetail(e)
    BY <1>2, <2>1 DEF Step, Execute, FindRun, CreateRun, Fetch, CompleteCategory, FailCategory,
           RawConflict, RefuseDetail, NextKind, OpenDetail, StoreRaw, FinishRead,
           FinishIncomplete, FinishSelect, FinishSucceeded, Crash, dbVars
  <2>3. PICK r \in Keys, l \in Listings, d \in Detail, before \in Listing \cup {None} :
            /\ r = Key(e) /\ l = txn[e].listing /\ d = txn[e].detail /\ before = txn[e].before
            /\ listing[l] = before /\ (before # None => ~ObservedIn(r, l))
            /\ observation' = [observation EXCEPT ![r][l] = d]
            /\ events' = events \cup {[run |-> r, listing |-> l, type |-> t] :
                                        t \in ObservationEvents(before, Observed(d))}
    BY <2>2, CommitWrites
  <2>4. PICK k \in Keys \ {r} : Reflects(before, k, l)
    BY <2>1, <2>3 DEF StoryInv, ToldPrice
  <2>5. x = [run |-> r, listing |-> l, type |-> x.type]
        /\ x.type \in ObservationEvents(before, Observed(d))
    BY <1>2, <2>3
  <2>6. RightSide(x.type, d.price, before.price)
    BY <2>1, <2>3, <2>5 DEF ObservationEvents, Observed, Priced, RightSide, PriceChanges
  <2>7. observation'[r][l] = d /\ observation'[k][l] = observation[k][l]
    BY <2>3, <2>4 DEF CoreInv, TypeInv, TypeOK
  <2>8. d # None /\ observation[k][l] # None /\ observation[k][l].price = before.price
    BY <2>3, <2>4, NoneAssumption DEF Reflects, ObservedIn
  <2>9. QED
    BY <2>1, <2>3, <2>4, <2>6, <2>7, <2>8 DEF ObservedIn
<1>3. QED
  BY <1>1, <1>2

\* Both halves of the history of a listing are finite, in any two tables.
PricesIn(table, l) == {table[k][l].price : k \in {k \in Keys : table[k][l] # None}}

ChangesIn(told, l) ==
    {x \in {[run |-> x.run, type |-> x.type] : x \in {x \in told : x.listing = l}} :
        x.type \in PriceChanges}

LEMMA TablesFinite ==
  ASSUME NEW table, NEW told, IsFiniteSet(told), NEW l
  PROVE  IsFiniteSet(PricesIn(table, l)) /\ IsFiniteSet(ChangesIn(told, l))
<1>1. IsFiniteSet({table[k][l].price : k \in {k \in Keys : table[k][l] # None}})
  <2> DEFINE S == {k \in Keys : table[k][l] # None}
             T == {table[k][l].price : k \in S}
             f == [k \in S |-> table[k][l].price]
  <2>1. IsFiniteSet(S)
    BY FiniteAssumption, FS_Subset
  <2>2. f \in Surjection(S, T)
    BY DEF Surjection
  <2> HIDE DEF f, T
  <2>3. IsFiniteSet(T)
    BY <2>1, <2>2, FS_Surjection
  <2>4. QED
    BY <2>3 DEF T
<1>2. IsFiniteSet({[run |-> x.run, type |-> x.type] : x \in {x \in told : x.listing = l}})
  <2> DEFINE S == {x \in told : x.listing = l}
             T == {[run |-> x.run, type |-> x.type] : x \in S}
             f == [x \in S |-> [run |-> x.run, type |-> x.type]]
  <2>1. IsFiniteSet(S)
    BY FS_Subset
  <2>2. f \in Surjection(S, T)
    BY DEF Surjection
  <2> HIDE DEF f, T
  <2>3. IsFiniteSet(T)
    BY <2>1, <2>2, FS_Surjection
  <2>4. QED
    BY <2>3 DEF T
<1>3. QED
  BY <1>1, <1>2, FS_Subset DEF PricesIn, ChangesIn

LEMMA HistoryFinite ==
  ASSUME CoreInv, CoreInv', NEW l
  PROVE  /\ IsFiniteSet(Prices(l)) /\ IsFiniteSet(Changes(l))
         /\ IsFiniteSet(Prices(l)') /\ IsFiniteSet(Changes(l)')
<1>1. IsFiniteSet(events) /\ IsFiniteSet(events')
  BY DEF CoreInv, TypeInv
<1> PICK table : table = observation
  OBVIOUS
<1> PICK told : told = events
  OBVIOUS
<1> PICK nextTable : nextTable = observation'
  OBVIOUS
<1> PICK nextTold : nextTold = events'
  OBVIOUS
<1>2. Prices(l) = PricesIn(table, l) /\ Changes(l) = ChangesIn(told, l)
  BY DEF Prices, Changes, EventHistory, ObservedIn, PricesIn, ChangesIn
<1>3. Prices(l)' = PricesIn(nextTable, l) /\ Changes(l)' = ChangesIn(nextTold, l)
  BY DEF Prices, Changes, EventHistory, ObservedIn, PricesIn, ChangesIn
<1>4. IsFiniteSet(told) /\ IsFiniteSet(nextTold)
  BY <1>1
<1>5. IsFiniteSet(Prices(l)) /\ IsFiniteSet(Changes(l))
  BY <1>2, <1>4, TablesFinite
<1>6. IsFiniteSet(Prices(l)') /\ IsFiniteSet(Changes(l)')
  BY <1>3, <1>4, TablesFinite
<1>7. QED
  BY <1>5, <1>6

LEMMA ChangesGrow ==
  ASSUME events \subseteq events', NEW l
  PROVE  Changes(l) \subseteq Changes(l)'
BY DEF Changes, EventHistory

\* An observation of a listing adds its price, and its event if it is another
\* price than that of the row, which some run observed.
LEMMA CountedCommit ==
  ASSUME CoreInv, CoreInv', LedgerInv, ListedInv, ListingReflectsObservation,
         NEW k \in Keys, NEW l \in Listings, NEW d \in Detail, NEW before \in Listing \cup {None},
         listing[l] = before, before # None => ~ObservedIn(k, l),
         ObservedIn(k, l) => observation[k][l] = d,
         observation' = [observation EXCEPT ![k][l] = d],
         events' = events \cup {[run |-> k, listing |-> l, type |-> t] :
                                   t \in ObservationEvents(before, Observed(d))},
         Counted(l)
  PROVE  Counted(l)'
<1>1. d # None /\ d.price \in Nat \cup {None}
  BY NoneAssumption DEF Detail, Price
<1>2. Prices(l)' = Prices(l) \cup {d.price}
  <2>1. \A j \in Keys : j # k => observation'[j][l] = observation[j][l]
    BY DEF CoreInv, TypeInv, TypeOK
  <2>2. observation'[k][l] = d
    BY DEF CoreInv, TypeInv, TypeOK
  <2>3. {j \in Keys : ObservedIn(j, l)}' = {j \in Keys : ObservedIn(j, l)} \cup {k}
    BY <1>1, <2>1, <2>2 DEF ObservedIn
  <2>4. QED
    BY <2>1, <2>2, <2>3 DEF Prices
<1> PICK old : old = Prices(l)
  OBVIOUS
<1> PICK told : told = Changes(l)
  OBVIOUS
<1> PICK new : new = Prices(l)'
  OBVIOUS
<1> PICK later : later = Changes(l)'
  OBVIOUS
<1>3. /\ IsFiniteSet(old) /\ IsFiniteSet(told) /\ IsFiniteSet(new) /\ IsFiniteSet(later)
      /\ Cardinality(old) \in Nat /\ Cardinality(told) \in Nat
      /\ Cardinality(new) \in Nat /\ Cardinality(later) \in Nat
  <2>1. IsFiniteSet(old) /\ IsFiniteSet(told) /\ IsFiniteSet(new) /\ IsFiniteSet(later)
    BY HistoryFinite
  <2>2. QED
    BY <2>1, FS_CardinalityType
<1>4. told \subseteq later
  BY ChangesGrow
<1>5. SUFFICES ASSUME None \notin new
               PROVE  Cardinality(new) <= Cardinality(later) + 1
  BY DEF Counted
<1>6. CASE before = None
  <2>1. Prices(l) = {}
    BY <1>6 DEF ListedInv, Prices
  <2>2. new = {d.price}
    BY <1>2, <2>1
  <2>3. Cardinality(new) = 1
    BY <2>2, FS_Singleton
  <2>4. QED
    BY <1>3, <2>3
<1>7. CASE before # None
  <2>1. before.price \in old
    BY <1>7 DEF ListingReflectsObservation, Prices
  <2>2. before.price # None /\ d.price # None /\ None \notin old
    BY <1>2, <1>5, <2>1
  <2>3. Cardinality(old) <= Cardinality(told) + 1
    BY <2>1, <2>2 DEF Counted
  <2>4. CASE d.price \in old
    <3>1. new = old
      BY <1>2, <2>4
    <3>2. Cardinality(told) <= Cardinality(later)
      BY <1>3, <1>4, FS_Subset
    <3>3. QED
      BY <1>3, <2>3, <3>1, <3>2
  <2>5. CASE d.price \notin old
    <3>1. Cardinality(new) = Cardinality(old) + 1
      BY <1>2, <1>3, <2>5, FS_AddElement
    <3>2. d.price # before.price /\ d.price \in Nat /\ before.price \in Nat
      BY <1>1, <1>7, <2>1, <2>2, <2>5 DEF Listing, Price
    <3>3. PICK t \in PriceChanges : t \in ObservationEvents(before, Observed(d))
      BY <1>7, <2>2, <3>2 DEF ObservationEvents, Observed, Priced, EventTypes, PriceChanges
    <3> DEFINE y == [run |-> k, type |-> t]
    <3>4. y \in later
      <4>1. PICK x : x = [run |-> k, listing |-> l, type |-> t]
        OBVIOUS
      <4>2. x \in events' /\ x.listing = l /\ y = [run |-> x.run, type |-> x.type]
        BY <3>3, <4>1
      <4>3. QED
        BY <4>2 DEF Changes, EventHistory
    <3>5. y \notin told
      <4>1. SUFFICES ASSUME y \in Changes(l) PROVE FALSE
        OBVIOUS
      <4>2. PICK x \in events : x.listing = l /\ y = [run |-> x.run, type |-> x.type]
        BY <4>1 DEF Changes, EventHistory
      <4>3. x.run = k /\ x.type # "deactivated"
        BY <4>2 DEF PriceChanges
      <4>4. ObservedIn(k, l)
        BY <4>2, <4>3 DEF LedgerInv, Told
      <4>5. QED
        BY <1>7, <4>4
    <3> HIDE DEF y
    <3>6. /\ IsFiniteSet(told \cup {y}) /\ Cardinality(told \cup {y}) = Cardinality(told) + 1
      BY <1>3, <3>5, FS_AddElement
    <3>7. Cardinality(told \cup {y}) <= Cardinality(later)
      BY <1>3, <1>4, <3>4, FS_Subset
    <3>8. QED
      BY <1>3, <2>3, <3>1, <3>6, <3>7
  <2>6. QED
    BY <2>4, <2>5
<1>8. QED
  BY <1>6, <1>7

LEMMA CountedStep ==
  ASSUME CoreInv, CoreInv', LedgerInv, ListedInv, ListingReflectsObservation,
         StoryInv, NEW e \in Executors, Step(e), NEW l \in Listings
  PROVE  Counted(l)'
<1>1. Counted(l)
  BY DEF StoryInv
<1>2. CASE CommitDetail(e) /\ l = txn[e].listing
  <2>1. PICK k \in Keys, m \in Listings, d \in Detail, before \in Listing \cup {None} :
            /\ k = Key(e) /\ m = txn[e].listing /\ d = txn[e].detail /\ before = txn[e].before
            /\ listing[m] = before /\ (before # None => ~ObservedIn(k, m))
            /\ observation' = [observation EXCEPT ![k][m] = d]
            /\ events' = events \cup {[run |-> k, listing |-> m, type |-> t] :
                                        t \in ObservationEvents(before, Observed(d))}
    BY <1>2, CommitWrites
  <2>2. m = l
    BY <1>2, <2>1
  <2>3. ObservedIn(k, l) => observation[k][l] = d
    <3>1. ObservedIn(k, l) => observation'[k][l] = observation[k][l]
      BY ObservationStays DEF ObservedIn
    <3>2. observation'[k][l] = d
      BY <2>1, <2>2 DEF CoreInv, TypeInv, TypeOK
    <3>3. QED
      BY <3>1, <3>2
  <2>4. QED
    BY <1>1, <2>1, <2>2, <2>3, CountedCommit
<1>3. CASE ~(CommitDetail(e) /\ l = txn[e].listing)
  <2>1. \A k \in Keys : observation'[k][l] = observation[k][l]
    <3>1. CASE observation' = observation
      BY <3>1
    <3>2. CASE observation' # observation
      <4>1. PICK d :
              \E r \in Keys, m \in Listings : m # l /\ observation' = [observation EXCEPT ![r][m] = d]
        BY <1>3, <3>2, ObservationWriter DEF CoreInv
      <4>2. PICK r \in Keys, m \in Listings : m # l /\ observation' = [observation EXCEPT ![r][m] = d]
        BY <4>1
      <4>3. QED
        BY <4>2 DEF CoreInv, TypeInv, TypeOK
    <3>3. QED
      BY <3>1, <3>2
  <2>2. Prices(l)' = Prices(l)
    BY <2>1 DEF Prices, ObservedIn
  <2>3. Changes(l) \subseteq Changes(l)'
    BY ChangesGrow, OnlyOwnRun DEF CoreInv
  <2>4. IsFiniteSet(Changes(l)) /\ IsFiniteSet(Changes(l)') /\ IsFiniteSet(Prices(l))
    BY HistoryFinite
  <2>5. /\ Cardinality(Changes(l)) \in Nat /\ Cardinality(Changes(l)') \in Nat
        /\ Cardinality(Changes(l)) <= Cardinality(Changes(l)')
        /\ Cardinality(Prices(l)) \in Nat
    BY <2>3, <2>4, FS_CardinalityType, FS_Subset
  <2>6. QED
    BY <1>1, <2>2, <2>5 DEF Counted
<1>4. QED
  BY <1>2, <1>3

LEMMA StoryStep ==
  ASSUME CoreInv, CoreInv', LedgerInv, ListedInv, ListingReflectsObservation, StoryInv, [Next]_vars
  PROVE  StoryInv'
<1>1. ASSUME NEW e \in Executors, Step(e) PROVE StoryInv'
  <2>1. \A f \in Executors : ToldPrice(f)'
    BY <1>1, ToldPriceSelf, ToldPriceOthers DEF StoryInv
  <2>2. QED
    BY <1>1, <2>1, PriceToldStep, CountedStep DEF StoryInv
<1>2. CASE UNCHANGED vars
  BY <1>2 DEF vars, StoryInv, ToldPrice, PriceTold, Counted, Prices, Changes, EventHistory,
              Reflects, ObservedIn, Key
<1>3. QED
  BY <1>1, <1>2 DEF Next, Step

LEMMA StoryInvariant == Spec => []StoryInv
<1>1. Init => StoryInv
  <2> SUFFICES ASSUME Init PROVE StoryInv
    OBVIOUS
  <2>1. \A l \in Listings : Prices(l) = {}
    BY DEF Init, Prices, ObservedIn
  <2>2. QED
    BY <2>1 DEF Init, StoryInv, ToldPrice, PriceTold, Counted
<1>2. CoreInv /\ CoreInv' /\ LedgerInv /\ ListedInv /\ ListingReflectsObservation /\ StoryInv
        /\ [Next]_vars => StoryInv'
  BY StoryStep
<1>3. QED
  BY <1>1, <1>2, CoreInvariant, LedgerInvariant, ListedInvariant, ReflectionCorrect, PTL DEF Spec

\* The price events of a listing and the prices of its observations tell one
\* story, whatever processes overlap, crash or share keys: an event has a point
\* on the right side of another run's, and no price follows another without an
\* event (get_listing_history).
THEOREM StoryCorrect == Spec => []HistoryTellsOneStory
<1>1. ASSUME CoreInv, StoryInv PROVE HistoryTellsOneStory
  <2> SUFFICES ASSUME NEW l \in Listings
               PROVE  /\ \A x \in Changes(l) : \E p, q \in PriceHistory(l) :
                           /\ p.run = x.run /\ q.run # x.run /\ Priced(p, q)
                           /\ IF x.type = "price_decreased" THEN p.price < q.price
                              ELSE p.price > q.price
                      /\ None \notin Prices(l) /\ Prices(l) # {} =>
                           Cardinality(Prices(l)) <= Cardinality(Changes(l)) + 1
    <3>1. ASSUME NEW l PROVE {p.price : p \in PriceHistory(l)} = Prices(l)
      <4> DEFINE point(k) == [run |-> k, price |-> observation[k][l].price]
      <4>1. \A k : point(k).price = observation[k][l].price
        OBVIOUS
      <4>2. PriceHistory(l) = {point(k) : k \in {k \in Keys : ObservedIn(k, l)}}
        BY DEF PriceHistory
      <4> HIDE DEF point
      <4>3. ASSUME NEW x \in {p.price : p \in PriceHistory(l)} PROVE x \in Prices(l)
        <5>1. PICK p \in PriceHistory(l) : x = p.price
          BY <4>3
        <5>2. PICK k \in Keys : ObservedIn(k, l) /\ p = point(k)
          BY <4>2, <5>1
        <5>3. QED
          BY <4>1, <5>1, <5>2 DEF Prices
      <4>4. ASSUME NEW x \in Prices(l) PROVE x \in {p.price : p \in PriceHistory(l)}
        <5>1. PICK k \in Keys : ObservedIn(k, l) /\ x = observation[k][l].price
          BY <4>4 DEF Prices
        <5>2. point(k) \in PriceHistory(l)
          BY <4>2, <5>1
        <5>3. QED
          BY <4>1, <5>1, <5>2
      <4>5. QED
        BY <4>3, <4>4
    <3>2. QED
      BY <3>1 DEF HistoryTellsOneStory, Changes, PriceChanges
  <2>1. ASSUME NEW x \in Changes(l)
        PROVE  \E p, q \in PriceHistory(l) :
                  /\ p.run = x.run /\ q.run # x.run /\ Priced(p, q)
                  /\ IF x.type = "price_decreased" THEN p.price < q.price ELSE p.price > q.price
    <3>1. PICK y \in events : /\ y.listing = l /\ x = [run |-> y.run, type |-> y.type]
                              /\ x.type \in PriceChanges
      BY <2>1 DEF Changes, EventHistory
    <3>2. PICK k \in Keys \ {y.run} :
            /\ ObservedIn(y.run, l) /\ ObservedIn(k, l)
            /\ RightSide(y.type, observation[y.run][l].price, observation[k][l].price)
      BY <1>1, <3>1 DEF StoryInv, PriceTold
    <3>3. y.run \in Keys
      BY <1>1, <3>1 DEF CoreInv, TypeInv, TypeOK, Event
    <3> DEFINE p == [run |-> y.run, price |-> observation[y.run][l].price]
               q == [run |-> k, price |-> observation[k][l].price]
    <3>4. p \in PriceHistory(l) /\ q \in PriceHistory(l)
      BY <3>2, <3>3 DEF PriceHistory
    <3>5. /\ p.run = x.run /\ q.run # x.run /\ Priced(p, q)
          /\ IF x.type = "price_decreased" THEN p.price < q.price ELSE p.price > q.price
      BY <3>1, <3>2 DEF Priced, RightSide
    <3> HIDE DEF p, q
    <3>6. QED
      BY <3>4, <3>5
  <2>2. QED
    BY <1>1, <2>1 DEF StoryInv, Counted
<1>2. QED
  BY <1>1, CoreInvariant, StoryInvariant, PTL

-----------------------------------------------------------------------------
(* The pages of a list *)

\* In a finite set with a strict total order, where down[l] is what precedes l,
\* the places of the elements are 0, 1, ... without a gap, in that order.
LEMMA Places ==
  ASSUME NEW S, IsFiniteSet(S), NEW down \in [S -> SUBSET S],
         \A l \in S : l \notin down[l],
         \A l, m \in S : l # m => l \in down[m] \/ m \in down[l],
         \A l, m \in S : m \in down[l] => down[m] \subseteq down[l],
         NEW place, place = [l \in S |-> Cardinality(down[l])]
  PROVE  /\ place \in Bijection(S, 0 .. Cardinality(S) - 1)
         /\ \A l, m \in S : place[m] < place[l] => l # m /\ l \notin down[m]
<1>1. \A l \in S : IsFiniteSet(down[l])
  BY FS_Subset
<1>2. \A l \in S : place[l] \in Nat
  BY <1>1, FS_CardinalityType
<1>3. Cardinality(S) \in Nat
  BY FS_CardinalityType
<1>4. \A l \in S : place[l] < Cardinality(S)
  <2> TAKE l \in S
  <2>1. down[l] \subseteq S /\ down[l] # S
    OBVIOUS
  <2>2. Cardinality(down[l]) <= Cardinality(S) /\ Cardinality(down[l]) # Cardinality(S)
    BY <2>1, FS_Subset
  <2>3. QED
    BY <1>2, <1>3, <2>2
<1>5. \A l, m \in S : m \in down[l] => place[m] < place[l]
  <2> SUFFICES ASSUME NEW l \in S, NEW m \in S, m \in down[l]
               PROVE  place[m] < place[l]
    OBVIOUS
  <2>1. down[m] \subseteq down[l] /\ down[m] # down[l]
    OBVIOUS
  <2>2. Cardinality(down[m]) <= Cardinality(down[l]) /\ Cardinality(down[m]) # Cardinality(down[l])
    BY <1>1, <2>1, FS_Subset
  <2>3. QED
    BY <1>2, <2>2
<1>6. \A l, m \in S : place[l] = place[m] => l = m
  BY <1>2, <1>5
<1>7. place \in Injection(S, 0 .. Cardinality(S) - 1)
  <2>1. \A l \in S : place[l] \in 0 .. Cardinality(S) - 1
    BY <1>2, <1>3, <1>4
  <2>2. place \in [S -> 0 .. Cardinality(S) - 1]
    BY <2>1
  <2>3. QED
    BY <1>6, <2>2 DEF Injection, IsInjective
<1>8. IsFiniteSet(0 .. Cardinality(S) - 1) /\ Cardinality(0 .. Cardinality(S) - 1) = Cardinality(S)
  <2> PICK n : n = Cardinality(S)
    OBVIOUS
  <2> PICK top : top = n - 1
    OBVIOUS
  <2>1. n \in Nat /\ top \in Int /\ 0 \in Int
    BY <1>3
  <2>2. /\ IsFiniteSet(0 .. top)
        /\ Cardinality(0 .. top) = IF 0 > top THEN 0 ELSE top - 0 + 1
    BY <2>1, FS_Interval
  <2>3. QED
    BY <2>1, <2>2
<1>9. place \in Surjection(S, 0 .. Cardinality(S) - 1)
  <2> PICK T : T = 0 .. Cardinality(S) - 1
    OBVIOUS
  <2>1. place \in Injection(S, T) /\ IsFiniteSet(T) /\ Cardinality(S) = Cardinality(T)
    BY <1>7, <1>8
  <2>2. place \in Surjection(S, T)
    BY <2>1, FS_Injection
  <2>3. QED
    BY <2>2
<1>10. QED
  BY <1>2, <1>5, <1>7, <1>9 DEF Bijection

PlacedBetween(S, place, a, b) == {l \in S : place[l] \in a .. b}

\* An interval of the places has as many elements as numbers.
LEMMA PlacesBetween ==
  ASSUME NEW S, IsFiniteSet(S), NEW top \in Int, NEW T, T = 0 .. top, NEW place \in Bijection(S, T),
         NEW a \in Nat, NEW b \in Int, b <= top, a <= b + 1
  PROVE  Cardinality(PlacedBetween(S, place, a, b)) = b - a + 1
<1> DEFINE P == {l \in S : place[l] \in a .. b}
           f == [l \in P |-> place[l]]
<1>1. IsFiniteSet(P)
  BY FS_Subset
<1>2. f \in Injection(P, a .. b)
  BY DEF Bijection, Injection, IsInjective
<1>3. f \in Surjection(P, a .. b)
  <2>1. f \in [P -> a .. b]
    OBVIOUS
  <2>2. ASSUME NEW i \in a .. b PROVE \E l \in P : f[l] = i
    <3>1. i \in 0 .. top
      OBVIOUS
    <3>2. PICK l \in S : place[l] = i
      BY <3>1 DEF Bijection, Surjection
    <3>3. QED
      BY <3>2
  <2> HIDE DEF f, P
  <2>3. QED
    BY <2>1, <2>2 DEF Surjection
<1>4. f \in Bijection(P, a .. b)
  BY <1>2, <1>3 DEF Bijection
<1> HIDE DEF f, P
<1>5. Cardinality(a .. b) = Cardinality(P)
  BY <1>1, <1>4, FS_Bijection DEF ExistsBijection
<1>6. Cardinality(a .. b) = b - a + 1
  BY FS_Interval
<1>7. QED
  BY <1>5, <1>6 DEF P, PlacedBetween

LEMMA Division ==
  ASSUME NEW a \in Nat, NEW b \in Nat \ {0}
  PROVE  a \div b \in Nat /\ (a \div b) * b <= a /\ a < (a \div b) * b + b
OBVIOUS

LEMMA Times ==
  ASSUME NEW p \in Int, NEW q \in Int, p <= q, NEW size \in Nat
  PROVE  p * size <= q * size /\ (p + 1) * size = p * size + size
         /\ (p - 1) * size = p * size - size /\ p * size \in Int
OBVIOUS

\* ORDER BY is a strict total order of the listings that have a row.
LEMMA Ordered ==
  ASSUME TypeOK, NEW listed \in SUBSET {l \in Listings : listing[l] # None},
         NEW sort, NEW rank \in Rankings
  PROVE  /\ \A l \in listed : ~Precedes(sort, rank, l, l)
         /\ \A l, m \in listed :
              l # m => Precedes(sort, rank, l, m) \/ Precedes(sort, rank, m, l)
         /\ \A l, m, o \in listed :
              Precedes(sort, rank, l, m) /\ Precedes(sort, rank, m, o) => Precedes(sort, rank, l, o)
<1>1. \A l \in listed : listing[l].price \in Nat \cup {None}
  BY NoneAssumption DEF TypeOK, Listing, Price
<1>2. \A l \in listed : rank[l] \in Int
  BY FiniteAssumption, FS_CardinalityType DEF Rankings
<1>3. \A l, m \in listed : rank[l] = rank[m] => l = m
  BY DEF Rankings
<1>4. None \notin Nat
  BY NoneAssumption
<1>5. QED
  BY <1>1, <1>2, <1>3, <1>4 DEF Precedes

CoversOnce(listed, sort, rank, size) ==
    LET On(page) == Items(listed, sort, rank, size, page)
        pages    == 1..Pages(listed, size)
    IN  /\ UNION {On(page) : page \in pages} = listed
        /\ \A p, q \in pages : p < q =>
             /\ Cardinality(On(p)) = size
             /\ \A l \in On(p), m \in On(q) : l # m /\ ~Precedes(sort, rank, m, l)

\* What a page shows are the listings of size consecutive places.
LEMMA PagesCover ==
  ASSUME TypeOK, NEW listed \in SUBSET {l \in Listings : listing[l] # None},
         NEW sort, NEW rank \in Rankings, NEW size \in 1 .. Cardinality(listed) - 1
  PROVE  CoversOnce(listed, sort, rank, size)
<1> PICK n : n = Cardinality(listed)
  OBVIOUS
<1>1. IsFiniteSet(listed) /\ n \in Nat /\ size \in Nat \ {0} /\ size < n
  BY FiniteAssumption, FS_Subset, FS_CardinalityType
<1> PICK down : down = [l \in listed |-> {m \in listed : Precedes(sort, rank, m, l)}]
  OBVIOUS
<1> PICK place : place = [l \in listed |-> Cardinality(down[l])]
  OBVIOUS
<1>2. \A l, m \in listed : m \in down[l] <=> Precedes(sort, rank, m, l)
  OBVIOUS
<1>3. down \in [listed -> SUBSET listed]
  OBVIOUS
<1>4. /\ place \in Bijection(listed, 0 .. n - 1)
      /\ \A l, m \in listed : place[m] < place[l] => l # m /\ l \notin down[m]
  <2>1. /\ \A l \in listed : l \notin down[l]
        /\ \A l, m \in listed : l # m => l \in down[m] \/ m \in down[l]
        /\ \A l, m \in listed : m \in down[l] => down[m] \subseteq down[l]
    BY <1>2, <1>3, Ordered
  <2>2. QED
    BY <1>1, <1>3, <2>1, Places
<1>5. \A l \in listed : place[l] \in 0 .. n - 1
  BY <1>4 DEF Bijection, Injection
<1>6. ASSUME NEW page
      PROVE  Items(listed, sort, rank, size, page) =
                PlacedBetween(listed, place, (page - 1) * size, page * size - 1)
  BY DEF Items, PlacedBetween
<1> PICK last : last = Pages(listed, size)
  OBVIOUS
<1>7. last \in Nat /\ last * size <= n + size - 1 /\ n + size - 1 < last * size + size
  <2>1. last = (n + size - 1) \div size
    BY DEF Pages
  <2>2. n + size - 1 \in Nat
    BY <1>1
  <2>3. QED
    BY <1>1, <2>1, <2>2, Division
<1>8. UNION {Items(listed, sort, rank, size, page) : page \in 1..last} = listed
  <2> SUFFICES ASSUME NEW l \in listed
               PROVE  \E page \in 1..last : l \in Items(listed, sort, rank, size, page)
    <3>1. \A page : Items(listed, sort, rank, size, page) \subseteq listed
      BY DEF Items
    <3>2. QED
      BY <3>1
  <2> PICK c : c = place[l] \div size
    OBVIOUS
  <2>1. c \in Nat /\ c * size <= place[l] /\ place[l] < c * size + size /\ place[l] < n
        /\ place[l] \in Nat
    <3>1. place[l] \in Nat /\ place[l] < n
      BY <1>1, <1>5
    <3>2. QED
      BY <1>1, <3>1, Division
  <2>2. c < last
    <3>1. CASE last <= c
      <4>1. last * size <= c * size
        BY <1>1, <1>7, <2>1, <3>1, Times
      <4>2. QED
        BY <1>1, <1>7, <2>1, <4>1, Times
    <3>2. QED
      BY <1>7, <2>1, <3>1
  <2>3. c + 1 \in 1..last
    BY <1>7, <2>1, <2>2
  <2>4. (c + 1 - 1) * size = c * size /\ (c + 1) * size = c * size + size /\ c * size \in Int
    BY <1>1, <2>1, Times
  <2>5. place[l] \in (c + 1 - 1) * size .. (c + 1) * size - 1
    BY <1>1, <2>1, <2>4
  <2>6. l \in Items(listed, sort, rank, size, c + 1)
    <3> PICK page : page = c + 1
      OBVIOUS
    <3>1. l \in PlacedBetween(listed, place, (page - 1) * size, page * size - 1)
      BY <2>5 DEF PlacedBetween
    <3>2. l \in Items(listed, sort, rank, size, page)
      BY <1>6, <3>1
    <3>3. QED
      BY <3>2
  <2>7. QED
    BY <2>3, <2>6
<1>9. ASSUME NEW p \in 1..last, NEW q \in 1..last, p < q
      PROVE  /\ Cardinality(Items(listed, sort, rank, size, p)) = size
             /\ \A l \in Items(listed, sort, rank, size, p), m \in Items(listed, sort, rank, size, q) :
                  l # m /\ ~Precedes(sort, rank, m, l)
  <2>1. p \in Nat /\ q \in Nat /\ p >= 1 /\ p <= q - 1 /\ q <= last
    BY <1>7, <1>9
  <2>2. /\ p * size \in Int /\ q * size \in Int /\ last * size \in Int
        /\ (p - 1) * size = p * size - size /\ (q - 1) * size = q * size - size
    BY <1>1, <1>7, <2>1, Times
  <2>3. p * size <= (q - 1) * size /\ q * size <= last * size
    BY <1>1, <1>7, <2>1, Times
  <2>4. 1 * size <= p * size /\ 1 * size = size
    BY <1>1, <2>1, Times
  <2>5. Cardinality(Items(listed, sort, rank, size, p)) = size
    <3> PICK a : a = (p - 1) * size
      OBVIOUS
    <3> PICK b : b = p * size - 1
      OBVIOUS
    <3> PICK top : top = n - 1
      OBVIOUS
    <3>1. a \in Nat /\ b \in Int /\ b <= top /\ a <= b + 1 /\ b - a + 1 = size /\ top \in Int
      BY <1>1, <1>7, <2>2, <2>3, <2>4
    <3>2. \A x \in Nat, y \in Int : y <= top /\ x <= y + 1 =>
             Cardinality(PlacedBetween(listed, place, x, y)) = y - x + 1
      <4> PICK places : places = 0 .. top
        OBVIOUS
      <4>1. place \in Bijection(listed, places)
        BY <1>4
      <4>2. IsFiniteSet(listed) /\ top \in Int
        BY <1>1, <3>1
      <4>3. QED
        BY <4>1, <4>2, PlacesBetween
    <3>3. QED
      BY <1>6, <3>1, <3>2
  <2>6. ASSUME NEW l \in Items(listed, sort, rank, size, p), NEW m \in Items(listed, sort, rank, size, q)
        PROVE  l # m /\ ~Precedes(sort, rank, m, l)
    <3>1. /\ l \in listed /\ place[l] \in (p - 1) * size .. p * size - 1
          /\ m \in listed /\ place[m] \in (q - 1) * size .. q * size - 1
      BY <1>6 DEF PlacedBetween
    <3>2. place[l] < place[m]
      BY <1>1, <2>2, <2>3, <3>1
    <3>3. QED
      BY <1>2, <1>4, <3>1, <3>2
  <2>7. QED
    BY <2>5, <2>6
<1>10. QED
  BY <1>8, <1>9 DEF CoversOnce

\* Leafing through a list shows every matching listing on exactly one page, in
\* order, and only the last page is short, for every filter, order of the
\* Sreality ids and page size (list_listings).
THEOREM PagesCorrect == Spec => []PagesCoverOnce
<1>1. ASSUME TypeOK PROVE PagesCoverOnce
  <2>1. \A f, latest : Listed(f, latest) \in SUBSET {l \in Listings : listing[l] # None}
    BY DEF Listed, Matches
  <2>2. SUFFICES
          ASSUME NEW listed \in {Listed(f, latest) : f \in Filters,
                                     latest \in {k \in Keys : Succeeded(k)} \cup {None}},
                 NEW sort \in Sorts, NEW rank \in Rankings,
                 NEW size \in 1..(Cardinality(listed) - 1)
          PROVE  CoversOnce(listed, sort, rank, size)
    BY DEF PagesCoverOnce, CoversOnce
  <2>3. listed \in SUBSET {l \in Listings : listing[l] # None}
    BY <2>1
  <2>4. QED
    BY <1>1, <2>3, PagesCover
<1>2. QED
  BY <1>1, TypeCorrect, PTL
=============================================================================
