------------------------ MODULE ScrapePipelineProofs ------------------------
(***************************************************************************)
(* Theorems about ScrapePipeline for every set of keys, listings,          *)
(* processes and details: the types, the raw objects, the results of runs  *)
(* with keys of their own, and, whoever shares keys, what the listings     *)
(* table and the event history say about the observations.                 *)
(***************************************************************************)
EXTENDS ScrapePipeline, FiniteSetTheorems, TLAPS

-----------------------------------------------------------------------------
(* Operators *)

LEMMA DetailIsNotNone == \A d \in Details : d \in Detail /\ d # None
BY DetailsAssumption, NoneAssumption

LEMMA ObservedType == \A d \in Detail : Observed(d) \in Listing
BY DEF Observed, Detail, Listing

LEMMA NewRunType == NewRun \in Run
BY DEF NewRun, Run, Statuses

\* An observation causes events of the known types only.
LEMMA ObservationEventsType ==
  ASSUME NEW previous, NEW current
  PROVE  ObservationEvents(previous, current) \subseteq EventTypes
BY DEF ObservationEvents, EventTypes

LEMMA FlushedType ==
  ASSUME NEW loaded \in Run, NEW new \in Run, NEW current \in Run
  PROVE  Flushed(loaded, new, current) \in Run
BY DEF Flushed, Column, Run

\* The number of listings with a property, and of events of a run, is finite.
LEMMA ListingCount ==
  ASSUME NEW S \in SUBSET Listings
  PROVE  IsFiniteSet(S) /\ Cardinality(S) \in Nat
BY FiniteAssumption, FS_Subset, FS_CardinalityType

LEMMA FinalRowType ==
  ASSUME TypeOK, IsFiniteSet(events), NEW e \in Executors, NEW loaded \in Run
  PROVE  FinalRow(e, loaded) \in Run
<1> DEFINE k == Key(e)
           created == EventsOf(k, {"created"})
           changed == {x.listing : x \in EventsOf(k, ChangeTypes)}
<1>1. FoundCount(e) \in Nat
  BY ListingCount DEF FoundCount
<1>2. Cardinality(created) \in Nat
  BY FS_Subset, FS_CardinalityType DEF EventsOf
<1>3. Cardinality(changed) \in Nat
  <2>1. changed \subseteq Listings
    BY DEF EventsOf, TypeOK, Event
  <2>2. QED
    BY <2>1, ListingCount
<1>4. Cardinality(work[e].failed) \in Nat
  <2>1. IsFiniteSet(Kinds)
    <3>1. Kinds = {"chata"} \cup {"chalupa"}
      BY DEF Kinds
    <3>2. QED
      BY <3>1, FS_Singleton, FS_AddElement
  <2>2. work[e].failed \in SUBSET Kinds
    BY DEF TypeOK, Work
  <2>3. QED
    BY <2>1, <2>2, FS_Subset, FS_CardinalityType
<1>5. FinalStatus(work[e].failed, work[e].completed, FoundCount(e)) \in Statuses
  BY DEF FinalStatus, Statuses
<1>. HIDE DEF created, changed
<1>6. QED
  BY <1>1, <1>2, <1>3, <1>4, <1>5 DEF FinalRow, Run, created, changed

-----------------------------------------------------------------------------
(* Type correctness *)

\* The events of one observation, and of one bulk deactivation, are finitely many.
LEMMA TypeSetFinite == ASSUME NEW T \in SUBSET EventTypes PROVE IsFiniteSet(T)
<1>1. IsFiniteSet({}) BY FS_EmptySet
<1>2. IsFiniteSet({"created"}) BY <1>1, FS_Singleton
<1>3. IsFiniteSet({"created"} \cup {"price_decreased"}) BY <1>2, FS_AddElement
<1>4. IsFiniteSet({"created", "price_decreased"} \cup {"price_increased"})
  BY <1>3, FS_AddElement, {"created", "price_decreased"} = {"created"} \cup {"price_decreased"}
<1>5. IsFiniteSet({"created", "price_decreased", "price_increased"} \cup {"details_changed"})
  BY <1>4, FS_AddElement,
     {"created", "price_decreased", "price_increased"}
        = {"created", "price_decreased"} \cup {"price_increased"}
<1>6. IsFiniteSet({"created", "price_decreased", "price_increased", "details_changed"}
                    \cup {"deactivated"})
  BY <1>5, FS_AddElement,
     {"created", "price_decreased", "price_increased", "details_changed"}
        = {"created", "price_decreased", "price_increased"} \cup {"details_changed"}
<1>7. IsFiniteSet({"created", "price_decreased", "price_increased", "details_changed",
                   "deactivated"} \cup {"reactivated"})
  BY <1>6, FS_AddElement,
     {"created", "price_decreased", "price_increased", "details_changed", "deactivated"}
        = {"created", "price_decreased", "price_increased", "details_changed"}
            \cup {"deactivated"}
<1>8. EventTypes = {"created", "price_decreased", "price_increased", "details_changed",
                    "deactivated"} \cup {"reactivated"}
  BY DEF EventTypes
<1>9. QED BY <1>7, <1>8, FS_Subset

LEMMA ObservationEventsFinite ==
  ASSUME NEW k, NEW l, NEW T \in SUBSET EventTypes
  PROVE  IsFiniteSet({[run |-> k, listing |-> l, type |-> t] : t \in T})
<1> DEFINE E == {[run |-> k, listing |-> l, type |-> t] : t \in T}
           f == [t \in T |-> [run |-> k, listing |-> l, type |-> t]]
<1>1. f \in Surjection(T, E) BY DEF Surjection
<1>2. QED BY <1>1, TypeSetFinite, FS_Surjection

LEMMA DropEventsFinite ==
  ASSUME NEW k, NEW S \in SUBSET Listings
  PROVE  IsFiniteSet([run : {k}, listing : S, type : {"deactivated"}])
<1> DEFINE E == [run : {k}, listing : S, type : {"deactivated"}]
           f == [l \in S |-> [run |-> k, listing |-> l, type |-> "deactivated"]]
<1>1. f \in Surjection(S, E) BY DEF Surjection
<1>2. QED BY <1>1, ListingCount, FS_Surjection

TypeInv == TypeOK /\ IsFiniteSet(events)

LEMMA InitType == Init => TypeInv
BY FS_EmptySet, MaxExecutionsAssumption
   DEF Init, TypeInv, TypeOK, Controls, Work, Txn, Closing, NoWork, NoTxn, NoClosing,
       Kinds, Event

\* A process that ends has its locals reset.
LEMMA EndsType ==
  ASSUME TypeInv, NEW e \in Executors, Ends(e)
  PROVE  /\ pc' \in [Executors -> Controls]
         /\ work' \in [Executors -> Work]
         /\ txn' \in [Executors -> Txn]
         /\ closing' \in [Executors -> Closing]
BY DEF Ends, TypeInv, TypeOK, Controls, Work, Txn, Closing, NoWork, NoTxn, NoClosing, Kinds

LEMMA NextKindType ==
  ASSUME TypeInv, NEW e \in Executors, NEW completed \in SUBSET Kinds,
         NEW failed \in SUBSET Kinds, NextKind(e, completed, failed)
  PROVE  TypeInv'
<1>1. [work[e] EXCEPT !.kind = "chalupa", !.seen = {}, !.completed = completed,
                      !.failed = failed] \in Work
  <2>1. work[e] \in Work
    BY DEF TypeInv, TypeOK
  <2>2. "chalupa" \in Kinds
    BY DEF Kinds
  <2>3. QED
    BY <2>1, <2>2 DEF Work
<1>2. work' \in [Executors -> Work]
  BY <1>1 DEF NextKind, TypeInv, TypeOK
<1>3. NoTxn \in Txn
  BY DEF NoTxn, Txn
<1>4. QED
  BY <1>2, <1>3 DEF NextKind, TypeInv, TypeOK, Controls, dbVars

LEMMA CommitDetailType ==
  ASSUME TypeInv, NEW e \in Executors, CommitDetail(e), txn[e].detail # None,
         txn[e].listing # None, Key(e) # None
  PROVE  TypeInv'
<1> DEFINE k == Key(e)
           l == txn[e].listing
           d == txn[e].detail
           types == ObservationEvents(txn[e].before, Observed(d))
           new == {[run |-> k, listing |-> l, type |-> t] : t \in types}
<1>1. k \in Keys /\ l \in Listings /\ d \in Detail
  BY DEF TypeInv, TypeOK, Work, Txn, Key
<1>2. types \subseteq EventTypes
  BY ObservationEventsType
<1>3. IsFiniteSet(events') /\ events' \subseteq Event
  <2>1. IsFiniteSet(new)
    BY <1>2, ObservationEventsFinite
  <2>2. new \subseteq Event
    BY <1>1, <1>2 DEF Event
  <2>3. events' = events \cup new
    BY DEF CommitDetail
  <2>4. QED
    BY <2>1, <2>2, <2>3, FS_Union DEF TypeInv, TypeOK
<1>4. listing' \in [Listings -> Listing \cup {None}]
  BY <1>1, ObservedType DEF CommitDetail, CurrentState, TypeInv, TypeOK
<1>5. observation' \in [Keys -> [Listings -> Detail \cup {None}]]
  BY <1>1 DEF CommitDetail, TypeInv, TypeOK
<1>6. pc' \in [Executors -> Controls] /\ txn' \in [Executors -> Txn]
  BY DEF CommitDetail, TypeInv, TypeOK, Controls, Txn, NoTxn
<1>7. QED
  BY <1>3, <1>4, <1>5, <1>6 DEF CommitDetail, TypeInv, TypeOK

LEMMA FinishSucceededType ==
  ASSUME TypeInv, NEW e \in Executors, FinishSucceeded(e), Key(e) # None,
         closing[e].loaded # None, closing[e].row # None, run[Key(e)] # None
  PROVE  TypeInv'
<1> DEFINE k == Key(e)
           row == [closing[e].row EXCEPT !.deactivated_count = Cardinality(Dropped(e))]
<1>1. k \in Keys /\ closing[e].loaded \in Run /\ closing[e].row \in Run /\ run[k] \in Run
  BY DEF TypeInv, TypeOK, Work, Closing, Key
<1>2. Dropped(e) \in SUBSET Listings
  BY DEF Dropped, TypeInv, TypeOK, Closing
<1>3. row \in Run
  <2>1. Cardinality(Dropped(e)) \in Nat
    BY <1>2, ListingCount
  <2>2. QED
    BY <1>1, <2>1 DEF Run
<1>4. Flushed(closing[e].loaded, row, run[k]) \in Run
  BY <1>1, <1>3, FlushedType
<1>5. IsFiniteSet(DropEvents(e)) /\ DropEvents(e) \subseteq Event
  <2>1. DropEvents(e) \subseteq Event
    BY <1>1, <1>2 DEF DropEvents, Event, EventTypes
  <2>2. IsFiniteSet(DropEvents(e))
    BY <1>2, DropEventsFinite DEF DropEvents
  <2>3. QED
    BY <2>1, <2>2
<1>6. run' \in [Keys -> Run \cup {None}]
  BY <1>1, <1>4 DEF FinishSucceeded, TypeInv, TypeOK
<1>7. listing' \in [Listings -> Listing \cup {None}]
  <2>1. \A l \in Dropped(e) : listing[l] \in Listing
    BY <1>2 DEF Dropped, TypeInv, TypeOK
  <2>2. \A r \in Listing : [r EXCEPT !.active = FALSE] \in Listing
    BY DEF Listing
  <2>3. CASE listing' = listing
    BY <2>3 DEF TypeInv, TypeOK
  <2>4. CASE listing' = [l \in Listings |->
                            IF l \in Dropped(e) THEN [listing[l] EXCEPT !.active = FALSE]
                                                ELSE listing[l]]
    BY <2>1, <2>2, <2>4 DEF TypeInv, TypeOK
  <2>5. QED
    BY <2>3, <2>4 DEF FinishSucceeded
<1>8. events' \subseteq Event /\ IsFiniteSet(events')
  <2>1. IsFiniteSet(events) /\ events \subseteq Event
    BY DEF TypeInv, TypeOK
  <2>2. IsFiniteSet(events \cup DropEvents(e))
    BY <1>5, <2>1, FS_Union
  <2>3. events' = events \/ events' = events \cup DropEvents(e)
    BY DEF FinishSucceeded
  <2>4. QED
    BY <1>5, <2>1, <2>2, <2>3
<1>9. QED
  BY <1>6, <1>7, <1>8, EndsType DEF FinishSucceeded, TypeInv, TypeOK

\* What the control of a process says about its locals: the part of the
\* inductive invariant that type correctness needs besides the types.
Controlled(e) ==
    /\ pc[e] # "idle" => Key(e) \in Keys
    /\ pc[e] \notin {"idle", "create"} => run[Key(e)] # None
    /\ pc[e] \in {"open", "store", "commit"} =>
          txn[e].listing \in Listings /\ txn[e].detail \in Detail
    /\ pc[e] \in {"flush", "select", "write"} =>
          closing[e].loaded \in Run /\ closing[e].row \in Run

ControlInv == \A e \in Executors : Controlled(e)

LEMMA InitControl == Init => ControlInv
BY DEF Init, ControlInv, Controlled

LEMMA WorkUpdates ==
  ASSUME NEW w \in Work
  PROVE  /\ \A k \in Keys : [w EXCEPT !.key = k] \in Work
         /\ \A l \in Listings : [w EXCEPT !.seen = @ \cup {l}] \in Work
BY DEF Work

LEMMA TxnUpdates ==
  /\ NoTxn \in Txn
  /\ \A l \in Listings, d \in Detail : [NoTxn EXCEPT !.listing = l, !.detail = d] \in Txn
  /\ \A t \in Txn, b \in Listing \cup {None} : [t EXCEPT !.before = b] \in Txn
BY DEF Txn, NoTxn

LEMMA ClosingUpdates ==
  /\ \A r, s \in Run : [NoClosing EXCEPT !.loaded = r, !.row = s] \in Closing
  /\ \A c \in Closing, S \in SUBSET Listings : [c EXCEPT !.missing = S] \in Closing
BY DEF Closing, NoClosing

LEMMA TypeStep ==
  ASSUME TypeInv, ControlInv, [Next]_vars
  PROVE  TypeInv'
<1>1. ASSUME NEW e \in Executors, NEW k \in Keys, FindRun(e, k)
      PROVE  TypeInv'
  <2>1. work' \in [Executors -> Work]
    <3>1. work[e] \in Work /\ [work[e] EXCEPT !.key = k] \in Work
      BY WorkUpdates DEF TypeInv, TypeOK
    <3>2. work' = work \/ work' = [work EXCEPT ![e] = [work[e] EXCEPT !.key = k]]
      BY <1>1 DEF FindRun
    <3>3. QED
      BY <3>1, <3>2 DEF TypeInv, TypeOK
  <2>2. executions' \in 0..MaxExecutions
    BY <1>1, MaxExecutionsAssumption DEF FindRun, TypeInv, TypeOK
  <2>3. pc' \in [Executors -> Controls]
    BY <1>1 DEF FindRun, TypeInv, TypeOK, Controls
  <2>4. QED
    BY <1>1, <2>1, <2>2, <2>3 DEF FindRun, TypeInv, TypeOK, dbVars
<1>2. ASSUME NEW e \in Executors, CreateRun(e)
      PROVE  TypeInv'
  BY <1>2, NewRunType, EndsType DEF CreateRun, TypeInv, TypeOK, Controls
<1>3. ASSUME NEW e \in Executors, NEW l \in Listings, NEW d \in Details, Fetch(e, l, d)
      PROVE  TypeInv'
  <2>1. work' \in [Executors -> Work]
    BY <1>3, WorkUpdates DEF Fetch, TypeInv, TypeOK
  <2>2. txn' \in [Executors -> Txn]
    BY <1>3, TxnUpdates, DetailIsNotNone DEF Fetch, TypeInv, TypeOK
  <2>3. QED
    BY <1>3, <2>1, <2>2 DEF Fetch, TypeInv, TypeOK, Controls, dbVars
<1>4. ASSUME NEW e \in Executors, CompleteCategory(e)
      PROVE  TypeInv'
  BY <1>4, NextKindType DEF CompleteCategory, TypeInv, TypeOK, Work
<1>5. ASSUME NEW e \in Executors, FailCategory(e) \/ RawConflict(e) \/ RefuseDetail(e)
      PROVE  TypeInv'
  <2>1. /\ work[e].completed \in SUBSET Kinds
        /\ work[e].failed \cup {work[e].kind} \in SUBSET Kinds
    BY DEF TypeInv, TypeOK, Work
  <2>2. NextKind(e, work[e].completed, work[e].failed \cup {work[e].kind})
    BY <1>5 DEF FailCategory, RawConflict, RefuseDetail
  <2>3. QED
    BY <2>1, <2>2, NextKindType
<1>6. ASSUME NEW e \in Executors, OpenDetail(e)
      PROVE  TypeInv'
  <2>1. txn' \in [Executors -> Txn]
    <3>1. txn[e].listing \in Listings
      BY <1>6 DEF OpenDetail, ControlInv, Controlled
    <3>2. [txn[e] EXCEPT !.before = listing[txn[e].listing]] \in Txn
      BY <3>1, TxnUpdates DEF TypeInv, TypeOK
    <3>3. \/ txn' = [txn EXCEPT ![e] = NoTxn]
          \/ txn' = [txn EXCEPT ![e] = [txn[e] EXCEPT !.before = listing[txn[e].listing]]]
      BY <1>6 DEF OpenDetail
    <3>4. QED
      BY <3>2, <3>3, TxnUpdates DEF TypeInv, TypeOK
  <2>2. QED
    BY <1>6, <2>1 DEF OpenDetail, TypeInv, TypeOK, Controls, dbVars
<1>7. ASSUME NEW e \in Executors, StoreRaw(e)
      PROVE  TypeInv'
  BY <1>7 DEF StoreRaw, ControlInv, Controlled, TypeInv, TypeOK, Txn, Controls, dbVars
<1>8. ASSUME NEW e \in Executors, CommitDetail(e)
      PROVE  TypeInv'
  BY <1>8, CommitDetailType, NoneAssumption, NoneIsNoName DEF CommitDetail, ControlInv, Controlled
<1>9. ASSUME NEW e \in Executors, FinishRead(e)
      PROVE  TypeInv'
  <2>1. /\ run[Key(e)] \in Run
        /\ FinalRow(e, run[Key(e)]) \in Run
    BY <1>9, FinalRowType DEF FinishRead, ControlInv, Controlled, TypeInv, TypeOK
  <2>2. closing' \in [Executors -> Closing]
    BY <1>9, <2>1, ClosingUpdates DEF FinishRead, TypeInv, TypeOK
  <2>3. QED
    BY <1>9, <2>2 DEF FinishRead, TypeInv, TypeOK, Controls, dbVars
<1>10. ASSUME NEW e \in Executors, FinishIncomplete(e)
       PROVE  TypeInv'
  BY <1>10, FlushedType, EndsType DEF FinishIncomplete, ControlInv, Controlled, TypeInv, TypeOK
<1>11. ASSUME NEW e \in Executors, FinishSelect(e)
       PROVE  TypeInv'
  <2>1. CASE Ends(e)
    BY <1>11, <2>1, EndsType DEF FinishSelect, TypeInv, TypeOK, dbVars
  <2>2. CASE /\ pc' = [pc EXCEPT ![e] = "write"]
             /\ closing' = [closing EXCEPT ![e].missing = Missing(Key(e))]
             /\ UNCHANGED <<work, txn>>
    <3>1. Missing(Key(e)) \in SUBSET Listings
      BY DEF Missing
    <3>2. closing' \in [Executors -> Closing]
      BY <2>2, <3>1, ClosingUpdates DEF TypeInv, TypeOK
    <3>3. QED
      BY <1>11, <2>2, <3>2 DEF FinishSelect, TypeInv, TypeOK, Controls, dbVars
  <2>3. QED
    BY <1>11, <2>1, <2>2 DEF FinishSelect
<1>12. ASSUME NEW e \in Executors, FinishSucceeded(e)
       PROVE  TypeInv'
  BY <1>12, FinishSucceededType, NoneIsNoRow, NoneIsNoName
     DEF FinishSucceeded, ControlInv, Controlled
<1>13. ASSUME NEW e \in Executors, Crash(e)
       PROVE  TypeInv'
  BY <1>13, EndsType DEF Crash, TypeInv, TypeOK, dbVars
<1>14. CASE UNCHANGED vars
  BY <1>14 DEF vars, TypeInv, TypeOK
<1>15. QED
  BY <1>1, <1>2, <1>3, <1>4, <1>5, <1>6, <1>7, <1>8, <1>9, <1>10, <1>11, <1>12, <1>13,
     <1>14 DEF Next, Execute

\* A step of one process leaves the control and the locals of the others alone.
Step(e) == (\E k \in Keys : FindRun(e, k)) \/ Execute(e) \/ Crash(e)

LEMMA Frame ==
  ASSUME TypeInv, NEW e \in Executors, Step(e), NEW f \in Executors, f # e
  PROVE  /\ pc'[f] = pc[f]
         /\ work'[f] = work[f]
         /\ txn'[f] = txn[f]
         /\ closing'[f] = closing[f]
<1> USE DEF TypeInv, TypeOK
<1>1. CASE \E k \in Keys : FindRun(e, k)
  BY <1>1 DEF FindRun
<1>2. CASE CreateRun(e)
  BY <1>2 DEF CreateRun, Ends
<1>3. CASE \E l \in Listings, d \in Details : Fetch(e, l, d)
  BY <1>3 DEF Fetch
<1>4. CASE CompleteCategory(e) \/ FailCategory(e) \/ RawConflict(e) \/ RefuseDetail(e)
  BY <1>4 DEF CompleteCategory, FailCategory, RawConflict, RefuseDetail, NextKind
<1>5. CASE OpenDetail(e) \/ StoreRaw(e) \/ CommitDetail(e)
  BY <1>5 DEF OpenDetail, StoreRaw, CommitDetail
<1>6. CASE FinishRead(e) \/ FinishSelect(e)
  BY <1>6 DEF FinishRead, FinishSelect, Ends
<1>7. CASE FinishIncomplete(e) \/ FinishSucceeded(e) \/ Crash(e)
  BY <1>7 DEF FinishIncomplete, FinishSucceeded, Crash, Ends
<1>8. QED
  BY <1>1, <1>2, <1>3, <1>4, <1>5, <1>6, <1>7 DEF Step, Execute

\* A run row, once inserted, stays.
LEMMA RunStays ==
  ASSUME TypeInv, ControlInv, NEW e \in Executors, Step(e), NEW k \in Keys, run[k] # None
  PROVE  run'[k] # None
<1> USE DEF TypeInv, TypeOK
<1>1. CASE CreateRun(e)
  BY <1>1, NewRunType, NoneIsNoRow DEF CreateRun
<1>2. CASE FinishIncomplete(e)
  <2>1. Flushed(closing[e].loaded, closing[e].row, run[Key(e)]) \in Run
    BY <1>2, FlushedType DEF FinishIncomplete, ControlInv, Controlled
  <2>2. QED
    BY <1>2, <2>1, NoneIsNoRow DEF FinishIncomplete
<1>3. CASE FinishSucceeded(e)
  <2>1. Dropped(e) \in SUBSET Listings
    BY DEF Dropped, Closing
  <2>2. [closing[e].row EXCEPT !.deactivated_count = Cardinality(Dropped(e))] \in Run
    BY <1>3, <2>1, ListingCount DEF FinishSucceeded, ControlInv, Controlled, Run
  <2>3. Flushed(closing[e].loaded,
                [closing[e].row EXCEPT !.deactivated_count = Cardinality(Dropped(e))],
                run[Key(e)]) \in Run
    BY <1>3, <2>2, FlushedType DEF FinishSucceeded, ControlInv, Controlled
  <2>4. QED
    BY <1>3, <2>3, NoneIsNoRow DEF FinishSucceeded
<1>4. CASE run' = run
  BY <1>4
<1>5. QED
  BY <1>1, <1>2, <1>3, <1>4
     DEF Step, Execute, FindRun, Fetch, CompleteCategory, FailCategory, RawConflict,
         RefuseDetail, NextKind, OpenDetail, StoreRaw, CommitDetail, FinishRead,
         FinishSelect, Crash, dbVars

LEMMA ControlStepSelf ==
  ASSUME TypeInv, ControlInv, NEW e \in Executors, Step(e)
  PROVE  Controlled(e)'
<1> USE DEF TypeInv, TypeOK, Key
<1>0. /\ Controlled(e)
      /\ \A k \in Keys : run[k] # None => run'[k] # None
  BY RunStays DEF ControlInv, Controlled
<1>1. ASSUME NEW k \in Keys, FindRun(e, k)
      PROVE  Controlled(e)'
  <2>1. CASE Finished(k)
    BY <1>0, <1>1, <2>1 DEF FindRun, Controlled, dbVars
  <2>2. CASE ~Finished(k)
    <3>1. work'[e].key = k /\ run' = run
      BY <1>1, <2>2 DEF FindRun, Work, dbVars
    <3>2. pc'[e] = IF run[k] = None THEN "create" ELSE "fetch"
      BY <1>1, <2>2 DEF FindRun
    <3>3. QED
      BY <3>1, <3>2 DEF Controlled
  <2>3. QED
    BY <2>1, <2>2
<1>2. CASE CreateRun(e)
  <2>1. CASE Ends(e)
    BY <2>1 DEF Ends, Controlled
  <2>2. CASE ~Ends(e)
    BY <1>0, <1>2, <2>2, NewRunType, NoneIsNoRow DEF CreateRun, Controlled
  <2>3. QED
    BY <2>1, <2>2
<1>3. ASSUME NEW l \in Listings, NEW d \in Details, Fetch(e, l, d)
      PROVE  Controlled(e)'
  <2>1. work'[e].key = work[e].key /\ run' = run /\ pc'[e] = "open"
    BY <1>3 DEF Fetch, Work, dbVars
  <2>2. txn'[e].listing = l /\ txn'[e].detail = d
    BY <1>3 DEF Fetch, NoTxn
  <2>3. QED
    BY <1>0, <1>3, <2>1, <2>2, DetailIsNotNone DEF Fetch, Controlled
<1>4. CASE CompleteCategory(e) \/ FailCategory(e) \/ RawConflict(e) \/ RefuseDetail(e)
  <2>1. work'[e].key = work[e].key /\ run' = run /\ pc'[e] \in {"fetch", "finish"}
    BY <1>4 DEF CompleteCategory, FailCategory, RawConflict, RefuseDetail, NextKind,
                Work, dbVars
  <2>2. pc[e] \in {"fetch", "open", "store", "commit"}
    BY <1>4 DEF CompleteCategory, FailCategory, RawConflict, RefuseDetail
  <2>3. QED
    BY <1>0, <2>1, <2>2 DEF Controlled
<1>5. CASE OpenDetail(e)
  <2>1. /\ work'[e] = work[e] /\ run' = run
        /\ \/ pc'[e] = "fetch"
           \/ /\ pc'[e] = "store"
              /\ txn'[e].listing = txn[e].listing /\ txn'[e].detail = txn[e].detail
    BY <1>5 DEF OpenDetail, Txn, dbVars
  <2>2. QED
    BY <1>0, <1>5, <2>1 DEF OpenDetail, Controlled
<1>6. CASE StoreRaw(e) \/ CommitDetail(e)
  BY <1>0, <1>6 DEF StoreRaw, CommitDetail, Controlled, dbVars
<1>7. CASE FinishRead(e)
  <2>1. run[Key(e)] \in Run /\ FinalRow(e, run[Key(e)]) \in Run
    BY <1>0, <1>7, FinalRowType DEF FinishRead, Controlled
  <2>2. closing'[e].loaded \in Run /\ closing'[e].row \in Run
    BY <1>7, <2>1 DEF FinishRead, NoClosing
  <2>3. QED
    BY <1>0, <1>7, <2>2 DEF FinishRead, Controlled, dbVars
<1>8. CASE FinishSelect(e)
  <2>1. CASE Ends(e)
    BY <2>1 DEF Ends, Controlled
  <2>2. CASE ~Ends(e)
    <3>1. /\ pc'[e] = "write" /\ work'[e] = work[e] /\ run' = run
          /\ closing'[e].loaded = closing[e].loaded /\ closing'[e].row = closing[e].row
      BY <1>8, <2>2 DEF FinishSelect, Closing, dbVars
    <3>2. QED
      BY <1>0, <1>8, <3>1 DEF FinishSelect, Controlled
  <2>3. QED
    BY <2>1, <2>2
<1>9. CASE FinishIncomplete(e) \/ FinishSucceeded(e) \/ Crash(e)
  BY <1>9 DEF FinishIncomplete, FinishSucceeded, Crash, Ends, Controlled
<1>10. QED
  BY <1>1, <1>2, <1>3, <1>4, <1>5, <1>6, <1>7, <1>8, <1>9 DEF Step, Execute

LEMMA ControlStep ==
  ASSUME TypeInv, ControlInv, [Next]_vars
  PROVE  ControlInv'
<1>1. ASSUME NEW e \in Executors, Step(e)
      PROVE  ControlInv'
  <2>1. ASSUME NEW f \in Executors, f # e
        PROVE  Controlled(f)'
    BY <1>1, <2>1, Frame, RunStays DEF ControlInv, Controlled, Key, TypeInv, TypeOK
  <2>2. Controlled(e)'
    BY <1>1, ControlStepSelf
  <2>3. QED
    BY <2>1, <2>2 DEF ControlInv, Controlled
<1>2. CASE UNCHANGED vars
  BY <1>2 DEF vars, ControlInv, Controlled, Key
<1>3. QED
  BY <1>1, <1>2 DEF Next, Step

\* The tables, the raw store and the locals of every process keep their types.
THEOREM TypeCorrect == Spec => []TypeOK
<1>1. Init => TypeInv /\ ControlInv
  BY InitType, InitControl
<1>2. TypeInv /\ ControlInv /\ [Next]_vars => TypeInv' /\ ControlInv'
  BY TypeStep, ControlStep
<1>3. TypeInv => TypeOK
  BY DEF TypeInv
<1>4. QED
  BY <1>1, <1>2, <1>3, PTL DEF Spec

-----------------------------------------------------------------------------
(* The raw archive and the append-only history *)

\* Between store_json and the commit the raw object is the process's payload;
\* no other step can replace it, since the store accepts only an equal one.
StoredPayload(e) ==
    pc[e] = "commit" => raw[Key(e)][txn[e].listing] = txn[e].detail

ArchiveInv ==
    /\ ObservationsArchived
    /\ \A e \in Executors : StoredPayload(e)

\* A raw object, once stored, is never replaced.
LEMMA RawIsWriteOnce ==
  ASSUME TypeInv, ControlInv, NEW e \in Executors, Step(e),
         NEW k \in Keys, NEW l \in Listings, raw[k][l] # None
  PROVE  raw'[k][l] = raw[k][l]
<1> USE DEF TypeInv, TypeOK
<1>1. CASE StoreRaw(e)
  BY <1>1 DEF StoreRaw, RawAccepts, ControlInv, Controlled
<1>2. CASE raw' = raw
  BY <1>2
<1>3. QED
  BY <1>1, <1>2
     DEF Step, Execute, FindRun, CreateRun, Fetch, CompleteCategory, FailCategory,
         RawConflict, RefuseDetail, NextKind, OpenDetail, CommitDetail, FinishRead,
         FinishIncomplete, FinishSelect, FinishSucceeded, Crash

\* Only CommitDetail writes observations: those of the listing in hand.
LEMMA ObservationWriter ==
  ASSUME TypeInv, ControlInv, NEW e \in Executors, Step(e)
  PROVE  \/ observation' = observation
         \/ /\ CommitDetail(e)
            /\ pc[e] = "commit" /\ Key(e) \in Keys
            /\ txn[e].listing \in Listings /\ txn[e].detail \in Detail
            /\ observation' = [observation EXCEPT ![Key(e)][txn[e].listing] = txn[e].detail]
BY DEF Step, Execute, FindRun, CreateRun, Fetch, CompleteCategory, FailCategory,
       RawConflict, RefuseDetail, NextKind, OpenDetail, StoreRaw, CommitDetail, FinishRead,
       FinishIncomplete, FinishSelect, FinishSucceeded, Crash, dbVars, ControlInv, Controlled

LEMMA ArchiveStep ==
  ASSUME TypeInv, ControlInv, ArchiveInv, [Next]_vars
  PROVE  ArchiveInv'
<1> USE DEF TypeInv, TypeOK
<1>1. ASSUME NEW e \in Executors, Step(e)
      PROVE  ArchiveInv'
  <2>1. ASSUME NEW f \in Executors, f # e
        PROVE  StoredPayload(f)'
    <3>1. /\ pc'[f] = pc[f] /\ work'[f] = work[f] /\ txn'[f] = txn[f]
      BY <1>1, <2>1, Frame
    <3>2. CASE pc[f] = "commit"
      <4>1. /\ Key(f) \in Keys /\ txn[f].listing \in Listings
            /\ raw[Key(f)][txn[f].listing] # None
        BY <2>1, <3>2, NoneAssumption DEF ArchiveInv, StoredPayload, ControlInv, Controlled
      <4>2. raw'[Key(f)][txn[f].listing] = raw[Key(f)][txn[f].listing]
        BY <1>1, <4>1, RawIsWriteOnce
      <4>3. QED
        BY <2>1, <3>1, <3>2, <4>2 DEF ArchiveInv, StoredPayload, Key
    <3>3. CASE pc[f] # "commit"
      BY <3>1, <3>3 DEF StoredPayload
    <3>4. QED
      BY <3>2, <3>3
  <2>2. StoredPayload(e)'
    <3>1. CASE StoreRaw(e)
      BY <3>1 DEF StoreRaw, StoredPayload, ControlInv, Controlled, Key
    <3>2. CASE pc'[e] # "commit"
      BY <3>2 DEF StoredPayload
    <3>3. CASE UNCHANGED <<pc, work, txn, raw>>
      BY <3>3 DEF ArchiveInv, StoredPayload, Key
    <3>4. QED
      BY <1>1, <3>1, <3>2, <3>3
         DEF Step, Execute, FindRun, CreateRun, Fetch, CompleteCategory, FailCategory,
             RawConflict, RefuseDetail, NextKind, OpenDetail, CommitDetail, FinishRead,
             FinishIncomplete, FinishSelect, FinishSucceeded, Crash, Ends
  <2>3. ASSUME NEW k \in Keys, NEW l \in Listings, observation'[k][l] # None
        PROVE  raw'[k][l] = observation'[k][l]
    <3>1. CASE observation' = observation
      BY <1>1, <2>3, <3>1, RawIsWriteOnce DEF ArchiveInv, ObservationsArchived, ObservedIn
    <3>2. CASE /\ CommitDetail(e)
               /\ pc[e] = "commit" /\ Key(e) \in Keys
               /\ txn[e].listing \in Listings /\ txn[e].detail \in Detail
               /\ observation' = [observation EXCEPT ![Key(e)][txn[e].listing] = txn[e].detail]
      <4>1. raw' = raw
        BY <3>2 DEF CommitDetail
      <4>2. CASE k = Key(e) /\ l = txn[e].listing
        BY <3>2, <4>1, <4>2 DEF ArchiveInv, StoredPayload
      <4>3. CASE ~(k = Key(e) /\ l = txn[e].listing)
        BY <2>3, <3>2, <4>1, <4>3 DEF ArchiveInv, ObservationsArchived, ObservedIn
      <4>4. QED
        BY <4>2, <4>3
    <3>3. QED
      BY <1>1, <3>1, <3>2, ObservationWriter
  <2>4. QED
    BY <2>1, <2>2, <2>3 DEF ArchiveInv, ObservationsArchived, ObservedIn
<1>2. CASE UNCHANGED vars
  BY <1>2 DEF vars, ArchiveInv, ObservationsArchived, ObservedIn, StoredPayload, Key
<1>3. QED
  BY <1>1, <1>2 DEF Next, Step

LEMMA InitArchive == Init => ArchiveInv
BY DEF Init, ArchiveInv, ObservationsArchived, ObservedIn, StoredPayload

CoreInv == TypeInv /\ ControlInv /\ ArchiveInv

LEMMA CoreInvariant == Spec => []CoreInv
<1>1. Init => CoreInv
  BY InitType, InitControl, InitArchive DEF CoreInv
<1>2. CoreInv /\ [Next]_vars => CoreInv'
  BY TypeStep, ControlStep, ArchiveStep DEF CoreInv
<1>3. QED
  BY <1>1, <1>2, PTL DEF Spec

\* Every observation is backed by a raw object with exactly its payload, for any
\* number of processes, executions of one key, crashes and payload conflicts.
THEOREM ArchiveCorrect == Spec => []ObservationsArchived
<1>1. CoreInv => ObservationsArchived
  BY DEF CoreInv, ArchiveInv
<1>2. QED
  BY <1>1, CoreInvariant, PTL

\* A listing, once seen, has a row for good.
LEMMA ListingStays ==
  ASSUME CoreInv, NEW e \in Executors, Step(e), NEW l \in Listings, listing[l] # None
  PROVE  listing'[l] # None
<1> USE DEF CoreInv, TypeInv, TypeOK
<1>1. CASE CommitDetail(e)
  <2>1. Observed(txn[e].detail) # None
    BY <1>1, ObservedType, NoneAssumption DEF CommitDetail, ControlInv, Controlled
  <2>2. QED
    BY <1>1, <2>1 DEF CommitDetail, CurrentState
<1>2. CASE FinishSucceeded(e)
  <2>1. [listing[l] EXCEPT !.active = FALSE] \in Listing
    BY DEF Listing
  <2>2. QED
    BY <1>2, <2>1, NoneAssumption DEF FinishSucceeded
<1>3. CASE listing' = listing
  BY <1>3
<1>4. QED
  BY <1>1, <1>2, <1>3
     DEF Step, Execute, FindRun, CreateRun, Fetch, CompleteCategory, FailCategory,
         RawConflict, RefuseDetail, NextKind, OpenDetail, StoreRaw, FinishRead,
         FinishIncomplete, FinishSelect, Crash, dbVars

\* Observations, events, raw objects and listing rows are never removed, and
\* observations and raw objects never change.
THEOREM HistoryCorrect == Spec => HistoryOnlyGrows
<1> DEFINE Grows ==
       /\ events \subseteq events'
       /\ \A l \in Listings : listing[l] # None => listing'[l] # None
       /\ \A k \in Keys, l \in Listings :
            /\ observation[k][l] # None => observation'[k][l] = observation[k][l]
            /\ raw[k][l] # None => raw'[k][l] = raw[k][l]
<1>1. ASSUME CoreInv, NEW e \in Executors, Step(e)
      PROVE  Grows
  <2> USE <1>1 DEF CoreInv, TypeInv, TypeOK
  <2>1. events \subseteq events'
    BY DEF Step, Execute, FindRun, CreateRun, Fetch, CompleteCategory, FailCategory,
           RawConflict, RefuseDetail, NextKind, OpenDetail, StoreRaw, CommitDetail,
           FinishRead, FinishIncomplete, FinishSelect, FinishSucceeded, Crash, dbVars
  <2>2. \A l \in Listings : listing[l] # None => listing'[l] # None
    BY ListingStays
  <2>3. ASSUME NEW k \in Keys, NEW l \in Listings, observation[k][l] # None
        PROVE  observation'[k][l] = observation[k][l]
    <3>1. CASE k = Key(e) /\ l = txn[e].listing /\ CommitDetail(e)
      <4>1. raw[k][l] = observation[k][l]
        BY <2>3 DEF ArchiveInv, ObservationsArchived, ObservedIn
      <4>2. raw[k][l] = txn[e].detail
        BY <3>1 DEF ArchiveInv, StoredPayload, CommitDetail
      <4>3. observation' = [observation EXCEPT ![k][l] = txn[e].detail]
        BY <3>1 DEF CommitDetail
      <4>4. QED
        BY <4>1, <4>2, <4>3
    <3>2. CASE ~(k = Key(e) /\ l = txn[e].listing /\ CommitDetail(e))
      BY <3>2, ObservationWriter
    <3>3. QED
      BY <3>1, <3>2
  <2>4. ASSUME NEW k \in Keys, NEW l \in Listings, raw[k][l] # None
        PROVE  raw'[k][l] = raw[k][l]
    BY <2>4, RawIsWriteOnce
  <2>5. QED
    BY <2>1, <2>2, <2>3, <2>4
<1>2. ASSUME UNCHANGED vars
      PROVE  Grows
  BY <1>2 DEF vars
<1>3. CoreInv /\ [Next]_vars => [Grows]_vars
  BY <1>1, <1>2 DEF Next, Step
<1>4. QED
  BY <1>3, CoreInvariant, PTL DEF Spec, HistoryOnlyGrows

-----------------------------------------------------------------------------
(* The deactivation gate and the results of finished runs, as long as no two *)
(* processes are started with the same logical key: what pipeline_own_keys    *)
(* checks on a small instance.  Without that assumption pipeline_partial      *)
(* shows how they fail.                                                       *)

\* The scheduler and the CLI give every execution a key of its own.
KeysAreOwn == \A e, f \in Executors : e # f => KeysOf[e] \cap KeysOf[f] = {}

-----------------------------------------------------------------------------
(* A run is written by the process that executes it *)

\* While a process executes a run, the run is not finished.
OwnRun(e) ==
    /\ pc[e] # "idle" => Key(e) \in KeysOf[e]
    /\ pc[e] = "create" => run[Key(e)] = None
    /\ pc[e] \notin {"idle", "create"} => run[Key(e)].status = "running"

\* What _finish_run has computed from its reads is still true when it writes.
Prepared(e) ==
    pc[e] \in {"flush", "select", "write"} =>
        /\ closing[e].loaded = run[Key(e)]
        /\ closing[e].row = FinalRow(e, run[Key(e)])
        /\ pc[e] = "flush" <=> closing[e].row.status # "succeeded"
        /\ pc[e] = "write" => /\ SucceededIsComplete(closing[e].row)
                              /\ \A l \in closing[e].missing : ~ObservedIn(Key(e), l)

\* The run that deactivated a listing succeeded, completely and without it.
Justified ==
    \A x \in events : x.type = "deactivated" =>
        /\ run[x.run] # None /\ run[x.run].status = "succeeded"
        /\ run[x.run].chata_complete /\ run[x.run].chalupa_complete
        /\ ~ObservedIn(x.run, x.listing)

\* A running run has deactivated nothing.
Fresh ==
    \A k \in Keys : run[k] # None /\ run[k].status = "running" => run[k].deactivated_count = 0

ResultInv ==
    /\ Justified /\ Fresh /\ ResultMatchesHistory
    /\ \A e \in Executors : OwnRun(e) /\ Prepared(e)

LEMMA InitResult == Init => ResultInv
BY DEF Init, ResultInv, Justified, Fresh, ResultMatchesHistory, Finished, OwnRun, Prepared

\* A step of a process writes rows of its own run only.
LEMMA OnlyOwnRun ==
  ASSUME TypeInv, ControlInv, NEW e \in Executors, Step(e)
  PROVE  /\ \A k \in Keys : k # Key(e) => run'[k] = run[k] /\ observation'[k] = observation[k]
         /\ events \subseteq events'
         /\ \A x \in events' : x \notin events => x.run = Key(e)
         /\ pc[e] = "idle" => UNCHANGED dbVars
<1> USE DEF TypeInv, TypeOK
<1>1. CASE \E k \in Keys : FindRun(e, k)
  BY <1>1 DEF FindRun, dbVars
<1>2. CASE CreateRun(e) \/ FinishIncomplete(e)
  BY <1>2 DEF CreateRun, FinishIncomplete, dbVars
<1>3. CASE CommitDetail(e)
  <2>1. /\ \A k \in Keys : k # Key(e) => observation'[k] = observation[k]
        /\ run' = run /\ pc[e] = "commit" /\ events \subseteq events'
    BY <1>3 DEF CommitDetail
  <2>2. \A x \in events' : x \notin events => x.run = Key(e)
    BY <1>3 DEF CommitDetail
  <2>3. QED
    BY <2>1, <2>2
<1>4. CASE FinishSucceeded(e)
  <2>1. /\ \A k \in Keys : k # Key(e) => run'[k] = run[k]
        /\ observation' = observation /\ pc[e] = "write"
    BY <1>4 DEF FinishSucceeded
  <2>2. events' = events \/ events' = events \cup DropEvents(e)
    BY <1>4 DEF FinishSucceeded
  <2>3. \A x \in DropEvents(e) : x.run = Key(e)
    BY DEF DropEvents
  <2>4. QED
    BY <2>1, <2>2, <2>3
<1>5. CASE UNCHANGED dbVars
  BY <1>5 DEF dbVars
<1>6. QED
  BY <1>1, <1>2, <1>3, <1>4, <1>5
     DEF Step, Execute, Fetch, CompleteCategory, FailCategory, RawConflict, RefuseDetail,
         NextKind, OpenDetail, StoreRaw, FinishRead, FinishSelect, Crash, dbVars

\* The rows from which a result is computed stay as they are.
LEMMA SameResult ==
  ASSUME TypeInv, NEW e \in Executors, NEW k \in Keys, Key(e) = k, work'[e] = work[e],
         observation'[k] = observation[k], run'[k] = run[k], events \subseteq events',
         \A x \in events' : x \notin events => x.run # k
  PROVE  FinalRow(e, run[Key(e)])' = FinalRow(e, run[Key(e)])
<1>1. FoundCount(e)' = FoundCount(e)
  BY DEF FoundCount, ObservedIn, Key
<1>2. \A T : EventsOf(k, T)' = EventsOf(k, T)
  BY DEF EventsOf
<1>3. QED
  BY <1>1, <1>2 DEF FinalRow, Key

-----------------------------------------------------------------------------
(* Every step keeps the invariant *)

\* The row a process loaded is the row it writes to: its UPDATE sets every column.
LEMMA FlushedOwn ==
  ASSUME NEW loaded \in Run, NEW new \in Run
  PROVE  Flushed(loaded, new, loaded) = new
BY DEF Flushed, Column, Run

\* One deactivated event per listing.
LEMMA DropEventsCount ==
  ASSUME TypeInv, NEW e \in Executors
  PROVE  Cardinality(DropEvents(e)) = Cardinality(Dropped(e))
<1> DEFINE f == [l \in Dropped(e) |-> [run |-> Key(e), listing |-> l, type |-> "deactivated"]]
<1>1. IsFiniteSet(Dropped(e))
  BY ListingCount DEF Dropped, TypeInv, TypeOK, Closing
<1>2. f \in Surjection(Dropped(e), DropEvents(e))
  BY DEF Surjection, DropEvents
<1>3. f \in Injection(Dropped(e), DropEvents(e))
  BY <1>2 DEF Injection, IsInjective, Surjection
<1>4. QED
  BY <1>1, <1>2, <1>3, FS_Surjection

\* A process is not disturbed by the others, which have keys of their own.
LEMMA OthersUndisturbed ==
  ASSUME KeysAreOwn, TypeInv, ControlInv, ResultInv,
         NEW e \in Executors, Step(e), NEW f \in Executors, f # e
  PROVE  OwnRun(f)' /\ Prepared(f)'
<1>1. /\ pc'[f] = pc[f] /\ work'[f] = work[f] /\ closing'[f] = closing[f]
      /\ Key(f)' = Key(f)
  BY Frame DEF Key
<1>2. CASE pc[f] = "idle"
  BY <1>1, <1>2 DEF OwnRun, Prepared
<1>3. CASE pc[f] # "idle"
  <2>1. OwnRun(f) /\ Prepared(f) /\ Key(f) \in Keys /\ Key(f) \in KeysOf[f]
    BY <1>3 DEF ResultInv, OwnRun, ControlInv, Controlled
  <2>2. /\ run'[Key(f)] = run[Key(f)] /\ observation'[Key(f)] = observation[Key(f)]
        /\ events \subseteq events' /\ \A x \in events' : x \notin events => x.run # Key(f)
    <3>1. CASE pc[e] = "idle"
      BY <3>1, OnlyOwnRun DEF dbVars
    <3>2. CASE pc[e] # "idle"
      <4>1. Key(e) # Key(f)
        BY <2>1, <3>2 DEF KeysAreOwn, ResultInv, OwnRun
      <4>2. QED
        BY <2>1, <4>1, OnlyOwnRun
    <3>3. QED
      BY <3>1, <3>2
  <2>3. FinalRow(f, run[Key(f)])' = FinalRow(f, run[Key(f)])
    BY <1>1, <2>1, <2>2, SameResult
  <2>4. OwnRun(f)'
    BY <1>1, <2>1, <2>2 DEF OwnRun
  <2>5. \A l : ObservedIn(Key(f), l)' <=> ObservedIn(Key(f), l)
    BY <1>1, <2>2 DEF ObservedIn
  <2>6. Prepared(f)'
    <3>1. (closing[f].loaded = run[Key(f)])' <=> closing[f].loaded = run[Key(f)]
      BY <1>1, <2>2
    <3>2. (closing[f].row = FinalRow(f, run[Key(f)]))'
             <=> closing[f].row = FinalRow(f, run[Key(f)])
      BY <1>1, <2>3
    <3>3. QED
      BY <1>1, <2>1, <2>5, <3>1, <3>2 DEF Prepared
  <2>7. QED
    BY <2>4, <2>6
<1>4. QED
  BY <1>2, <1>3

\* A process that ends has nothing to answer for.
LEMMA EndedOwn ==
  ASSUME TypeInv, NEW e \in Executors, Ends(e)
  PROVE  OwnRun(e)' /\ Prepared(e)'
BY DEF Ends, OwnRun, Prepared, TypeInv, TypeOK

\* What a process relies on still holds after its own step.
LEMMA OwnStep ==
  ASSUME TypeInv, ControlInv, ResultInv, NEW e \in Executors, Step(e)
  PROVE  OwnRun(e)' /\ Prepared(e)'
<1> USE DEF TypeInv, TypeOK
<1>0. OwnRun(e) /\ Prepared(e) /\ Controlled(e)
  BY DEF ResultInv, ControlInv
<1>1. CASE \E k \in Keys : FindRun(e, k)
  <2>1. PICK k \in Keys : FindRun(e, k)
    BY <1>1
  <2>2. CASE Finished(k)
    BY <2>1, <2>2 DEF FindRun, OwnRun, Prepared, dbVars
  <2>3. CASE ~Finished(k)
    <3>1. /\ Key(e)' = k /\ run' = run /\ k \in KeysOf[e]
          /\ pc'[e] = IF run[k] = None THEN "create" ELSE "fetch"
      BY <2>1, <2>3 DEF FindRun, Key, Work, dbVars
    <3>2. QED
      BY <2>3, <3>1 DEF Finished, OwnRun, Prepared
  <2>4. QED
    BY <2>2, <2>3
<1>2. CASE CreateRun(e)
  <2>1. CASE Ends(e)
    BY <2>1, EndedOwn
  <2>2. CASE run[Key(e)] = None /\ run' = [run EXCEPT ![Key(e)] = NewRun]
             /\ pc' = [pc EXCEPT ![e] = "fetch"] /\ UNCHANGED work
    BY <1>0, <1>2, <2>2, NewRunType, NoneIsNoRow
       DEF CreateRun, OwnRun, Prepared, Controlled, Key, NewRun
  <2>3. QED
    BY <1>2, <2>1, <2>2 DEF CreateRun
<1>3. CASE \E l \in Listings, d \in Details : Fetch(e, l, d)
  <2>1. /\ UNCHANGED run /\ pc[e] = "fetch" /\ pc'[e] = "open" /\ Key(e)' = Key(e)
    BY <1>3 DEF Fetch, Key, Work, dbVars
  <2>2. QED
    BY <1>0, <2>1 DEF OwnRun, Prepared
<1>4. CASE CompleteCategory(e) \/ FailCategory(e) \/ RawConflict(e) \/ RefuseDetail(e)
  <2>1. PICK completed, failed : NextKind(e, completed, failed)
    BY <1>4 DEF CompleteCategory, FailCategory, RawConflict, RefuseDetail
  <2>2. /\ UNCHANGED run /\ pc'[e] \in {"fetch", "finish"} /\ Key(e)' = Key(e)
    BY <2>1 DEF NextKind, Key, Work, dbVars
  <2>3. pc[e] \notin {"idle", "create"}
    BY <1>4 DEF CompleteCategory, FailCategory, RawConflict, RefuseDetail
  <2>4. QED
    BY <1>0, <2>2, <2>3 DEF OwnRun, Prepared
<1>5. CASE OpenDetail(e) \/ StoreRaw(e) \/ CommitDetail(e)
  <2>1. /\ UNCHANGED run /\ pc'[e] \in {"fetch", "store", "commit"} /\ Key(e)' = Key(e)
        /\ pc[e] \notin {"idle", "create"}
    BY <1>5 DEF OpenDetail, StoreRaw, CommitDetail, Key, dbVars
  <2>2. QED
    BY <1>0, <2>1 DEF OwnRun, Prepared
<1>6. CASE FinishRead(e)
  <2>1. /\ run' = run /\ work' = work /\ Key(e)' = Key(e)
        /\ closing'[e].loaded = run[Key(e)]
        /\ closing'[e].row = FinalRow(e, run[Key(e)])
        /\ pc'[e] = IF FinalRow(e, run[Key(e)]).status = "succeeded" THEN "select" ELSE "flush"
        /\ UNCHANGED <<observation, events>>
    BY <1>6 DEF FinishRead, Key, NoClosing, dbVars
  <2>2. FinalRow(e, run[Key(e)])' = FinalRow(e, run[Key(e)])
    BY <2>1 DEF FinalRow, FoundCount, ObservedIn, EventsOf, Key
  <2>3. QED
    BY <1>0, <1>6, <2>1, <2>2 DEF FinishRead, OwnRun, Prepared
<1>7. CASE FinishSelect(e)
  <2>1. CASE Ends(e)
    BY <2>1, EndedOwn
  <2>2. CASE /\ SucceededIsComplete(Flushed(closing[e].loaded, closing[e].row, run[Key(e)]))
             /\ pc' = [pc EXCEPT ![e] = "write"]
             /\ closing' = [closing EXCEPT ![e].missing = Missing(Key(e))]
             /\ UNCHANGED <<work, txn>>
    <3>1. /\ pc[e] = "select" /\ pc'[e] = "write" /\ work' = work /\ Key(e)' = Key(e)
          /\ UNCHANGED <<run, observation, events>>
          /\ closing'[e].loaded = closing[e].loaded
          /\ closing'[e].row = closing[e].row
          /\ closing'[e].missing = Missing(Key(e))
      BY <1>7, <2>2 DEF FinishSelect, Key, dbVars, Closing
    <3>2. FinalRow(e, run[Key(e)])' = FinalRow(e, run[Key(e)])
      BY <3>1 DEF FinalRow, FoundCount, ObservedIn, EventsOf, Key
    <3>3. Flushed(closing[e].loaded, closing[e].row, run[Key(e)]) = closing[e].row
      BY <1>0, <3>1, FlushedOwn DEF Prepared, Controlled
    <3>4. \A l \in Missing(Key(e)) : ~ObservedIn(Key(e), l)'
      BY <3>1 DEF Missing, ObservedIn
    <3>5. OwnRun(e)'
      BY <1>0, <3>1 DEF OwnRun
    <3>6. QED
      BY <1>0, <2>2, <3>1, <3>2, <3>3, <3>4, <3>5 DEF Prepared
  <2>3. QED
    BY <1>7, <2>1, <2>2 DEF FinishSelect
<1>8. CASE FinishIncomplete(e) \/ FinishSucceeded(e) \/ Crash(e)
  BY <1>8, EndedOwn DEF FinishIncomplete, FinishSucceeded, Crash
<1>9. QED
  BY <1>1, <1>2, <1>3, <1>4, <1>5, <1>6, <1>7, <1>8 DEF Step, Execute

\* The result _finish_run computes agrees with the rows it was computed from.
LEMMA FinalRowCounts ==
  ASSUME NEW e \in Executors, NEW loaded \in Run
  PROVE  LET row == FinalRow(e, loaded)  k == Key(e) IN
         /\ row.status \in Statuses \ {"running"}
         /\ row.found_count = Cardinality({l \in Listings : ObservedIn(k, l)})
         /\ row.new_count = Cardinality(EventsOf(k, {"created"}))
         /\ row.changed_count = Cardinality({x.listing : x \in EventsOf(k, ChangeTypes)})
         /\ row.deactivated_count = loaded.deactivated_count
BY DEF FinalRow, FinalStatus, FoundCount, Statuses

LEMMA FinalRowEnds ==
  ASSUME NEW e \in Executors, NEW loaded \in Run
  PROVE  FinalRow(e, loaded).status # "running"
BY FinalRowCounts

\* One run's row agrees with its events and observations.
Agrees(k) ==
    Finished(k) =>
        /\ run[k].found_count = Cardinality({l \in Listings : ObservedIn(k, l)})
        /\ run[k].new_count = Cardinality(EventsOf(k, {"created"}))
        /\ run[k].changed_count = Cardinality({x.listing : x \in EventsOf(k, ChangeTypes)})
        /\ run[k].deactivated_count = Cardinality(EventsOf(k, {"deactivated"}))

\* The runs a step does not write keep agreeing.
LEMMA OtherRunsAgree ==
  ASSUME TypeInv, ControlInv, ResultMatchesHistory, NEW e \in Executors, Step(e),
         NEW k \in Keys, k # Key(e)
  PROVE  Agrees(k)'
<1>1. run'[k] = run[k] /\ observation'[k] = observation[k]
  BY OnlyOwnRun
<1>2. \A T : EventsOf(k, T)' = EventsOf(k, T)
  BY OnlyOwnRun DEF EventsOf
<1>3. \A l : ObservedIn(k, l)' <=> ObservedIn(k, l)
  BY <1>1 DEF ObservedIn
<1>4. Finished(k)' <=> Finished(k)
  BY <1>1 DEF Finished
<1>5. QED
  BY <1>1, <1>2, <1>3, <1>4 DEF Agrees, ResultMatchesHistory

\* A step that leaves the rows and the history of its run alone.
LEMMA SameRowsAgree ==
  ASSUME Justified, Fresh, ResultMatchesHistory, UNCHANGED <<run, observation, events>>
  PROVE  Justified' /\ Fresh' /\ ResultMatchesHistory'
<1>1. Justified' /\ Fresh'
  BY DEF Justified, Fresh, ObservedIn
<1>2. ASSUME NEW k \in Keys
      PROVE  Agrees(k)'
  <2>1. \A T : EventsOf(k, T)' = EventsOf(k, T)
    BY DEF EventsOf
  <2>2. \A l : ObservedIn(k, l)' <=> ObservedIn(k, l)
    BY DEF ObservedIn
  <2>3. QED
    BY <2>1, <2>2 DEF Agrees, ResultMatchesHistory, Finished
<1>3. QED
  BY <1>1, <1>2 DEF ResultMatchesHistory, Agrees

\* The result written by _finish_run is the truth, and its deactivations are justified.
LEMMA RecordStep ==
  ASSUME TypeInv, ControlInv, ResultInv, NEW e \in Executors, Step(e)
  PROVE  Justified' /\ Fresh' /\ ResultMatchesHistory'
<1> PICK k : k = Key(e)
  OBVIOUS
<1> USE DEF TypeInv, TypeOK
<1>0. /\ OwnRun(e) /\ Prepared(e) /\ Controlled(e)
      /\ Justified /\ Fresh /\ ResultMatchesHistory
  BY DEF ResultInv, ControlInv
<1>1. CASE CreateRun(e) /\ run[k] = None
  <2>1. /\ k \in Keys /\ run' = [run EXCEPT ![k] = NewRun]
        /\ UNCHANGED <<observation, events>>
    BY <1>0, <1>1 DEF CreateRun, Controlled
  <2>2. run'[k] = NewRun /\ \A j \in Keys : j # k => run'[j] = run[j]
    BY <2>1
  <2>3. Justified'
    BY <1>0, <1>1, <2>1, <2>2 DEF Justified, ObservedIn, Event
  <2>4. Fresh'
    BY <1>0, <2>2 DEF Fresh, NewRun
  <2>5. Agrees(k)'
    BY <2>2 DEF Agrees, Finished, NewRun
  <2>6. QED
    BY <1>0, <2>3, <2>4, <2>5, OtherRunsAgree DEF ResultMatchesHistory, Agrees
<1>2. CASE CommitDetail(e)
  <2>1. /\ k \in Keys /\ run[k].status = "running" /\ UNCHANGED run
    BY <1>0, <1>2 DEF CommitDetail, OwnRun, Controlled
  <2>2. \A x \in events' : x.type = "deactivated" => x \in events
    BY <1>2 DEF CommitDetail, ObservationEvents
  <2>3. \A j \in Keys : j # k => observation'[j] = observation[j]
    BY OnlyOwnRun
  <2>4. Justified'
    BY <1>0, <2>1, <2>2, <2>3 DEF Justified, ObservedIn, Event
  <2>5. Fresh'
    BY <1>0, <2>1 DEF Fresh
  <2>6. Agrees(k)'
    BY <2>1 DEF Agrees, Finished
  <2>7. QED
    BY <1>0, <2>4, <2>5, <2>6, OtherRunsAgree DEF ResultMatchesHistory, Agrees
<1>3. CASE FinishIncomplete(e)
  <2>1. /\ k \in Keys /\ run[k] \in Run /\ run[k].status = "running"
        /\ closing[e].loaded = run[k] /\ closing[e].row \in Run
        /\ closing[e].row = FinalRow(e, run[k]) /\ closing[e].row.status # "succeeded"
    BY <1>0, <1>3 DEF FinishIncomplete, OwnRun, Prepared, Controlled
  <2>2. UNCHANGED <<observation, events>>
    BY <1>3 DEF FinishIncomplete
  <2>3. run'[k] = closing[e].row /\ \A j \in Keys : j # k => run'[j] = run[j]
    BY <1>3, <2>1, FlushedOwn DEF FinishIncomplete, SucceededIsComplete
  <2>4. run'[k].status # "running"
    <3>1. FinalRow(e, run[k]).status # "running"
      BY <2>1, FinalRowEnds
    <3>2. QED
      BY <2>1, <2>3, <3>1
  <2>5. Justified'
    BY <1>0, <2>1, <2>2, <2>3 DEF Justified, ObservedIn, Event
  <2>6. Fresh'
    BY <1>0, <2>3, <2>4 DEF Fresh
  <2>7. run[k].deactivated_count = Cardinality(EventsOf(k, {"deactivated"}))
    <3>1. EventsOf(k, {"deactivated"}) = {}
      BY <1>0, <2>1 DEF Justified, EventsOf
    <3>2. QED
      BY <1>0, <2>1, <3>1, FS_EmptySet, NoneIsNoRow DEF Fresh
  <2>8. Agrees(k)'
    <3>1. \A T : EventsOf(k, T)' = EventsOf(k, T)
      BY <2>2 DEF EventsOf
    <3>2. {l \in Listings : ObservedIn(k, l)}' = {l \in Listings : ObservedIn(k, l)}
      BY <2>2 DEF ObservedIn
    <3>3. {x.listing : x \in EventsOf(k, ChangeTypes)}'
             = {x.listing : x \in EventsOf(k, ChangeTypes)}
      BY <3>1
    <3>4. /\ closing[e].row.found_count = Cardinality({l \in Listings : ObservedIn(k, l)})
          /\ closing[e].row.new_count = Cardinality(EventsOf(k, {"created"}))
          /\ closing[e].row.changed_count
                = Cardinality({x.listing : x \in EventsOf(k, ChangeTypes)})
          /\ closing[e].row.deactivated_count = run[k].deactivated_count
      BY <2>1, FinalRowCounts
    <3>5. QED
      BY <2>3, <2>7, <3>1, <3>2, <3>3, <3>4 DEF Agrees
  <2>9. QED
    BY <1>0, <2>5, <2>6, <2>8, OtherRunsAgree DEF ResultMatchesHistory, Agrees
<1>4. CASE FinishSucceeded(e) /\ DropEvents(e) \cap events = {}
  <2> DEFINE row == [closing[e].row EXCEPT !.deactivated_count = Cardinality(Dropped(e))]
  <2>1. /\ k \in Keys /\ run[k] \in Run /\ run[k].status = "running"
        /\ closing[e].loaded = run[k] /\ closing[e].row \in Run
        /\ closing[e].row = FinalRow(e, run[k]) /\ closing[e].row.status = "succeeded"
        /\ SucceededIsComplete(closing[e].row)
        /\ \A l \in closing[e].missing : ~ObservedIn(k, l)
    BY <1>0, <1>4 DEF FinishSucceeded, OwnRun, Prepared, Controlled
  <2>2. UNCHANGED observation /\ events' \in {events, events \cup DropEvents(e)}
    BY <1>4 DEF FinishSucceeded
  <2>3. row \in Run
    <3>1. Cardinality(Dropped(e)) \in Nat
      BY ListingCount DEF Dropped, Closing
    <3>2. QED
      BY <2>1, <3>1 DEF Run
  <2>4. /\ events' = events \cup DropEvents(e)
        /\ run'[k] = row /\ \A j \in Keys : j # k => run'[j] = run[j]
    <3>1. /\ events' = events \cup DropEvents(e)
          /\ run' = [run EXCEPT ![k] = Flushed(closing[e].loaded, row, run[k])]
      BY <1>4, <2>1 DEF FinishSucceeded
    <3>2. QED
      BY <2>1, <2>3, <3>1, FlushedOwn
  <2>5. Justified'
    <3>1. /\ run'[k].status = "succeeded" /\ run'[k] # None
          /\ run'[k].chata_complete /\ run'[k].chalupa_complete
      BY <2>1, <2>3, <2>4, NoneIsNoRow DEF SucceededIsComplete, Run
    <3>2. \A x \in DropEvents(e) : x.run = k /\ ~ObservedIn(x.run, x.listing)
      BY <2>1 DEF DropEvents, Dropped
    <3>3. \A x \in events : x.run \in Keys
      BY DEF Event
    <3>4. ASSUME NEW x \in events, x.type = "deactivated"
          PROVE  x.run # k /\ run'[x.run] = run[x.run] /\ ~ObservedIn(x.run, x.listing)
      BY <1>0, <2>1, <2>4, <3>3, <3>4 DEF Justified
    <3>5. \A j, l : ObservedIn(j, l)' <=> ObservedIn(j, l)
      BY <2>2 DEF ObservedIn
    <3>6. ASSUME NEW x \in events', x.type = "deactivated"
          PROVE  /\ run'[x.run] # None /\ run'[x.run].status = "succeeded"
                 /\ run'[x.run].chata_complete /\ run'[x.run].chalupa_complete
                 /\ ~ObservedIn(x.run, x.listing)
      <4>1. CASE x \in events
        BY <1>0, <3>4, <3>6, <4>1 DEF Justified
      <4>2. CASE x \in DropEvents(e)
        BY <3>1, <3>2, <4>2
      <4>3. QED
        BY <2>4, <4>1, <4>2
    <3>7. QED
      BY <3>5, <3>6 DEF Justified
  <2>6. Fresh'
    BY <1>0, <2>1, <2>3, <2>4 DEF Fresh, Run
  <2>7. Agrees(k)'
    <3>1. EventsOf(k, {"deactivated"})' = DropEvents(e)
      BY <1>0, <2>1, <2>4 DEF Justified, EventsOf, DropEvents
    <3>2. /\ EventsOf(k, {"created"})' = EventsOf(k, {"created"})
          /\ EventsOf(k, ChangeTypes)' = EventsOf(k, ChangeTypes)
      BY <2>4 DEF EventsOf, DropEvents, ChangeTypes
    <3>3. /\ {l \in Listings : ObservedIn(k, l)}' = {l \in Listings : ObservedIn(k, l)}
          /\ {x.listing : x \in EventsOf(k, ChangeTypes)}'
                = {x.listing : x \in EventsOf(k, ChangeTypes)}
      BY <2>2, <3>2 DEF ObservedIn
    <3>4. /\ row.deactivated_count = Cardinality(DropEvents(e))
          /\ row.found_count = closing[e].row.found_count
          /\ row.new_count = closing[e].row.new_count
          /\ row.changed_count = closing[e].row.changed_count
      BY <2>1, DropEventsCount DEF Run
    <3>5. /\ row.found_count = Cardinality({l \in Listings : ObservedIn(k, l)})
          /\ row.new_count = Cardinality(EventsOf(k, {"created"}))
          /\ row.changed_count = Cardinality({x.listing : x \in EventsOf(k, ChangeTypes)})
      BY <2>1, <3>4, FinalRowCounts
    <3>6. QED
      BY <2>4, <3>1, <3>2, <3>3, <3>4, <3>5 DEF Agrees
  <2>8. QED
    BY <1>0, <2>5, <2>6, <2>7, OtherRunsAgree DEF ResultMatchesHistory, Agrees
<1>5. CASE UNCHANGED <<run, observation, events>>
  BY <1>0, <1>5, SameRowsAgree
<1>6. QED
  BY <1>1, <1>2, <1>3, <1>4, <1>5
     DEF Step, Execute, FindRun, CreateRun, Fetch, CompleteCategory, FailCategory, RawConflict,
         RefuseDetail, NextKind, OpenDetail, StoreRaw, FinishRead, FinishSelect,
         FinishSucceeded, Crash, dbVars

LEMMA ResultStep ==
  ASSUME KeysAreOwn, TypeInv, ControlInv, ResultInv, [Next]_vars
  PROVE  ResultInv'
<1>1. ASSUME NEW e \in Executors, Step(e)
      PROVE  ResultInv'
  BY <1>1, OthersUndisturbed, OwnStep, RecordStep DEF ResultInv
<1>2. CASE UNCHANGED vars
  <2>1. \A e \in Executors : OwnRun(e)' /\ Prepared(e)'
    BY <1>2 DEF vars, ResultInv, OwnRun, Prepared, ObservedIn, FinalRow, FoundCount,
                EventsOf, Key
  <2>2. QED
    BY <1>2, <2>1, SameRowsAgree DEF vars, ResultInv
<1>3. QED
  BY <1>1, <1>2 DEF Next, Step

-----------------------------------------------------------------------------
(* Theorems about runs with keys of their own *)

THEOREM ResultInvariant ==
  ASSUME KeysAreOwn
  PROVE  Spec => []ResultInv
<1>1. Init => ResultInv
  BY InitResult
<1>2. CoreInv /\ ResultInv /\ [Next]_vars => ResultInv'
  BY ResultStep DEF CoreInv
<1>3. QED
  BY <1>1, <1>2, CoreInvariant, PTL DEF Spec

\* The gate of _finish_run: a bulk deactivation belongs to a succeeded run with
\* both categories complete.
THEOREM GateCorrect ==
  ASSUME KeysAreOwn
  PROVE  Spec => []DeactivationNeedsSuccess
<1>1. ResultInv => DeactivationNeedsSuccess
  BY DEF ResultInv, Justified, DeactivationNeedsSuccess
<1>2. QED
  BY <1>1, ResultInvariant, PTL

\* deactivate_missing_listings never hits a listing its own run observed.
THEOREM NeverDropsCorrect ==
  ASSUME KeysAreOwn
  PROVE  Spec => []NeverDropsWhatItSaw
<1>1. ResultInv => NeverDropsWhatItSaw
  BY DEF ResultInv, Justified, NeverDropsWhatItSaw
<1>2. QED
  BY <1>1, ResultInvariant, PTL

\* The counts stored in a finished run are those of its observations and events.
THEOREM ResultCorrect ==
  ASSUME KeysAreOwn
  PROVE  Spec => []ResultMatchesHistory
<1>1. ResultInv => ResultMatchesHistory
  BY DEF ResultInv
<1>2. QED
  BY <1>1, ResultInvariant, PTL

\* Executing the key of a finished run again changes nothing in its row.
THEOREM FinalCorrect ==
  ASSUME KeysAreOwn
  PROVE  Spec => FinishedRunsAreFinal
<1> DEFINE Final == \A k \in Keys : Finished(k) => run'[k] = run[k]
<1>1. ASSUME CoreInv, ResultInv, NEW e \in Executors, Step(e), NEW k \in Keys, Finished(k)
      PROVE  run'[k] = run[k]
  <2>1. CASE k # Key(e) \/ pc[e] = "idle"
    BY <1>1, <2>1, OnlyOwnRun DEF CoreInv, dbVars
  <2>2. CASE k = Key(e) /\ pc[e] # "idle"
    BY <1>1, <2>2 DEF ResultInv, OwnRun, Finished, Step, Execute, CreateRun, FindRun, Fetch
  <2>3. QED
    BY <2>1, <2>2
<1>2. CoreInv /\ ResultInv /\ [Next]_vars => [Final]_vars
  BY <1>1 DEF Next, Step
<1>3. QED
  BY <1>2, CoreInvariant, ResultInvariant, PTL DEF Spec, FinishedRunsAreFinal

-----------------------------------------------------------------------------
(* The listings row is one recorded observation *)

\* What a run observed stays observed, with the same detail: the only writer
\* writes what the raw store already holds for the run and the listing.
LEMMA ObservationStays ==
  ASSUME CoreInv, NEW e \in Executors, Step(e),
         NEW k \in Keys, NEW l \in Listings, observation[k][l] # None
  PROVE  observation'[k][l] = observation[k][l]
<1> USE DEF CoreInv, TypeInv, TypeOK
<1>1. CASE k = Key(e) /\ l = txn[e].listing /\ CommitDetail(e)
  <2>1. raw[k][l] = observation[k][l]
    BY DEF ArchiveInv, ObservationsArchived, ObservedIn
  <2>2. raw[k][l] = txn[e].detail
    BY <1>1 DEF ArchiveInv, StoredPayload, CommitDetail
  <2>3. observation' = [observation EXCEPT ![k][l] = txn[e].detail]
    BY <1>1 DEF CommitDetail
  <2>4. QED
    BY <2>1, <2>2, <2>3
<1>2. CASE ~(k = Key(e) /\ l = txn[e].listing /\ CommitDetail(e))
  BY <1>2, ObservationWriter
<1>3. QED
  BY <1>1, <1>2

\* Row r of listing l is what run k observed, whether active or not.
Reflects(r, k, l) ==
    /\ ObservedIn(k, l)
    /\ observation[k][l].price = r.price
    /\ observation[k][l].hash = r.hash
    /\ observation[k][l].kind = r.kind

\* A step writes a listings row with its observation, or only its activity.
LEMMA ListingWriter ==
  ASSUME CoreInv, NEW e \in Executors, Step(e), NEW l \in Listings, listing'[l] # None
  PROVE  \/ CommitDetail(e) /\ l = txn[e].listing
         \/ /\ listing[l] # None
            /\ listing'[l].price = listing[l].price
            /\ listing'[l].hash = listing[l].hash
            /\ listing'[l].kind = listing[l].kind
<1> USE DEF CoreInv, TypeInv, TypeOK
<1>1. CASE CommitDetail(e)
  BY <1>1 DEF CommitDetail
<1>2. CASE FinishSucceeded(e)
  <2>1. CASE listing' = listing
    BY <2>1
  <2>2. CASE listing' = [i \in Listings |->
                            IF i \in Dropped(e) THEN [listing[i] EXCEPT !.active = FALSE]
                                                ELSE listing[i]]
    <3>1. CASE l \in Dropped(e)
      <4>1. listing[l] \in Listing
        BY <3>1 DEF Dropped
      <4>2. listing'[l] = [listing[l] EXCEPT !.active = FALSE]
        BY <2>2, <3>1
      <4>3. QED
        BY <4>1, <4>2, <3>1 DEF Listing, Dropped
    <3>2. CASE l \notin Dropped(e)
      BY <2>2, <3>2
    <3>3. QED
      BY <3>1, <3>2
  <2>3. QED
    BY <1>2, <2>1, <2>2 DEF FinishSucceeded
<1>3. CASE listing' = listing
  BY <1>3
<1>4. QED
  BY <1>1, <1>2, <1>3
     DEF Step, Execute, FindRun, CreateRun, Fetch, CompleteCategory, FailCategory,
         RawConflict, RefuseDetail, NextKind, OpenDetail, StoreRaw, FinishRead,
         FinishIncomplete, FinishSelect, Crash, dbVars

LEMMA ReflectionStep ==
  ASSUME CoreInv, ListingReflectsObservation, [Next]_vars
  PROVE  ListingReflectsObservation'
<1> USE DEF CoreInv, TypeInv, TypeOK
<1>1. ASSUME NEW e \in Executors, Step(e), NEW l \in Listings, listing'[l] # None
      PROVE  \E k \in Keys : Reflects(listing[l], k, l)'
  <2>1. CASE CommitDetail(e) /\ l = txn[e].listing
    <3>1. Key(e) \in Keys /\ txn[e].detail \in Detail
      BY <2>1 DEF CommitDetail, ControlInv, Controlled
    <3>2. observation'[Key(e)][l] = txn[e].detail
      BY <2>1, <3>1 DEF CommitDetail
    <3>3. listing'[l] = Observed(txn[e].detail)
      BY <2>1 DEF CommitDetail, CurrentState
    <3>4. observation'[Key(e)][l] # None
      BY <3>1, <3>2, NoneAssumption
    <3>5. QED
      BY <3>1, <3>2, <3>3, <3>4 DEF Reflects, ObservedIn, Observed
  <2>2. CASE /\ listing[l] # None
             /\ listing'[l].price = listing[l].price
             /\ listing'[l].hash = listing[l].hash
             /\ listing'[l].kind = listing[l].kind
    <3>1. PICK k \in Keys : Reflects(listing[l], k, l)
      BY <2>2 DEF ListingReflectsObservation, Reflects
    <3>2. observation'[k][l] = observation[k][l]
      BY <1>1, <3>1, ObservationStays DEF Reflects, ObservedIn
    <3>3. QED
      BY <2>2, <3>1, <3>2 DEF Reflects, ObservedIn
  <2>3. QED
    BY <1>1, <2>1, <2>2, ListingWriter
<1>2. ASSUME NEW e \in Executors, Step(e)
      PROVE  ListingReflectsObservation'
  BY <1>1, <1>2 DEF ListingReflectsObservation, Reflects
<1>3. CASE UNCHANGED vars
  BY <1>3 DEF vars, ListingReflectsObservation, ObservedIn
<1>4. QED
  BY <1>2, <1>3 DEF Next, Step

\* The price, content and kind of a listings row always are those of one
\* recorded observation, however many processes observe, fail and deactivate.
THEOREM ReflectionCorrect == Spec => []ListingReflectsObservation
<1>1. Init => ListingReflectsObservation
  BY DEF Init, ListingReflectsObservation
<1>2. CoreInv /\ ListingReflectsObservation /\ [Next]_vars => ListingReflectsObservation'
  BY ReflectionStep
<1>3. QED
  BY <1>1, <1>2, CoreInvariant, PTL DEF Spec

-----------------------------------------------------------------------------
(* A change is told against another run's observation *)

\* The row a process compares its detail with was left by another run: its own
\* run had not observed the listing when the row was locked.
ForeignRow(e) ==
    pc[e] \in {"store", "commit"} /\ txn[e].before # None =>
        \E k \in Keys \ {Key(e)} : ObservedIn(k, txn[e].listing)

ChangeInv ==
    /\ ListingReflectsObservation
    /\ ChangesComeFromOtherRuns
    /\ \A e \in Executors : ForeignRow(e)

LEMMA ObservedStays ==
  ASSUME CoreInv, NEW e \in Executors, Step(e),
         NEW k \in Keys, NEW l \in Listings, ObservedIn(k, l)
  PROVE  ObservedIn(k, l)'
BY ObservationStays DEF ObservedIn

LEMMA ForeignRowOthers ==
  ASSUME CoreInv, NEW e \in Executors, Step(e), NEW f \in Executors, f # e, ForeignRow(f)
  PROVE  ForeignRow(f)'
<1> USE DEF CoreInv, TypeInv, TypeOK
<1>1. pc'[f] = pc[f] /\ work'[f] = work[f] /\ txn'[f] = txn[f]
  BY Frame
<1>2. CASE pc[f] \in {"store", "commit"} /\ txn[f].before # None
  <2>1. PICK k \in Keys \ {Key(f)} : ObservedIn(k, txn[f].listing)
    BY <1>2 DEF ForeignRow
  <2>2. txn[f].listing \in Listings
    BY <1>2 DEF ControlInv, Controlled
  <2>3. ObservedIn(k, txn[f].listing)'
    BY <1>1, <2>1, <2>2, ObservedStays DEF ObservedIn
  <2>4. QED
    BY <1>1, <2>1, <2>3 DEF ForeignRow, Key
<1>3. CASE ~(pc[f] \in {"store", "commit"} /\ txn[f].before # None)
  BY <1>1, <1>3 DEF ForeignRow
<1>4. QED
  BY <1>2, <1>3

LEMMA ForeignRowSelf ==
  ASSUME CoreInv, ListingReflectsObservation, NEW e \in Executors, Step(e), ForeignRow(e)
  PROVE  ForeignRow(e)'
<1> USE DEF CoreInv, TypeInv, TypeOK
<1>1. CASE OpenDetail(e)
  <2> DEFINE l == txn[e].listing
  <2>1. l \in Listings /\ work' = work /\ observation' = observation
    BY <1>1 DEF OpenDetail, ControlInv, Controlled, dbVars
  <2>2. CASE pc'[e] = "store"
    <3>1. ~ObservedIn(Key(e), l) \/ listing[l] = None
      BY <1>1, <2>2 DEF OpenDetail
    <3>2. txn'[e].before = listing[l] /\ txn'[e].listing = l
      BY <1>1, <2>2 DEF OpenDetail, Txn
    <3>3. ASSUME listing[l] # None
          PROVE  \E k \in Keys \ {Key(e)} : ObservedIn(k, l)
      BY <2>1, <3>1, <3>3 DEF ListingReflectsObservation
    <3>4. QED
      BY <2>1, <3>2, <3>3 DEF ForeignRow, Key, ObservedIn
  <2>3. CASE pc'[e] # "store"
    BY <1>1, <2>3 DEF OpenDetail, ForeignRow
  <2>4. QED
    BY <2>2, <2>3
<1>2. CASE StoreRaw(e)
  BY <1>2 DEF StoreRaw, ForeignRow, ObservedIn, Key, dbVars
<1>3. CASE pc'[e] \notin {"store", "commit"}
  BY <1>3 DEF ForeignRow
<1>4. CASE UNCHANGED <<pc, work, txn, observation>>
  BY <1>4 DEF ForeignRow, ObservedIn, Key
<1>5. QED
  BY <1>1, <1>2, <1>3, <1>4
     DEF Step, Execute, FindRun, CreateRun, Fetch, CompleteCategory, FailCategory,
         RawConflict, RefuseDetail, NextKind, CommitDetail, FinishRead,
         FinishIncomplete, FinishSelect, FinishSucceeded, Crash, Ends, dbVars

\* An event that a step adds and that tells a change is told by CommitDetail
\* about a row that existed before.
LEMMA ChangeWriter ==
  ASSUME NEW e \in Executors, Step(e),
         NEW x \in events', x \notin events, x.type \in ChangeTypes
  PROVE  /\ pc[e] = "commit" /\ txn[e].before # None
         /\ x.run = Key(e) /\ x.listing = txn[e].listing
<1>1. CASE CommitDetail(e)
  <2>1. PICK t \in ObservationEvents(txn[e].before, Observed(txn[e].detail)) :
            x = [run |-> Key(e), listing |-> txn[e].listing, type |-> t]
    BY <1>1 DEF CommitDetail
  <2>2. txn[e].before # None
    BY <2>1 DEF ObservationEvents, ChangeTypes
  <2>3. QED
    BY <1>1, <2>1, <2>2 DEF CommitDetail
<1>2. CASE FinishSucceeded(e)
  <2>1. x \in DropEvents(e)
    BY <1>2 DEF FinishSucceeded
  <2>2. x.type = "deactivated"
    BY <2>1 DEF DropEvents
  <2>3. QED
    BY <2>2 DEF ChangeTypes
<1>3. CASE events' = events
  BY <1>3
<1>4. QED
  BY <1>1, <1>2, <1>3
     DEF Step, Execute, FindRun, CreateRun, Fetch, CompleteCategory, FailCategory,
         RawConflict, RefuseDetail, NextKind, OpenDetail, StoreRaw, FinishRead,
         FinishIncomplete, FinishSelect, Crash, dbVars

LEMMA ChangeStep ==
  ASSUME CoreInv, ChangeInv, [Next]_vars
  PROVE  ChangeInv'
<1> USE DEF ChangeInv
<1>1. ASSUME NEW e \in Executors, Step(e)
      PROVE  ChangeInv'
  <2>1. ListingReflectsObservation'
    BY <1>1, ReflectionStep DEF Next, Step
  <2>2. \A f \in Executors : ForeignRow(f)'
    BY <1>1, ForeignRowSelf, ForeignRowOthers
  <2>3. ASSUME NEW x \in events', x.type \in ChangeTypes
        PROVE  \E k \in Keys \ {x.run} : ObservedIn(k, x.listing)'
    <3>1. CASE x \in events
      <4>1. PICK k \in Keys \ {x.run} : ObservedIn(k, x.listing)
        BY <2>3, <3>1 DEF ChangesComeFromOtherRuns
      <4>2. x.listing \in Listings
        BY <3>1 DEF CoreInv, TypeInv, TypeOK, Event
      <4>3. QED
        BY <1>1, <4>1, <4>2, ObservedStays
    <3>2. CASE x \notin events
      <4>1. /\ pc[e] = "commit" /\ txn[e].before # None
            /\ x.run = Key(e) /\ x.listing = txn[e].listing
        BY <1>1, <2>3, <3>2, ChangeWriter
      <4>2. PICK k \in Keys \ {Key(e)} : ObservedIn(k, txn[e].listing)
        BY <4>1 DEF ForeignRow
      <4>3. txn[e].listing \in Listings
        BY <4>1 DEF CoreInv, ControlInv, Controlled
      <4>4. observation'[k][txn[e].listing] # None
        BY <1>1, <4>2, <4>3, ObservationStays DEF ObservedIn
      <4>5. QED
        BY <4>1, <4>4 DEF ObservedIn
    <3>3. QED
      BY <3>1, <3>2
  <2>4. ChangesComeFromOtherRuns'
    BY <2>3 DEF ChangesComeFromOtherRuns, ObservedIn
  <2>5. QED
    BY <2>1, <2>2, <2>4
<1>2. CASE UNCHANGED vars
  BY <1>2 DEF vars, ListingReflectsObservation, ChangesComeFromOtherRuns, ForeignRow,
              ObservedIn, Key
<1>3. QED
  BY <1>1, <1>2 DEF Next, Step

LEMMA InitChange == Init => ChangeInv
BY DEF Init, ChangeInv, ListingReflectsObservation, ChangesComeFromOtherRuns, ForeignRow

\* No execution reports a change against an observation of its own run, however
\* often the run is resumed or executed by several processes at once.
THEOREM ChangesCorrect == Spec => []ChangesComeFromOtherRuns
<1>1. ChangeInv => ChangesComeFromOtherRuns
  BY DEF ChangeInv
<1>2. CoreInv /\ ChangeInv /\ [Next]_vars => ChangeInv'
  BY ChangeStep
<1>3. QED
  BY <1>1, <1>2, InitChange, CoreInvariant, PTL DEF Spec

-----------------------------------------------------------------------------
(* The event history accounts for every listing, and the pipeline implements *)
(* ListingLifecycle, whether or not processes share keys.  The argument is    *)
(* the row lock: what a process read under it is still there when it commits. *)

-----------------------------------------------------------------------------
(* The row lock *)

\* The process holds the lock of the listing it persists.
Holds(e) == pc[e] \in {"store", "commit"} /\ txn[e].before # None

\* A locked row is as it was read, and its listing is new to the run.
RowKept(e) ==
    Holds(e) => /\ listing[txn[e].listing] = txn[e].before
                /\ ~ObservedIn(Key(e), txn[e].listing)

Exclusive ==
    \A e, f \in Executors :
        e # f /\ Holds(e) /\ Holds(f) => txn[e].listing # txn[f].listing

\* Whatever an observation caused was told together with it.
Told == \A x \in events : x.type # "deactivated" => ObservedIn(x.run, x.listing)

LedgerInv ==
    /\ Exclusive
    /\ \A e \in Executors : RowKept(e)
    /\ Told
    /\ LifecycleLedger

\* A process commits to the row it locked, or to one nobody has inserted yet.
LEMMA CommitSeesRow ==
  ASSUME CoreInv, LedgerInv, NEW e \in Executors, CommitDetail(e)
  PROVE  /\ txn[e].listing \in Listings /\ Key(e) \in Keys
         /\ txn[e].detail \in Detail
         /\ listing[txn[e].listing] = txn[e].before
BY DEF CommitDetail, CanWrite, CoreInv, ControlInv, Controlled, LedgerInv, RowKept, Holds

\* No other process writes a locked row, or observes its listing.
LEMMA LockedRowStays ==
  ASSUME CoreInv, LedgerInv, NEW e \in Executors, Step(e),
         NEW f \in Executors, f # e, Holds(f)
  PROVE  /\ listing'[txn[f].listing] = listing[txn[f].listing]
         /\ \A k \in Keys : observation'[k][txn[f].listing] = observation[k][txn[f].listing]
<1> PICK l \in Listings : l = txn[f].listing
  BY DEF Holds, CoreInv, ControlInv, Controlled
<1> USE DEF CoreInv, TypeInv, TypeOK
<1>1. listing[l] # None
  BY DEF LedgerInv, RowKept, Holds
<1>2. CASE CommitDetail(e)
  <2>1. txn[e].listing # l
    <3>1. CASE txn[e].before = None
      BY <1>1, <1>2, <3>1, CommitSeesRow
    <3>2. CASE txn[e].before # None
      BY <1>2, <3>2 DEF CommitDetail, LedgerInv, Exclusive, Holds
    <3>3. QED
      BY <3>1, <3>2
  <2>2. QED
    BY <1>2, <2>1 DEF CommitDetail
<1>3. CASE FinishSucceeded(e)
  <2>1. RowLocked(l)
    BY DEF RowLocked, Holds
  <2>2. l \notin Dropped(e)
    BY <1>3, <2>1 DEF FinishSucceeded, Dropped
  <2>3. QED
    BY <1>3, <2>2 DEF FinishSucceeded
<1>4. CASE UNCHANGED <<listing, observation>>
  BY <1>4
<1>5. QED
  BY <1>2, <1>3, <1>4
     DEF Step, Execute, FindRun, CreateRun, Fetch, CompleteCategory, FailCategory,
         RawConflict, RefuseDetail, NextKind, OpenDetail, StoreRaw, FinishRead,
         FinishIncomplete, FinishSelect, Crash, dbVars

LEMMA RowKeptOthers ==
  ASSUME CoreInv, LedgerInv, NEW e \in Executors, Step(e), NEW f \in Executors, f # e
  PROVE  RowKept(f)' /\ (Holds(f)' <=> Holds(f)) /\ txn'[f] = txn[f]
<1>1. pc'[f] = pc[f] /\ work'[f] = work[f] /\ txn'[f] = txn[f]
  BY Frame DEF CoreInv
<1>2. CASE Holds(f)
  <2>1. Key(f) \in Keys /\ RowKept(f)
    BY <1>2 DEF Holds, LedgerInv, CoreInv, ControlInv, Controlled
  <2>2. /\ listing'[txn[f].listing] = listing[txn[f].listing]
        /\ observation'[Key(f)][txn[f].listing] = observation[Key(f)][txn[f].listing]
    BY <1>2, <2>1, LockedRowStays
  <2>3. QED
    BY <1>1, <1>2, <2>1, <2>2 DEF RowKept, Holds, ObservedIn, Key
<1>3. CASE ~Holds(f)
  BY <1>1, <1>3 DEF RowKept, Holds
<1>4. QED
  BY <1>2, <1>3

\* A process takes a lock in OpenDetail, when nobody holds it.
LEMMA RowKeptSelf ==
  ASSUME CoreInv, LedgerInv, NEW e \in Executors, Step(e)
  PROVE  /\ RowKept(e)'
         /\ Holds(e)' => \/ Holds(e) /\ txn'[e].listing = txn[e].listing
                         \/ /\ txn'[e].listing = txn[e].listing
                            /\ ~RowLocked(txn[e].listing)
<1> USE DEF CoreInv, TypeInv, TypeOK
<1>1. CASE OpenDetail(e)
  <2> PICK l : l = txn[e].listing
    OBVIOUS
  <2>1. work' = work /\ observation' = observation /\ listing' = listing /\ ~RowLocked(l)
    BY <1>1 DEF OpenDetail, dbVars
  <2>2. CASE pc'[e] = "store"
    <3>1. ~ObservedIn(Key(e), l) \/ listing[l] = None
      BY <1>1, <2>2 DEF OpenDetail
    <3>2. txn'[e].before = listing[l] /\ txn'[e].listing = l
      BY <1>1, <2>2 DEF OpenDetail, Txn
    <3>3. QED
      BY <2>1, <3>1, <3>2 DEF RowKept, Holds, Key, ObservedIn
  <2>3. CASE pc'[e] # "store"
    BY <1>1, <2>3 DEF OpenDetail, RowKept, Holds
  <2>4. QED
    BY <2>2, <2>3
<1>2. CASE StoreRaw(e)
  <2>1. UNCHANGED <<listing, observation, work, txn>> /\ pc[e] = "store"
    BY <1>2 DEF StoreRaw, dbVars
  <2>2. QED
    BY <2>1 DEF LedgerInv, RowKept, Holds, ObservedIn, Key
<1>3. CASE pc'[e] \notin {"store", "commit"}
  BY <1>3 DEF RowKept, Holds
<1>4. CASE UNCHANGED <<pc, work, txn, listing, observation>>
  BY <1>4 DEF LedgerInv, RowKept, Holds, ObservedIn, Key
<1>5. QED
  BY <1>1, <1>2, <1>3, <1>4
     DEF Step, Execute, FindRun, CreateRun, Fetch, CompleteCategory, FailCategory,
         RawConflict, RefuseDetail, NextKind, CommitDetail, FinishRead,
         FinishIncomplete, FinishSelect, FinishSucceeded, Crash, Ends, dbVars

LEMMA LockStep ==
  ASSUME CoreInv, LedgerInv, NEW e \in Executors, Step(e)
  PROVE  Exclusive' /\ \A f \in Executors : RowKept(f)'
<1>1. \A f \in Executors : RowKept(f)'
  BY RowKeptSelf, RowKeptOthers
<1>2. ASSUME NEW f \in Executors, f # e, Holds(e)', Holds(f)'
      PROVE  txn'[e].listing # txn'[f].listing
  <2>1. Holds(f) /\ txn'[f] = txn[f] /\ txn'[e].listing = txn[e].listing
    BY <1>2, RowKeptSelf, RowKeptOthers
  <2>2. Holds(e) \/ ~RowLocked(txn[e].listing)
    BY <1>2, RowKeptSelf
  <2>3. QED
    BY <1>2, <2>1, <2>2 DEF LedgerInv, Exclusive, RowLocked, Holds
<1>3. ASSUME NEW f \in Executors, NEW g \in Executors, f # e, g # e, f # g,
             Holds(f)', Holds(g)'
      PROVE  txn'[f].listing # txn'[g].listing
  BY <1>3, RowKeptOthers DEF LedgerInv, Exclusive
<1>4. QED
  BY <1>1, <1>2, <1>3 DEF Exclusive

-----------------------------------------------------------------------------
(* What a step adds to the history of a listing *)

Telling(e) == ObservationEvents(txn[e].before, Observed(txn[e].detail))

\* An observation adds its events to the history of its listing.
LEMMA CommitHappenings ==
  ASSUME NEW e \in Executors, CommitDetail(e), NEW l, NEW t
  PROVE  Happenings(l, t)' =
            IF l = txn[e].listing /\ t \in Telling(e)
            THEN Happenings(l, t) \cup {[run |-> Key(e), listing |-> l, type |-> t]}
            ELSE Happenings(l, t)
BY DEF CommitDetail, Happenings, Telling

\* A bulk deactivation adds one event to the history of each listing it drops.
LEMMA DropHappenings ==
  ASSUME NEW e \in Executors, events' = events \cup DropEvents(e), NEW l, NEW t
  PROVE  Happenings(l, t)' =
            IF l \in Dropped(e) /\ t = "deactivated"
            THEN Happenings(l, t) \cup {[run |-> Key(e), listing |-> l, type |-> t]}
            ELSE Happenings(l, t)
BY DEF DropEvents, Happenings

Count(l, t) == Cardinality(Happenings(l, t))

LEMMA CountType ==
  ASSUME CoreInv, NEW l, NEW t
  PROVE  IsFiniteSet(Happenings(l, t)) /\ Count(l, t) \in Nat
<1>1. IsFiniteSet(Happenings(l, t))
  BY FS_Subset DEF CoreInv, TypeInv, Happenings
<1>2. QED
  BY <1>1, FS_CardinalityType DEF Count

LEMMA CountOne ==
  ASSUME CoreInv, NEW l, NEW t, NEW x, x \notin Happenings(l, t),
         Happenings(l, t)' = Happenings(l, t) \cup {x}
  PROVE  Count(l, t)' = Count(l, t) + 1
BY CountType, FS_AddElement DEF Count

\* The history of a listing that has no row is empty, and one creation is the
\* most there is.
LEMMA LedgerReads ==
  ASSUME CoreInv, LedgerInv, NEW l \in Listings
  PROVE  /\ listing[l] = None =>
              Count(l, "created") = 0 /\ Count(l, "deactivated") = 0 /\ Count(l, "reactivated") = 0
         /\ listing[l] # None =>
              /\ Count(l, "created") = 1
              /\ Count(l, "deactivated")
                    = Count(l, "reactivated") + (IF listing[l].active THEN 0 ELSE 1)
<1>1. Count(l, "created") \in Nat /\ Count(l, "deactivated") \in Nat
        /\ Count(l, "reactivated") \in Nat
  BY CountType
<1>2. IF listing[l] = None
      THEN Count(l, "created") + Count(l, "deactivated") + Count(l, "reactivated") = 0
      ELSE /\ Count(l, "created") = 1
           /\ Count(l, "deactivated")
                 = Count(l, "reactivated") + (IF listing[l].active THEN 0 ELSE 1)
  BY DEF LedgerInv, LifecycleLedger, Count
<1>3. \A a, b, c \in Nat : a + b + c = 0 => a = 0 /\ b = 0 /\ c = 0
  OBVIOUS
<1>4. CASE listing[l] = None
  <2>1. Count(l, "created") + Count(l, "deactivated") + Count(l, "reactivated") = 0
    BY <1>2, <1>4, Zenon
  <2>2. QED
    BY <1>1, <1>3, <1>4, <2>1, Zenon
<1>5. CASE listing[l] # None
  BY <1>2, <1>5, Zenon
<1>6. QED
  BY <1>4, <1>5

\* A listing a step does not touch.
Untold(l) ==
    /\ listing'[l] = listing[l]
    /\ \A t \in {"created", "deactivated", "reactivated"} : Count(l, t)' = Count(l, t)

\* What an observation does to its listing.
Returns(l) ==
    /\ listing'[l] # None /\ listing'[l].active
    /\ Count(l, "created")' = Count(l, "created") + (IF listing[l] = None THEN 1 ELSE 0)
    /\ Count(l, "deactivated")' = Count(l, "deactivated")
    /\ Count(l, "reactivated")' = Count(l, "reactivated")
                  + (IF listing[l] # None /\ ~listing[l].active THEN 1 ELSE 0)

\* What a bulk deactivation does to a listing it drops.
Leaves(l) ==
    /\ listing[l] # None /\ listing[l].active
    /\ listing'[l] # None /\ ~listing'[l].active
    /\ Count(l, "created")' = Count(l, "created")
    /\ Count(l, "deactivated")' = Count(l, "deactivated") + 1
    /\ Count(l, "reactivated")' = Count(l, "reactivated")

LEMMA CommitReturns ==
  ASSUME CoreInv, LedgerInv, NEW e \in Executors, CommitDetail(e)
  PROVE  /\ Returns(txn[e].listing)
         /\ \A l \in Listings : l # txn[e].listing => Untold(l)
<1> PICK l : l = txn[e].listing
  OBVIOUS
<1> USE DEF CoreInv, TypeInv, TypeOK
<1>1. /\ l \in Listings /\ Key(e) \in Keys /\ txn[e].detail \in Detail
      /\ listing[l] = txn[e].before
  BY CommitSeesRow
<1>2. listing' = [listing EXCEPT ![l] = Observed(txn[e].detail)]
  BY DEF CommitDetail, CurrentState
<1>3. listing'[l] # None /\ listing'[l].active
  <2>1. Observed(txn[e].detail) # None /\ Observed(txn[e].detail).active
    BY <1>1, ObservedType, NoneAssumption DEF Observed
  <2>2. QED
    BY <1>1, <1>2, <2>1
<1>4. \A t : Happenings(l, t)' = IF t \in Telling(e)
                                 THEN Happenings(l, t)
                                        \cup {[run |-> Key(e), listing |-> l, type |-> t]}
                                 ELSE Happenings(l, t)
  BY CommitHappenings
<1>5. /\ "created" \in Telling(e) <=> listing[l] = None
      /\ "deactivated" \notin Telling(e)
      /\ "reactivated" \in Telling(e) <=> listing[l] # None /\ ~listing[l].active
  BY <1>1 DEF Telling, ObservationEvents, EventTypes
<1>6. ASSUME listing[l] = None
      PROVE  Returns(l)
  <2>1. [run |-> Key(e), listing |-> l, type |-> "created"] \notin Happenings(l, "created")
    <3>1. Happenings(l, "created") = {}
      BY <1>1, <1>6, LedgerReads, CountType, FS_EmptySet DEF Count
    <3>2. QED
      BY <3>1
  <2>2. Count(l, "created")' = Count(l, "created") + 1
    BY <1>4, <1>5, <1>6, <2>1, CountOne
  <2>3. /\ Count(l, "deactivated")' = Count(l, "deactivated")
        /\ Count(l, "reactivated")' = Count(l, "reactivated")
    BY <1>4, <1>5, <1>6 DEF Count
  <2>4. QED
    BY <1>3, <1>6, <2>2, <2>3, CountType DEF Returns
<1>7. ASSUME listing[l] # None
      PROVE  Returns(l)
  <2>1. Count(l, "created")' = Count(l, "created")
        /\ Count(l, "deactivated")' = Count(l, "deactivated")
    BY <1>4, <1>5, <1>7 DEF Count
  <2>2. CASE listing[l].active
    <3>1. Count(l, "reactivated")' = Count(l, "reactivated")
      BY <1>4, <1>5, <2>2 DEF Count
    <3>2. QED
      BY <1>3, <1>7, <2>1, <2>2, <3>1, CountType DEF Returns
  <2>3. CASE ~listing[l].active
    <3>1. ~ObservedIn(Key(e), l)
      BY <1>1, <1>7 DEF LedgerInv, RowKept, Holds, CommitDetail
    <3>2. [run |-> Key(e), listing |-> l, type |-> "reactivated"]
             \notin Happenings(l, "reactivated")
      BY <3>1 DEF LedgerInv, Told, Happenings
    <3>3. Count(l, "reactivated")' = Count(l, "reactivated") + 1
      BY <1>4, <1>5, <1>7, <2>3, <3>2, CountOne
    <3>4. QED
      BY <1>3, <1>7, <2>1, <2>3, <3>3, CountType DEF Returns
  <2>4. QED
    BY <2>2, <2>3
<1>8. ASSUME NEW j \in Listings, j # l
      PROVE  Untold(j)
  <2>1. listing'[j] = listing[j]
    BY <1>2, <1>8
  <2>2. \A t : Happenings(j, t)' = Happenings(j, t)
    BY <1>8, CommitHappenings
  <2>3. QED
    BY <2>1, <2>2 DEF Untold, Count
<1>9. QED
  BY <1>6, <1>7, <1>8

LEMMA DropLeaves ==
  ASSUME CoreInv, LedgerInv, NEW e \in Executors, FinishSucceeded(e)
  PROVE  \E gone \in SUBSET Listings :
            \A l \in Listings : IF l \in gone THEN Leaves(l) ELSE Untold(l)
<1> USE DEF CoreInv, TypeInv, TypeOK
<1>1. CASE UNCHANGED <<listing, events>>
  <2>1. \A l \in Listings : Untold(l)
    BY <1>1 DEF Untold, Count, Happenings
  <2>2. {} \in SUBSET Listings /\ \A l \in Listings : l \notin {}
    OBVIOUS
  <2>3. QED
    BY <2>1, <2>2
<1>2. CASE /\ DropEvents(e) \cap events = {}
           /\ listing' = [l \in Listings |->
                            IF l \in Dropped(e) THEN [listing[l] EXCEPT !.active = FALSE]
                                                ELSE listing[l]]
           /\ events' = events \cup DropEvents(e)
  <2>1. Dropped(e) \in SUBSET Listings
    BY DEF Dropped, Closing
  <2>2. ASSUME NEW l \in Listings, l \in Dropped(e)
        PROVE  Leaves(l)
    <3>1. listing[l] # None /\ listing[l].active /\ listing[l] \in Listing
      BY <2>2 DEF Dropped
    <3>2. listing'[l] # None /\ ~listing'[l].active
      <4>1. listing'[l] = [listing[l] EXCEPT !.active = FALSE]
        BY <1>2, <2>2
      <4>2. [listing[l] EXCEPT !.active = FALSE] \in Listing
        BY <3>1 DEF Listing
      <4>3. QED
        BY <3>1, <4>1, <4>2, NoneAssumption DEF Listing
    <3>3. [run |-> Key(e), listing |-> l, type |-> "deactivated"]
             \notin Happenings(l, "deactivated")
      BY <1>2, <2>2 DEF DropEvents, Happenings
    <3>4. Happenings(l, "deactivated")' = Happenings(l, "deactivated")
             \cup {[run |-> Key(e), listing |-> l, type |-> "deactivated"]}
      BY <1>2, <2>2, DropHappenings
    <3>5. Count(l, "deactivated")' = Count(l, "deactivated") + 1
      BY <3>3, <3>4, CountOne
    <3>6. /\ Happenings(l, "created")' = Happenings(l, "created")
          /\ Happenings(l, "reactivated")' = Happenings(l, "reactivated")
      BY <1>2, DropHappenings
    <3>7. QED
      BY <3>1, <3>2, <3>5, <3>6 DEF Leaves, Count
  <2>3. ASSUME NEW l \in Listings, l \notin Dropped(e)
        PROVE  Untold(l)
    <3>1. \A t : Happenings(l, t)' = Happenings(l, t)
      BY <1>2, <2>3, DropHappenings
    <3>2. listing'[l] = listing[l]
      BY <1>2, <2>3
    <3>3. QED
      BY <3>1, <3>2 DEF Untold, Count
  <2>4. QED
    BY <2>1, <2>2, <2>3
<1>3. QED
  BY <1>1, <1>2 DEF FinishSucceeded

\* The other steps write neither listings nor events.
LEMMA QuietStep ==
  ASSUME NEW e \in Executors, Step(e), ~CommitDetail(e), ~FinishSucceeded(e)
  PROVE  listing' = listing /\ events' = events
BY DEF Step, Execute, FindRun, CreateRun, Fetch, CompleteCategory, FailCategory,
       RawConflict, RefuseDetail, NextKind, OpenDetail, StoreRaw, FinishRead,
       FinishIncomplete, FinishSelect, Crash, dbVars

-----------------------------------------------------------------------------
(* The ledger *)

\* Every event but a deactivation is committed with the observation it tells of.
LEMMA ToldStep ==
  ASSUME CoreInv, LedgerInv, NEW e \in Executors, Step(e)
  PROVE  Told'
<1> USE DEF CoreInv, TypeInv, TypeOK
<1>1. ASSUME NEW x \in events, x.type # "deactivated"
      PROVE  ObservedIn(x.run, x.listing)'
  <2>1. x.run \in Keys /\ x.listing \in Listings
    BY <1>1 DEF Event
  <2>2. QED
    BY <1>1, <2>1, ObservedStays DEF LedgerInv, Told
<1>2. CASE CommitDetail(e)
  <2>1. /\ Key(e) \in Keys /\ txn[e].listing \in Listings /\ txn[e].detail # None
    BY <1>2, CommitSeesRow, NoneAssumption
  <2>2. observation'[Key(e)][txn[e].listing] # None
    BY <1>2, <2>1 DEF CommitDetail
  <2>3. \A x \in events' : x \in events \/ (x.run = Key(e) /\ x.listing = txn[e].listing)
    BY <1>2 DEF CommitDetail
  <2>4. \A k, l : k = Key(e) /\ l = txn[e].listing => ObservedIn(k, l)'
    BY <2>2 DEF ObservedIn
  <2>5. QED
    BY <1>1, <2>3, <2>4 DEF Told
<1>3. CASE FinishSucceeded(e)
  <2>1. \A x \in events' : x \in events \/ x.type = "deactivated"
    BY <1>3 DEF FinishSucceeded, DropEvents
  <2>2. QED
    BY <1>1, <2>1 DEF Told
<1>4. CASE events' = events
  BY <1>1, <1>4 DEF Told
<1>5. QED
  BY <1>2, <1>3, <1>4, QuietStep

\* A listing's history accounts for its row.
Balanced(l) ==
    IF listing[l] = None
    THEN Count(l, "created") = 0 /\ Count(l, "deactivated") = 0 /\ Count(l, "reactivated") = 0
    ELSE /\ Count(l, "created") = 1
         /\ Count(l, "deactivated")
                = Count(l, "reactivated") + (IF listing[l].active THEN 0 ELSE 1)

\* Each of the three ways a step can treat a listing keeps its balance.
LEMMA BalanceKept ==
  ASSUME CoreInv, LedgerInv, NEW l \in Listings, Untold(l) \/ Returns(l) \/ Leaves(l)
  PROVE  Balanced(l)'
<1>1. Balanced(l)
  BY LedgerReads DEF Balanced
<1>2. CASE Untold(l)
  BY <1>1, <1>2 DEF Balanced, Untold
<1>3. CASE Returns(l)
  <2>1. CASE listing[l] = None
    BY <1>1, <1>3, <2>1 DEF Balanced, Returns
  <2>2. CASE listing[l] # None /\ listing[l].active
    BY <1>1, <1>3, <2>2, CountType DEF Balanced, Returns
  <2>3. CASE listing[l] # None /\ ~listing[l].active
    <3>1. /\ Count(l, "created") = 1 /\ Count(l, "reactivated") \in Nat
          /\ Count(l, "deactivated") = Count(l, "reactivated") + 1
      BY <1>1, <2>3, CountType DEF Balanced
    <3>2. /\ listing'[l] # None /\ listing'[l].active
          /\ Count(l, "created")' = Count(l, "created") + 0
          /\ Count(l, "deactivated")' = Count(l, "deactivated")
          /\ Count(l, "reactivated")' = Count(l, "reactivated") + 1
      BY <1>3, <2>3, Zenon DEF Returns
    <3>3. /\ Count(l, "created")' = 1
          /\ Count(l, "deactivated")' = Count(l, "reactivated")' + 0
      BY <3>1, <3>2
    <3>4. QED
      BY <3>2, <3>3, Zenon DEF Balanced
  <2>4. QED
    BY <2>1, <2>2, <2>3
<1>4. CASE Leaves(l)
  BY <1>1, <1>4, CountType DEF Balanced, Leaves
<1>5. QED
  BY <1>2, <1>3, <1>4

LEMMA LedgerStep ==
  ASSUME CoreInv, LedgerInv, [Next]_vars
  PROVE  LedgerInv'
<1>1. ASSUME NEW e \in Executors, Step(e)
      PROVE  LedgerInv'
  <2>1. \A l \in Listings : Untold(l) \/ Returns(l) \/ Leaves(l)
    <3>1. CASE CommitDetail(e)
      BY <3>1, CommitReturns
    <3>2. CASE FinishSucceeded(e)
      BY <3>2, DropLeaves
    <3>3. CASE listing' = listing /\ events' = events
      BY <3>3 DEF Untold, Count, Happenings
    <3>4. QED
      BY <1>1, <3>1, <3>2, <3>3, QuietStep
  <2>2. \A l \in Listings : Balanced(l)'
    BY <2>1, BalanceKept
  <2>3. LifecycleLedger'
    BY <2>2 DEF Balanced, LifecycleLedger, Count
  <2>4. QED
    BY <1>1, <2>3, LockStep, ToldStep DEF LedgerInv
<1>2. CASE UNCHANGED vars
  BY <1>2 DEF vars, LedgerInv, Exclusive, RowKept, Holds, Told, LifecycleLedger, Happenings,
              ObservedIn, Key
<1>3. QED
  BY <1>1, <1>2 DEF Next, Step

LEMMA InitLedger == Init => LedgerInv
<1> SUFFICES ASSUME Init PROVE LedgerInv
  OBVIOUS
<1>1. \A l, t : Happenings(l, t) = {}
  BY DEF Init, Happenings
<1>2. LifecycleLedger
  BY <1>1, FS_EmptySet DEF Init, LifecycleLedger
<1>3. QED
  BY <1>2 DEF Init, LedgerInv, Exclusive, RowKept, Holds, Told

THEOREM LedgerInvariant == Spec => []LedgerInv
<1>1. CoreInv /\ LedgerInv /\ [Next]_vars => LedgerInv'
  BY LedgerStep
<1>2. QED
  BY <1>1, InitLedger, CoreInvariant, PTL DEF Spec

\* One creation per listing, and one deactivation more than reactivations
\* exactly when its row is inactive.
THEOREM LedgerCorrect == Spec => []LifecycleLedger
<1>1. LedgerInv => LifecycleLedger
  BY DEF LedgerInv
<1>2. QED
  BY <1>1, LedgerInvariant, PTL

-----------------------------------------------------------------------------
(* Refinement *)

\* Before the first run nothing has been seen.
LEMMA InitLifecycle == Init => Lifecycle!Init
<1> SUFFICES ASSUME Init PROVE Lifecycle!Init
  OBVIOUS
<1>1. \A l, t : Happenings(l, t) = {}
  BY DEF Init, Happenings
<1>2. QED
  BY <1>1, FS_EmptySet DEF Init, Lifecycle!Init, Phase

\* A step that leaves rows and events alone is invisible.
LEMMA LifecycleStutter ==
  ASSUME listing' = listing, events' = events
  PROVE  UNCHANGED Lifecycle!lifecycle
BY DEF Lifecycle!lifecycle, Phase, Happenings

\* A transaction that commits is one observation, one withdrawal of active
\* listings, or invisible.
LEMMA LifecycleStep ==
  ASSUME CoreInv, LedgerInv, [Next]_vars
  PROVE  [Lifecycle!Next]_(Lifecycle!lifecycle)
<1>1. ASSUME CoreInv, LedgerInv, NEW e \in Executors, CommitDetail(e)
      PROVE  Lifecycle!Observe(txn[e].listing) /\ txn[e].listing \in Listings
  <2> PICK l : l = txn[e].listing
    OBVIOUS
  <2>1. l \in Listings /\ Returns(l) /\ \A j \in Listings : j # l => Untold(j)
    BY <1>1, CommitSeesRow, CommitReturns
  <2>2. Phase(l)' = "active" /\ \A j \in Listings : j # l => Phase(j)' = Phase(j)
    BY <2>1 DEF Phase, Returns, Untold
  <2>3. \A j \in Listings : Count(j, "deactivated")' = Count(j, "deactivated")
    BY <2>1 DEF Returns, Untold
  <2>4. /\ Count(l, "reactivated")' = IF Phase(l) = "inactive" THEN Count(l, "reactivated") + 1
                                                              ELSE Count(l, "reactivated")
        /\ \A j \in Listings : j # l => Count(j, "reactivated")' = Count(j, "reactivated")
    BY <1>1, <2>1, CountType DEF Phase, Returns, Untold
  <2>5. QED
    BY <2>1, <2>2, <2>3, <2>4 DEF Lifecycle!Observe, Count
<1>2. ASSUME CoreInv, LedgerInv, NEW e \in Executors, FinishSucceeded(e)
      PROVE  \E gone \in SUBSET Listings : Lifecycle!Withdraw(gone)
  <2>1. PICK gone \in SUBSET Listings :
            \A l \in Listings : IF l \in gone THEN Leaves(l) ELSE Untold(l)
    BY <1>2, DropLeaves
  <2>2. \A l \in gone : Phase(l) = "active" /\ Phase(l)' = "inactive"
    BY <2>1 DEF Phase, Leaves
  <2>3. \A l \in Listings : l \notin gone => Phase(l)' = Phase(l)
    BY <2>1 DEF Phase, Untold
  <2>4. \A l \in Listings : /\ Count(l, "reactivated")' = Count(l, "reactivated")
                            /\ Count(l, "deactivated")'
                                  = IF l \in gone THEN Count(l, "deactivated") + 1
                                                  ELSE Count(l, "deactivated")
    BY <2>1 DEF Leaves, Untold
  <2>5. Lifecycle!Withdraw(gone)
    BY <2>1, <2>2, <2>3, <2>4 DEF Lifecycle!Withdraw, Count
  <2>6. QED
    BY <2>5
<1>3. ASSUME NEW e \in Executors, Step(e)
      PROVE  [Lifecycle!Next]_(Lifecycle!lifecycle)
  BY <1>1, <1>2, <1>3, LifecycleStutter, QuietStep DEF Lifecycle!Next
<1>4. ASSUME UNCHANGED vars
      PROVE  [Lifecycle!Next]_(Lifecycle!lifecycle)
  BY <1>4, LifecycleStutter DEF vars
<1>5. QED
  BY <1>3, <1>4 DEF Next, Step

\* The pipeline implements the abstract life of a listing: a transaction that
\* commits is one observation, one withdrawal of active listings, or invisible.
THEOREM LifecycleRefined == Spec => ImplementsLifecycle
<1>1. CoreInv /\ LedgerInv /\ [Next]_vars => [Lifecycle!Next]_(Lifecycle!lifecycle)
  BY LifecycleStep
<1>2. QED
  BY <1>1, InitLifecycle, CoreInvariant, LedgerInvariant, PTL
     DEF Spec, ImplementsLifecycle, Lifecycle!Spec
=============================================================================
