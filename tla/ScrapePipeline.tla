--------------------------- MODULE ScrapePipeline ---------------------------
(***************************************************************************)
(* scraper/pipeline.py: processes that execute scrape runs against one     *)
(* PostgreSQL database (READ COMMITTED) and one write-once raw store.      *)
(*                                                                         *)
(* An action is what happens between two points where another process can  *)
(* interfere: a read that takes a row lock, a write to the raw store, a    *)
(* statement whose result is used later, a commit.  Row locks are not      *)
(* variables: a process holds one exactly while its control is inside the  *)
(* transaction that took it.  A process may die at any point; what its     *)
(* open transaction wrote is undone, what it put in the raw store stays.   *)
(***************************************************************************)
EXTENDS ListingEvents, FiniteSets

CONSTANTS
    Keys,            \* logical keys; one run row per key (unique logical_key)
    Listings,        \* Sreality ids
    Executors,       \* processes that may run the job
    KeysOf,          \* KeysOf[e]: the logical keys process e is started with
    MaxExecutions    \* bound: executions started in a behaviour

ASSUME FiniteAssumption == IsFiniteSet(Keys) /\ IsFiniteSet(Listings)
ASSUME KeysOfAssumption == KeysOf \in [Executors -> SUBSET Keys]
ASSUME MaxExecutionsAssumption == MaxExecutions \in Nat
ASSUME NoneIsNoName == None \notin Keys \cup Listings

VARIABLES
    run,          \* scrape_runs: the row of each logical key, or None
    listing,      \* listings: the row of each Sreality id, or None
    observation,  \* listing_observations: per run and listing, or None
    events,       \* listing_events, unique per (run, listing, type)
    raw,          \* raw store objects, by run and listing, or None
    pc,           \* control of each process
    work,         \* its ScrapePipeline.execute locals
    txn,          \* its _persist_detail locals
    closing,      \* its _finish_run locals
    executions    \* how many executions have been started

dbVars    == <<run, listing, observation, events>>
localVars == <<pc, work, txn, closing>>
vars      == <<run, listing, observation, events, raw, pc, work, txn, closing, executions>>

-----------------------------------------------------------------------------
(* Tables and process locals *)

Statuses == {"running", "succeeded", "partial", "failed"}

Run == [status : Statuses, chata_complete : BOOLEAN, chalupa_complete : BOOLEAN,
        found_count : Nat, new_count : Nat, changed_count : Nat,
        error_count : Nat, deactivated_count : Nat,
        error_code : {None, "category_failed", "manual_trigger_failed"}]

ASSUME NoneIsNoRow == None \notin Run

\* A run row whose deactivated_count has no default.
NewRunMutant ==
    [status |-> "running", chata_complete |-> FALSE, chalupa_complete |-> FALSE,
     found_count |-> 0, new_count |-> 0, changed_count |-> 0,
     error_count |-> 0, deactivated_count |-> None, error_code |-> None]

NewRun == [status |-> "running", chata_complete |-> FALSE, chalupa_complete |-> FALSE,
           found_count |-> 0, new_count |-> 0, changed_count |-> 0,
           error_count |-> 0, deactivated_count |-> 0, error_code |-> None]

Event == [run : Keys, listing : Listings, type : EventTypes]

Finished(k) == run[k] # None /\ run[k].status # "running"

Controls == {"idle", "create", "fetch", "open", "store", "commit",
             "finish", "flush", "select", "write"}

Work    == [key : Keys \cup {None}, kind : Kinds, completed : SUBSET Kinds,
            failed : SUBSET Kinds, seen : SUBSET Listings]
Txn     == [listing : Listings \cup {None}, detail : Detail \cup {None},
            before : Listing \cup {None}]
Closing == [loaded : Run \cup {None}, row : Run \cup {None}, missing : SUBSET Listings]

NoWork    == [key |-> None, kind |-> "chata", completed |-> {}, failed |-> {}, seen |-> {}]
NoTxn     == [listing |-> None, detail |-> None, before |-> None]
NoClosing == [loaded |-> None, row |-> None, missing |-> {}]

Key(e) == work[e].key

\* The observation or raw object of run k for listing l is about this detail.
ObservedIn(k, l) == observation[k][l] # None

EventsOf(k, types) == {x \in events : x.run = k /\ x.type \in types}

-----------------------------------------------------------------------------
(* Row locks *)

\* No SELECT ... FOR UPDATE: an observation never waits for another transaction.
RowLockedMutant(l) == FALSE

\* _persist_detail holds the listing row from its SELECT ... FOR UPDATE to its
\* commit, but only when there was a row to lock.
RowLocked(l) ==
    \E e \in Executors :
        pc[e] \in {"store", "commit"} /\ txn[e].listing = l /\ txn[e].before # None

\* The query for missing listings autoflushes the UPDATE of the run row, which
\* stays locked until that transaction commits.
RunRowLocked(k) == \E e \in Executors : pc[e] = "write" /\ Key(e) = k

-----------------------------------------------------------------------------
(* execute *)

Init ==
    /\ run = [k \in Keys |-> None]
    /\ listing = [l \in Listings |-> None]
    /\ observation = [k \in Keys |-> [l \in Listings |-> None]]
    /\ events = {}
    /\ raw = [k \in Keys |-> [l \in Listings |-> None]]
    /\ pc = [e \in Executors |-> "idle"]
    /\ work = [e \in Executors |-> NoWork]
    /\ txn = [e \in Executors |-> NoTxn]
    /\ closing = [e \in Executors |-> NoClosing]
    /\ executions = 0

\* The process ends: normally, by an exception nobody catches, or killed.
Ends(e) ==
    /\ pc' = [pc EXCEPT ![e] = "idle"]
    /\ work' = [work EXCEPT ![e] = NoWork]
    /\ txn' = [txn EXCEPT ![e] = NoTxn]
    /\ closing' = [closing EXCEPT ![e] = NoClosing]

\* execute() that scrapes again whatever the stored run says.
FindRunMutant(e, k) ==
    /\ pc[e] = "idle"
    /\ k \in KeysOf[e]
    /\ executions < MaxExecutions
    /\ executions' = executions + 1
    /\ pc' = [pc EXCEPT ![e] = IF run[k] = None THEN "create" ELSE "fetch"]
    /\ work' = [work EXCEPT ![e].key = k]
    /\ UNCHANGED <<dbVars, raw, txn, closing>>

\* execute() looks the logical key up: the stored result of a finished run is
\* returned, a RUNNING run is resumed, an unknown key needs a new row.
FindRun(e, k) ==
    /\ pc[e] = "idle"
    /\ k \in KeysOf[e]
    /\ executions < MaxExecutions
    /\ executions' = executions + 1
    /\ \/ Finished(k) /\ UNCHANGED <<pc, work>>
       \/ /\ ~Finished(k)
          /\ pc' = [pc EXCEPT ![e] = IF run[k] = None THEN "create" ELSE "fetch"]
          /\ work' = [work EXCEPT ![e].key = k]
    /\ UNCHANGED <<dbVars, raw, txn, closing>>

\* _create_run: the unique logical_key makes the loser of a race fail, and
\* nothing catches its IntegrityError.
CreateRun(e) ==
    /\ pc[e] = "create"
    /\ \/ /\ run[Key(e)] = None
          /\ run' = [run EXCEPT ![Key(e)] = NewRun]
          /\ pc' = [pc EXCEPT ![e] = "fetch"]
          /\ UNCHANGED <<work, txn, closing>>
       \/ /\ run[Key(e)] # None
          /\ Ends(e)
          /\ UNCHANGED run
    /\ UNCHANGED <<listing, observation, events, raw, executions>>

\* A traversal that yields a listing again whenever a page repeats it.
FetchMutant(e, l, d) ==
    /\ pc[e] = "fetch"
    /\ d.kind = work[e].kind
    /\ pc' = [pc EXCEPT ![e] = "open"]
    /\ work' = [work EXCEPT ![e].seen = @ \cup {l}]
    /\ txn' = [txn EXCEPT ![e] = [NoTxn EXCEPT !.listing = l, !.detail = d]]
    /\ UNCHANGED <<dbVars, raw, closing, executions>>

\* The source yields a listing of the category at most once per traversal; the
\* parser refuses a detail of the other kind.
Fetch(e, l, d) ==
    /\ pc[e] = "fetch"
    /\ l \notin work[e].seen
    /\ d.kind = work[e].kind
    /\ pc' = [pc EXCEPT ![e] = "open"]
    /\ work' = [work EXCEPT ![e].seen = @ \cup {l}]
    /\ txn' = [txn EXCEPT ![e] = [NoTxn EXCEPT !.listing = l, !.detail = d]]
    /\ UNCHANGED <<dbVars, raw, closing, executions>>

\* The loop over ListingKind goes on to the next category, or to _finish_run.
NextKind(e, completed, failed) ==
    /\ pc' = [pc EXCEPT ![e] = IF work[e].kind = "chata" THEN "fetch" ELSE "finish"]
    /\ work' = [work EXCEPT ![e].kind = "chalupa", ![e].seen = {},
                            ![e].completed = completed, ![e].failed = failed]
    /\ txn' = [txn EXCEPT ![e] = NoTxn]
    /\ UNCHANGED <<dbVars, raw, closing, executions>>

CompleteCategory(e) ==
    /\ pc[e] = "fetch"
    /\ NextKind(e, work[e].completed \cup {work[e].kind}, work[e].failed)

\* Any exception of the source, the raw store, the database or the road
\* enricher: the open transaction rolls back and the category is abandoned.
FailCategory(e) ==
    /\ pc[e] \in {"fetch", "open", "store", "commit"}
    /\ NextKind(e, work[e].completed, work[e].failed \cup {work[e].kind})

-----------------------------------------------------------------------------
(* _persist_detail: one transaction per listing *)

\* A resumed execution persists again what its run observed before.
OpenDetailMutant(e) ==
    LET l == txn[e].listing IN
    /\ pc[e] = "open"
    /\ ~RowLocked(l)
    /\ pc' = [pc EXCEPT ![e] = "store"]
    /\ txn' = [txn EXCEPT ![e].before = listing[l]]
    /\ UNCHANGED <<dbVars, raw, work, closing, executions>>

\* SELECT ... FOR UPDATE of the listing row, then of this run's observation of
\* it: an observation that exists already makes the call return.
OpenDetail(e) ==
    LET l == txn[e].listing IN
    /\ pc[e] = "open"
    /\ ~RowLocked(l)
    /\ \/ /\ listing[l] # None /\ ObservedIn(Key(e), l)
          /\ pc' = [pc EXCEPT ![e] = "fetch"]
          /\ txn' = [txn EXCEPT ![e] = NoTxn]
       \/ /\ listing[l] = None \/ ~ObservedIn(Key(e), l)
          /\ pc' = [pc EXCEPT ![e] = "store"]
          /\ txn' = [txn EXCEPT ![e].before = listing[l]]
    /\ UNCHANGED <<dbVars, raw, work, closing, executions>>

\* A store that replaces an object of the same key.
RawAcceptsMutant(k, l, d) == TRUE

\* The raw object key is made of the run and the listing: an object with the
\* same payload is accepted as stored, another payload is a conflict.
RawAccepts(k, l, d) == raw[k][l] \in {None, d}

\* store_json before any row is written; nothing undoes it on rollback.
StoreRaw(e) ==
    LET k == Key(e)  l == txn[e].listing  d == txn[e].detail IN
    /\ pc[e] = "store"
    /\ RawAccepts(k, l, d)
    /\ raw' = [raw EXCEPT ![k][l] = d]
    /\ pc' = [pc EXCEPT ![e] = "commit"]
    /\ UNCHANGED <<dbVars, work, txn, closing, executions>>

RawConflict(e) ==
    /\ pc[e] = "store"
    /\ ~RawAccepts(Key(e), txn[e].listing, txn[e].detail)
    /\ NextKind(e, work[e].completed, work[e].failed \cup {work[e].kind})

\* An insert that would overwrite the row another transaction created meanwhile.
CanWriteMutant(e) ==
    txn[e].before # None => txn[e].before.kind = txn[e].detail.kind

\* The category of a row is whatever was observed last.
CanWriteAnyKindMutant(e) == txn[e].before = None => listing[txn[e].listing] = None

\* A row unseen by the first SELECT is inserted, which the unique sreality_id
\* refuses when another transaction got there first; a row that was seen must
\* be of the detail's kind.
CanWrite(e) ==
    IF txn[e].before = None
    THEN listing[txn[e].listing] = None
    ELSE txn[e].before.kind = txn[e].detail.kind

\* The row keeps its price when the site stops showing one.
CurrentStateMutant(before, d) ==
    IF before = None \/ d.price # None
    THEN Observed(d)
    ELSE [Observed(d) EXCEPT !.price = before.price]

\* _apply_current_state together with the is_active / inactive_at reset.
CurrentState(before, d) == Observed(d)

\* The listing row, its events and its observation become visible together.
CommitDetail(e) ==
    LET k == Key(e)  l == txn[e].listing  d == txn[e].detail
        before == txn[e].before
        types == ObservationEvents(before, Observed(d))
    IN
    /\ pc[e] = "commit"
    /\ CanWrite(e)
    /\ listing' = [listing EXCEPT ![l] = CurrentState(before, d)]
    /\ observation' = [observation EXCEPT ![k][l] = d]
    /\ events' = events \cup {[run |-> k, listing |-> l, type |-> t] : t \in types}
    /\ pc' = [pc EXCEPT ![e] = "fetch"]
    /\ txn' = [txn EXCEPT ![e] = NoTxn]
    /\ UNCHANGED <<run, raw, work, closing, executions>>

\* IntegrityError or PipelineError: the transaction rolls back and the whole
\* category fails.
RefuseDetail(e) ==
    /\ pc[e] = "commit"
    /\ ~CanWrite(e)
    /\ NextKind(e, work[e].completed, work[e].failed \cup {work[e].kind})

-----------------------------------------------------------------------------
(* _finish_run: one transaction per execution *)

FinalStatus(failed, completed, found) ==
    IF failed = {} THEN "succeeded"
    ELSE IF found > 0 \/ completed # {} THEN "partial"
    ELSE "failed"

\* found_count of the listings this process saw, not of the run's observations.
FoundCountMutant(e) == Cardinality(work[e].seen)

FoundCount(e) == Cardinality({l \in Listings : ObservedIn(Key(e), l)})

\* The values _finish_run assigns to the run row it loaded.
FinalRow(e, loaded) ==
    LET k == Key(e)
        changed == {x.listing : x \in EventsOf(k, ChangeTypes)}
    IN [status            |-> FinalStatus(work[e].failed, work[e].completed, FoundCount(e)),
        chata_complete    |-> "chata" \in work[e].completed,
        chalupa_complete  |-> "chalupa" \in work[e].completed,
        found_count       |-> FoundCount(e),
        new_count         |-> Cardinality(EventsOf(k, {"created"})),
        changed_count     |-> Cardinality(changed),
        error_count       |-> Cardinality(work[e].failed),
        deactivated_count |-> loaded.deactivated_count,
        error_code        |-> IF work[e].failed = {} THEN loaded.error_code
                                                     ELSE "category_failed"]

\* Loads the run row, its observations and its events and computes the result.
FinishRead(e) ==
    LET row == FinalRow(e, run[Key(e)]) IN
    /\ pc[e] = "finish"
    /\ closing' = [closing EXCEPT ![e] = [NoClosing EXCEPT !.loaded = run[Key(e)], !.row = row]]
    /\ pc' = [pc EXCEPT ![e] = IF row.status = "succeeded" THEN "select" ELSE "flush"]
    /\ UNCHANGED <<dbVars, raw, work, txn, executions>>

\* The unit of work writes only columns whose value differs from the loaded one.
Column(loaded, new, current) == IF new = loaded THEN current ELSE new

Flushed(loaded, new, current) ==
    [status            |-> Column(loaded.status, new.status, current.status),
     chata_complete    |-> Column(loaded.chata_complete, new.chata_complete, current.chata_complete),
     chalupa_complete  |-> Column(loaded.chalupa_complete, new.chalupa_complete, current.chalupa_complete),
     found_count       |-> Column(loaded.found_count, new.found_count, current.found_count),
     new_count         |-> Column(loaded.new_count, new.new_count, current.new_count),
     changed_count     |-> Column(loaded.changed_count, new.changed_count, current.changed_count),
     error_count       |-> Column(loaded.error_count, new.error_count, current.error_count),
     deactivated_count |-> Column(loaded.deactivated_count, new.deactivated_count, current.deactivated_count),
     error_code        |-> Column(loaded.error_code, new.error_code, current.error_code)]

\* The table's check constraint succeeded_is_complete.
SucceededIsComplete(row) ==
    row.status = "succeeded" => row.chata_complete /\ row.chalupa_complete

\* A run that did not succeed: its row is flushed and committed at once.
FinishIncomplete(e) ==
    LET k == Key(e)
        row == Flushed(closing[e].loaded, closing[e].row, run[k])
    IN
    /\ pc[e] = "flush"
    /\ ~RunRowLocked(k)
    /\ run' = [run EXCEPT ![k] = IF SucceededIsComplete(row) THEN row ELSE @]
    /\ Ends(e)
    /\ UNCHANGED <<listing, observation, events, raw, executions>>

\* deactivate_missing_listings that forgets which listings the run observed.
MissingMutant(k) == {l \in Listings : listing[l] # None /\ listing[l].active}

Missing(k) ==
    {l \in Listings : listing[l] # None /\ listing[l].active /\ ~ObservedIn(k, l)}

\* deactivate_missing_listings: the UPDATE of the run row is flushed, then the
\* query takes its snapshot of the active listings the run did not observe.
FinishSelect(e) ==
    LET k == Key(e) IN
    /\ pc[e] = "select"
    /\ ~RunRowLocked(k)
    /\ \/ /\ SucceededIsComplete(Flushed(closing[e].loaded, closing[e].row, run[k]))
          /\ pc' = [pc EXCEPT ![e] = "write"]
          /\ closing' = [closing EXCEPT ![e].missing = Missing(k)]
          /\ UNCHANGED <<work, txn>>
       \/ /\ ~SucceededIsComplete(Flushed(closing[e].loaded, closing[e].row, run[k]))
          /\ Ends(e)
    /\ UNCHANGED <<dbVars, raw, executions>>

\* FOR UPDATE waits for the rows of the snapshot and rereads them: a row that
\* became inactive in the meantime is not returned.
Dropped(e) == {l \in closing[e].missing : listing[l] # None /\ listing[l].active}

DropEvents(e) == [run : {Key(e)}, listing : Dropped(e), type : {"deactivated"}]

\* A second event of one type for a run and listing violates the unique key.
FinishSucceeded(e) ==
    LET k == Key(e)
        row == [closing[e].row EXCEPT !.deactivated_count = Cardinality(Dropped(e))]
    IN
    /\ pc[e] = "write"
    /\ \A l \in closing[e].missing : ~RowLocked(l)
    /\ \/ /\ DropEvents(e) \cap events = {}
          /\ run' = [run EXCEPT ![k] = Flushed(closing[e].loaded, row, @)]
          /\ listing' = [l \in Listings |->
                            IF l \in Dropped(e) THEN [listing[l] EXCEPT !.active = FALSE]
                                                ELSE listing[l]]
          /\ events' = events \cup DropEvents(e)
       \/ /\ DropEvents(e) \cap events # {}
          /\ UNCHANGED <<run, listing, events>>
    /\ Ends(e)
    /\ UNCHANGED <<observation, raw, executions>>

-----------------------------------------------------------------------------

\* The process is killed (job timeout, lost instance) or an exception leaves
\* execute(); its transaction rolls back and its locks are released.
Crash(e) ==
    /\ pc[e] # "idle"
    /\ Ends(e)
    /\ UNCHANGED <<dbVars, raw, executions>>

Execute(e) ==
    \/ CreateRun(e)
    \/ \E l \in Listings, d \in Details : Fetch(e, l, d)
    \/ CompleteCategory(e)
    \/ FailCategory(e)
    \/ OpenDetail(e)
    \/ StoreRaw(e)
    \/ RawConflict(e)
    \/ CommitDetail(e)
    \/ RefuseDetail(e)
    \/ FinishRead(e)
    \/ FinishIncomplete(e)
    \/ FinishSelect(e)
    \/ FinishSucceeded(e)

Next ==
    \E e \in Executors :
        \/ \E k \in Keys : FindRun(e, k)
        \/ Execute(e)
        \/ Crash(e)

Spec == Init /\ [][Next]_vars

-----------------------------------------------------------------------------
(* Properties *)

\* Every table row, raw object and process local has the shape the code gives it.
TypeOK ==
    /\ run \in [Keys -> Run \cup {None}]
    /\ listing \in [Listings -> Listing \cup {None}]
    /\ observation \in [Keys -> [Listings -> Detail \cup {None}]]
    /\ events \subseteq Event
    /\ raw \in [Keys -> [Listings -> Detail \cup {None}]]
    /\ pc \in [Executors -> Controls]
    /\ work \in [Executors -> Work]
    /\ txn \in [Executors -> Txn]
    /\ closing \in [Executors -> Closing]
    /\ executions \in 0..MaxExecutions

\* Every observation's raw_object_key names an object that holds exactly the
\* payload the observation was made from, although the object is stored before
\* the transaction commits, survives its rollback and may be met again by a
\* resumed or a concurrent execution of the run (_persist_detail, store_json).
ObservationsArchived ==
    \A k \in Keys, l \in Listings :
        ObservedIn(k, l) => raw[k][l] = observation[k][l]

Happenings(l, type) == {x \in events : x.listing = l /\ x.type = type}

\* The event history of a listing accounts for its row: one creation, and one
\* deactivation more than reactivations exactly when the row is inactive.  It
\* fails as soon as two transactions act on the same old state of the row.
LifecycleLedger ==
    \A l \in Listings :
        LET created     == Cardinality(Happenings(l, "created"))
            deactivated == Cardinality(Happenings(l, "deactivated"))
            reactivated == Cardinality(Happenings(l, "reactivated"))
        IN IF listing[l] = None
           THEN created + deactivated + reactivated = 0
           ELSE /\ created = 1
                /\ deactivated = reactivated + (IF listing[l].active THEN 0 ELSE 1)

\* The pipeline implements ListingLifecycle: read through the listings table and
\* the event history, every transaction that commits is an observation of one
\* listing, a withdrawal of some active ones, or invisible.
Phase(l) ==
    IF listing[l] = None THEN "unseen"
    ELSE IF listing[l].active THEN "active" ELSE "inactive"

Lifecycle == INSTANCE ListingLifecycle WITH
    phase     <- [l \in Listings |-> Phase(l)],
    withdrawn <- [l \in Listings |-> Cardinality(Happenings(l, "deactivated"))],
    returned  <- [l \in Listings |-> Cardinality(Happenings(l, "reactivated"))]

ImplementsLifecycle == Lifecycle!Spec

\* The listings row is one whole recorded observation of the listing: its kind,
\* price and content are never a mixture of two, also when a run that fetched
\* earlier commits later. Which of the observations it is, times would tell.
ListingReflectsObservation ==
    \A l \in Listings : listing[l] # None =>
        \E k \in Keys :
            /\ ObservedIn(k, l)
            /\ observation[k][l].price = listing[l].price
            /\ observation[k][l].hash = listing[l].hash
            /\ observation[k][l].kind = listing[l].kind

\* Observing a listing twice in one run is idempotent: a change event of a run
\* compares its observation with the state another run left, so a resumed or
\* doubled execution never reports a change against its own observation.
ChangesComeFromOtherRuns ==
    \A x \in events : x.type \in ChangeTypes =>
        \E k \in Keys \ {x.run} : ObservedIn(k, x.listing)

\* Bulk deactivation belongs to complete successful runs only: the run of a
\* deactivated event is succeeded with both categories complete.
DeactivationNeedsSuccess ==
    \A x \in events : x.type = "deactivated" =>
        /\ run[x.run].status = "succeeded"
        /\ run[x.run].chata_complete /\ run[x.run].chalupa_complete

\* A run never deactivates a listing it observed itself.
NeverDropsWhatItSaw ==
    \A x \in events : x.type = "deactivated" => ~ObservedIn(x.run, x.listing)

\* The stored result of a finished run is the truth about its rows: found,
\* new, changed and deactivated counts equal what the run left in the tables,
\* also when the run was resumed after a crash.
ResultMatchesHistory ==
    \A k \in Keys : Finished(k) =>
        /\ run[k].found_count = Cardinality({l \in Listings : ObservedIn(k, l)})
        /\ run[k].new_count = Cardinality(EventsOf(k, {"created"}))
        /\ run[k].changed_count = Cardinality({x.listing : x \in EventsOf(k, ChangeTypes)})
        /\ run[k].deactivated_count = Cardinality(EventsOf(k, {"deactivated"}))

\* docs/architecture/m1-01-database-schema.md:246, item 5 of the transactional
\* invariants: a partial or failed run may hold observations and errors, but
\* never a bulk deactivation.
IncompleteRunNeverDeactivates ==
    \A x \in events : x.type = "deactivated" =>
        run[x.run].status \notin {"partial", "failed"}

\* The result of a finished run is final: executing its key again returns the
\* stored result and changes nothing.
FinishedRunsAreFinal ==
    [][\A k \in Keys : Finished(k) => run'[k] = run[k]]_vars

\* History is only appended to: no observation, event or raw object is ever
\* changed or removed, and no listing disappears.
HistoryOnlyGrows ==
    [][/\ events \subseteq events'
       /\ \A l \in Listings : listing[l] # None => listing'[l] # None
       /\ \A k \in Keys, l \in Listings :
            /\ observation[k][l] # None => observation'[k][l] = observation[k][l]
            /\ raw[k][l] # None => raw'[k][l] = raw[k][l]]_vars

\* An execution never hangs: whatever it waits for (row locks of other
\* processes included), it returns or raises.
ExecutionsEnd ==
    \A e \in Executors : pc[e] # "idle" ~> pc[e] = "idle"
=============================================================================
