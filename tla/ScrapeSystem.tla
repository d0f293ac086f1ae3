---------------------------- MODULE ScrapeSystem ----------------------------
(***************************************************************************)
(* The manual trigger (api/operations.py, api/job_trigger.py) composed     *)
(* with the scrape pipeline.  A POST reserves the run row of its logical   *)
(* key and only then asks Cloud Run, in a background task, to start a job  *)
(* execution for that key.  The request may be lost, may be accepted after *)
(* the task gave up on it, and the API process may die between the two.    *)
(***************************************************************************)
EXTENDS ScrapePipeline

CONSTANTS
    ManualKeys,     \* the logical keys only the manual trigger starts
    Handlers,       \* concurrent POST requests, background task included
    MaxRequests     \* bound: POST requests sent in a behaviour

ASSUME ManualKeysAssumption == ManualKeys \subseteq Keys
ASSUME MaxRequestsAssumption == MaxRequests \in Nat

VARIABLES
    handler,    \* control of each POST handler and the key it was sent
    inFlight,   \* :run requests on their way to Cloud Run
    launches,   \* executions Cloud Run accepted for each manual key
    begun,      \* how many of them have started their process
    requests    \* how many POSTs have been sent

apiVars    == <<handler, inFlight, launches, begun, requests>>
systemVars == <<vars, apiVars>>

HandlerControls == {"idle", "insert", "call", "sent", "check", "mark"}

Waiting == [at |-> "idle", key |-> None]

HandlerKey(c) == handler[c].key

Goto(c, at) == handler' = [handler EXCEPT ![c].at = at]
Leave(c)    == handler' = [handler EXCEPT ![c] = Waiting]

SystemInit ==
    /\ Init
    /\ handler = [c \in Handlers |-> Waiting]
    /\ inFlight = {}
    /\ launches = [k \in ManualKeys |-> 0]
    /\ begun = [k \in ManualKeys |-> 0]
    /\ requests = 0

-----------------------------------------------------------------------------
(* trigger_scrape_run *)

\* The first SELECT: a run that is known already is returned as it is.
Reserve(c, k) ==
    /\ handler[c].at = "idle"
    /\ requests < MaxRequests
    /\ requests' = requests + 1
    /\ \/ run[k] # None /\ UNCHANGED handler
       \/ run[k] = None /\ handler' = [handler EXCEPT ![c] = [at |-> "insert", key |-> k]]
    /\ UNCHANGED <<vars, inFlight, launches, begun>>

\* The loser of a race for the unique key starts its task all the same.
InsertMutant(c) ==
    /\ handler[c].at = "insert"
    /\ run' = [run EXCEPT ![HandlerKey(c)] = IF @ = None THEN NewRun ELSE @]
    /\ Goto(c, "call")
    /\ UNCHANGED <<listing, observation, events, raw, localVars, executions,
                   inFlight, launches, begun, requests>>

\* COMMIT of the new row, then the background task; an IntegrityError means that
\* another request reserved the key: its run is the response, and no task starts.
Insert(c) ==
    /\ handler[c].at = "insert"
    /\ \/ /\ run[HandlerKey(c)] = None
          /\ run' = [run EXCEPT ![HandlerKey(c)] = NewRun]
          /\ Goto(c, "call")
       \/ /\ run[HandlerKey(c)] # None
          /\ Leave(c)
          /\ UNCHANGED run
    /\ UNCHANGED <<listing, observation, events, raw, localVars, executions,
                   inFlight, launches, begun, requests>>

-----------------------------------------------------------------------------
(* _execute_trigger and cloud_run_job_trigger *)

SendRun(c) ==
    /\ handler[c].at = "call"
    /\ inFlight' = inFlight \cup {HandlerKey(c)}
    /\ Goto(c, "sent")
    /\ UNCHANGED <<vars, launches, begun, requests>>

\* The response arrives in time.
TriggerReturns(c) ==
    /\ handler[c].at = "sent"
    /\ launches[HandlerKey(c)] > 0
    /\ Leave(c)
    /\ UNCHANGED <<vars, inFlight, launches, begun, requests>>

\* A trigger that swallows its exceptions.
TriggerRaisesMutant(c) ==
    /\ handler[c].at \in {"call", "sent"}
    /\ Leave(c)
    /\ UNCHANGED <<vars, inFlight, launches, begun, requests>>

\* No credentials, an error status, a connection error or the 20 s timeout:
\* nothing is known about what became of the request.
TriggerRaises(c) ==
    /\ handler[c].at \in {"call", "sent"}
    /\ Goto(c, "check")
    /\ UNCHANGED <<vars, inFlight, launches, begun, requests>>

\* The handler loads the run without locking it; only a RUNNING one is marked.
CheckRun(c) ==
    /\ handler[c].at = "check"
    /\ IF run[HandlerKey(c)].status = "running" THEN Goto(c, "mark") ELSE Leave(c)
    /\ UNCHANGED <<vars, inFlight, launches, begun, requests>>

\* The UPDATE at commit names the row by id only: whatever status it has now is
\* overwritten, once the row is not locked.
MarkFailed(c) ==
    LET k == HandlerKey(c) IN
    /\ handler[c].at = "mark"
    /\ ~RunRowLocked(k)
    /\ run' = [run EXCEPT ![k].status = "failed", ![k].error_code = "manual_trigger_failed"]
    /\ Leave(c)
    /\ UNCHANGED <<listing, observation, events, raw, localVars, executions,
                   inFlight, launches, begun, requests>>

\* The API process ends, or is given no CPU after its response and then removed.
HandlerLost(c) ==
    /\ handler[c].at # "idle"
    /\ Leave(c)
    /\ UNCHANGED <<vars, inFlight, launches, begun, requests>>

Handle(c) ==
    \/ Insert(c)
    \/ SendRun(c)
    \/ TriggerReturns(c)
    \/ TriggerRaises(c)
    \/ CheckRun(c)
    \/ MarkFailed(c)

-----------------------------------------------------------------------------
(* Cloud Run *)

Accept(k) ==
    /\ k \in inFlight
    /\ inFlight' = inFlight \ {k}
    /\ launches' = [launches EXCEPT ![k] = @ + 1]
    /\ UNCHANGED <<vars, handler, begun, requests>>

Lose(k) ==
    /\ k \in inFlight
    /\ inFlight' = inFlight \ {k}
    /\ UNCHANGED <<vars, handler, launches, begun, requests>>

\* A job execution starts a process for its key, once (max_retries is 0).
StartExecution(e, k) ==
    /\ begun[k] < launches[k]
    /\ FindRun(e, k)
    /\ begun' = [begun EXCEPT ![k] = @ + 1]
    /\ UNCHANGED <<handler, inFlight, launches, requests>>

Deliver(k) ==
    \/ Accept(k)
    \/ Lose(k)
    \/ \E e \in Executors : StartExecution(e, k)

-----------------------------------------------------------------------------

Job(e) == Execute(e) /\ UNCHANGED apiVars

\* The next-state relation without crashes.
SteadyNext ==
    \/ \E c \in Handlers : Handle(c) \/ (\E k \in ManualKeys : Reserve(c, k))
    \/ \E k \in ManualKeys : Deliver(k)
    \/ \E e \in Executors :
        \/ Job(e)
        \/ \E k \in Keys \ ManualKeys : FindRun(e, k) /\ UNCHANGED apiVars

SystemNext ==
    \/ SteadyNext
    \/ \E c \in Handlers : HandlerLost(c)
    \/ \E e \in Executors : Crash(e) /\ UNCHANGED apiVars

SystemSpec == SystemInit /\ [][SystemNext]_systemVars

\* No process dies; handlers, the network, Cloud Run and the job keep going.
SteadySpec ==
    /\ SystemInit /\ [][SteadyNext]_systemVars
    /\ \A c \in Handlers : WF_systemVars(Handle(c))
    /\ \A k \in ManualKeys : WF_systemVars(Deliver(k))
    /\ \A e \in Executors : WF_systemVars(Job(e))

-----------------------------------------------------------------------------
(* Properties *)

Schema == INSTANCE MigratedSchema

\* Every table and process local keeps its type, the counters of the trigger
\* stay in their ranges, and whatever handlers and jobs flush in whatever order,
\* the committed rows meet the checks and foreign keys of the migrated schema.
SystemTypeOK ==
    /\ TypeOK
    /\ \A k \in Keys : run[k] # None => Schema!RunRow(run[k])
    /\ Schema!EventRows(events, run, listing)
    /\ Schema!ObservationRows(observation, run, listing)
    /\ handler \in [Handlers -> [at : HandlerControls, key : ManualKeys \cup {None}]]
    /\ inFlight \subseteq ManualKeys
    /\ launches \in [ManualKeys -> Nat]
    /\ begun \in [ManualKeys -> Nat]
    /\ requests \in 0..MaxRequests

\* Reservation makes the trigger idempotent: however many requests carry a key,
\* and however they race, Cloud Run starts at most one execution for it, and
\* two processes never execute it together (trigger_scrape_run).
OneExecutionPerReservation ==
    /\ \A k \in ManualKeys : launches[k] <= 1
    /\ \A e, f \in Executors :
        e # f /\ Key(e) \in ManualKeys => Key(e) # Key(f)

\* A run that says it succeeded tells the truth about its rows, even when a
\* trigger that timed out wrote its failure into the row while the job was at
\* work: found, new and deactivated counts and completeness match the tables.
SuccessTellsTheTruth ==
    \A k \in Keys : run[k] # None /\ run[k].status = "succeeded" =>
        /\ run[k].chata_complete /\ run[k].chalupa_complete
        /\ run[k].found_count = Cardinality({l \in Listings : ObservedIn(k, l)})
        /\ run[k].new_count = Cardinality(EventsOf(k, {"created"}))
        /\ run[k].deactivated_count = Cardinality(EventsOf(k, {"deactivated"}))

\* docs/architecture/m1-01-database-schema.md:246: a failed run never holds a
\* bulk deactivation.
FailedRunNeverDeactivates ==
    \A x \in events : x.type = "deactivated" => run[x.run].status # "failed"

\* As long as no process dies, a reserved run reaches a final status: the job
\* finishes it, or the task that could not start the job marks it failed.
ReservedRunSettles ==
    \A k \in ManualKeys : run[k] # None ~> Finished(k)
=============================================================================
