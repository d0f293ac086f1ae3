------------------------- MODULE ScrapeSystemProofs -------------------------
(***************************************************************************)
(* Theorems about the manual trigger and the job together, for every set   *)
(* of keys, handlers, processes and listings: one execution per            *)
(* reservation; what the pipeline promises of listings, the checks of the  *)
(* schema and the truth of a succeeded run still hold when handlers write  *)
(* the run rows as well.                                                   *)
(***************************************************************************)
EXTENDS ScrapeSystem, ScrapePipelineProofs

-----------------------------------------------------------------------------
(* Reservation *)

\* A handler that reserved the key and has not ended yet.
Task(c, k) ==
    handler[c].key = k /\ handler[c].at \in {"call", "sent", "check", "mark"}

TriggerTypes ==
    /\ handler \in [Handlers -> [at : HandlerControls, key : ManualKeys \cup {None}]]
    /\ \A c \in Handlers : handler[c].at # "idle" => handler[c].key \in ManualKeys
    /\ inFlight \subseteq ManualKeys
    /\ launches \in [ManualKeys -> Nat]
    /\ begun \in [ManualKeys -> Nat]

\* The right to execute a manual key is one token: it is made with the row, and
\* is with the one task that may call, in flight, or with Cloud Run.
Untouched(k) ==
    /\ k \notin inFlight /\ launches[k] = 0

OneToken(k) ==
    /\ \A c \in Handlers : Task(c, k) => run[k] # None
    /\ run[k] = None => Untouched(k)
    /\ \A c, d \in Handlers : Task(c, k) /\ Task(d, k) => c = d
    /\ \A c \in Handlers : Task(c, k) /\ handler[c].at = "call" => Untouched(k)
    /\ launches[k] \in {0, 1}
    /\ launches[k] = 1 => k \notin inFlight

\* A process of a manual key is the one its only execution began.
OneProcess(k) ==
    /\ begun[k] <= launches[k]
    /\ begun[k] = 0 => \A e \in Executors : Key(e) # k
    /\ \A e, f \in Executors : e # f /\ Key(e) = k => Key(f) # k

ReservationInv ==
    /\ TriggerTypes
    /\ \A k \in ManualKeys : OneToken(k) /\ OneProcess(k)

SystemInv == CoreInv /\ LedgerInv /\ ReservationInv

-----------------------------------------------------------------------------
(* Steps of the trigger and the pipeline's invariants *)

\* Who writes only run rows, keeps their type and removes none leaves the
\* invariants of the pipeline alone.
LEMMA RowWriters ==
  ASSUME CoreInv, LedgerInv, run' \in [Keys -> Run \cup {None}],
         \A k \in Keys : run[k] # None => run'[k] # None,
         UNCHANGED <<listing, observation, events, raw, localVars, executions>>
  PROVE  CoreInv' /\ LedgerInv' /\ UNCHANGED Lifecycle!lifecycle
<1> USE DEF localVars, Key
<1>1. TypeInv'
  BY DEF CoreInv, TypeInv, TypeOK
<1>2. ControlInv'
  BY DEF CoreInv, ControlInv, Controlled
<1>3. ArchiveInv'
  BY DEF CoreInv, ArchiveInv, ObservationsArchived, ObservedIn, StoredPayload
<1>4. LedgerInv'
  BY DEF LedgerInv, Exclusive, RowKept, Holds, Told, ObservedIn, LifecycleLedger, Happenings
<1>5. QED
  BY <1>1, <1>2, <1>3, <1>4, LifecycleStutter DEF CoreInv

\* A handler of the trigger writes no row but its own run's.
LEMMA TriggerWrites ==
  ASSUME SystemInv, NEW c \in Handlers,
         \/ \E k \in ManualKeys : Reserve(c, k)
         \/ Handle(c)
         \/ HandlerLost(c)
  PROVE  CoreInv' /\ LedgerInv' /\ UNCHANGED Lifecycle!lifecycle
<1> DEFINE k == HandlerKey(c)
<1>1. run \in [Keys -> Run \cup {None}] /\ handler[c].at # "idle" => k \in Keys
  BY ManualKeysAssumption
     DEF SystemInv, CoreInv, TypeInv, TypeOK, ReservationInv, TriggerTypes, HandlerKey
<1>2. CASE UNCHANGED vars
  BY <1>2, RowWriters DEF vars, localVars, SystemInv, CoreInv, TypeInv, TypeOK
<1>3. CASE Insert(c)
  <2>1. run' \in [Keys -> Run \cup {None}] /\ \A j \in Keys : run[j] # None => run'[j] # None
    BY <1>1, <1>3, NewRunType, NoneIsNoRow
       DEF Insert, SystemInv, CoreInv, TypeInv, TypeOK
  <2>2. QED
    BY <1>3, <2>1, RowWriters DEF Insert, SystemInv
<1>4. CASE MarkFailed(c)
  <2>1. k \in Keys /\ run[k] \in Run
    <3>1. handler[c].at = "mark" /\ k \in ManualKeys
      BY <1>4 DEF MarkFailed, SystemInv, ReservationInv, TriggerTypes, HandlerKey
    <3>2. run[k] # None
      BY <3>1 DEF SystemInv, ReservationInv, OneToken, Task, HandlerKey
    <3>3. QED
      BY <3>1, <3>2, ManualKeysAssumption DEF SystemInv, CoreInv, TypeInv, TypeOK
  <2>2. [run[k] EXCEPT !.status = "failed", !.error_code = "manual_trigger_failed"] \in Run
    BY <2>1 DEF Run, Statuses
  <2>3. run' = [run EXCEPT ![k] =
                   [run[k] EXCEPT !.status = "failed", !.error_code = "manual_trigger_failed"]]
    BY <1>4 DEF MarkFailed
  <2>4. run' \in [Keys -> Run \cup {None}] /\ \A j \in Keys : run[j] # None => run'[j] # None
    BY <2>1, <2>2, <2>3, NoneIsNoRow DEF SystemInv, CoreInv, TypeInv, TypeOK
  <2>5. QED
    BY <1>4, <2>4, RowWriters DEF MarkFailed, SystemInv
<1>5. QED
  BY <1>2, <1>3, <1>4
     DEF Reserve, Handle, SendRun, TriggerReturns, TriggerRaises, CheckRun, HandlerLost

-----------------------------------------------------------------------------
(* Steps and the reservation *)

\* A handler's step leaves the other handlers alone.
LEMMA OtherTasks ==
  ASSUME TriggerTypes, NEW c \in Handlers, NEW d \in Handlers, c # d,
         \E h : handler' = [handler EXCEPT ![c] = h]
  PROVE  handler'[d] = handler[d]
BY DEF TriggerTypes

\* The handler that inserts the row gets the token; its key had none.
LEMMA InsertReserves ==
  ASSUME SystemInv, NEW c \in Handlers, Insert(c)
  PROVE  ReservationInv'
<1> DEFINE r == HandlerKey(c)
<1> USE DEF SystemInv, ReservationInv
<1>1. r \in ManualKeys /\ r \in Keys /\ r # None
  BY ManualKeysAssumption, NoneIsNoName DEF Insert, TriggerTypes, HandlerKey
<1>2. TriggerTypes'
  BY <1>1 DEF Insert, TriggerTypes, HandlerKey, HandlerControls, Goto, Leave, Waiting
<1>3. run \in [Keys -> Run \cup {None}] /\ NewRun # None
  BY NewRunType, NoneIsNoRow DEF CoreInv, TypeInv, TypeOK
<1>4. ASSUME NEW k \in ManualKeys
      PROVE  OneToken(k)' /\ OneProcess(k)'
  <2>1. OneToken(k) /\ OneProcess(k) /\ k \in Keys /\ k # None
    BY ManualKeysAssumption, NoneIsNoName
  <2>2. OneProcess(k)'
    BY <2>1 DEF Insert, OneProcess, localVars, Key
  <2>3. CASE run[r] = None
    <3>1. /\ run' = [run EXCEPT ![r] = NewRun]
          /\ handler' = [handler EXCEPT ![c].at = "call"]
          /\ UNCHANGED <<inFlight, launches>>
      BY <2>3 DEF Insert, Goto
    <3>2. \A d \in Handlers : Task(d, k)' => (d # c /\ Task(d, k)) \/ (d = c /\ k = r)
      BY <1>1, <3>1 DEF Task, TriggerTypes, HandlerKey
    <3>3. \A d \in Handlers : Task(d, k) => k # r
      BY <2>1, <2>3 DEF OneToken
    <3>4. \A d \in Handlers : d # c => handler'[d] = handler[d]
      BY <3>1 DEF TriggerTypes
    <3>5. \A d \in Handlers : d # c /\ Task(d, k)' =>
             Task(d, k) /\ handler'[d].at = handler[d].at
      BY <3>2, <3>4
    <3>6. k = r => Untouched(k)'
      BY <2>1, <2>3, <3>1 DEF OneToken, Untouched
    <3>7. \A d \in Handlers : Task(d, k)' => run'[k] # None
      BY <1>1, <1>3, <2>1, <3>1, <3>2 DEF OneToken
    <3>8. run'[k] = None => run[k] = None
      BY <1>1, <1>3, <2>1, <3>1
    <3>9. Untouched(k)' <=> Untouched(k)
      BY <3>1 DEF Untouched
    <3>10. \A d, h \in Handlers : Task(d, k)' /\ Task(h, k)' => d = h
      BY <2>1, <3>2, <3>3 DEF OneToken
    <3>11. \A d \in Handlers : Task(d, k)' /\ handler'[d].at = "call" => Untouched(k)'
      BY <2>1, <3>2, <3>5, <3>6, <3>9 DEF OneToken
    <3>12. /\ run'[k] = None => Untouched(k)'
           /\ launches'[k] \in {0, 1} /\ (launches'[k] = 1 => k \notin inFlight')
      BY <2>1, <3>1, <3>8, <3>9 DEF OneToken
    <3>13. OneToken(k)'
      BY <3>7, <3>10, <3>11, <3>12 DEF OneToken
    <3>14. QED
      BY <2>2, <3>13
  <2>4. CASE run[r] # None
    <3>1. /\ handler' = [handler EXCEPT ![c] = Waiting]
          /\ UNCHANGED <<run, inFlight, launches>>
      BY <2>4 DEF Insert, Leave
    <3>2. \A d \in Handlers : Task(d, k)' => Task(d, k) /\ handler'[d] = handler[d]
      BY <3>1, <2>1 DEF Task, TriggerTypes, Waiting
    <3>3. QED
      BY <2>1, <2>2, <3>1, <3>2 DEF OneToken, Untouched
  <2>5. QED
    BY <2>3, <2>4
<1>5. QED
  BY <1>2, <1>4

\* No other handler makes a token: a request waits, calls once or gives up.
LEMMA HandlersKeepToken ==
  ASSUME SystemInv, NEW c \in Handlers,
         \/ \E k \in ManualKeys : Reserve(c, k)
         \/ SendRun(c) \/ TriggerReturns(c) \/ TriggerRaises(c)
         \/ CheckRun(c) \/ MarkFailed(c) \/ HandlerLost(c),
         \A k \in Keys : run[k] # None => run'[k] # None
  PROVE  ReservationInv'
<1> USE DEF SystemInv, ReservationInv
<1>1. /\ handler[c].at # "idle" => HandlerKey(c) \in ManualKeys
      /\ None \notin ManualKeys /\ ManualKeys \subseteq Keys
  BY ManualKeysAssumption, NoneIsNoName DEF TriggerTypes, HandlerKey
<1>2. /\ begun' = begun /\ launches' = launches /\ work' = work
      /\ \A k \in Keys : run[k] # None => run'[k] # None
  BY DEF Reserve, SendRun, TriggerReturns, TriggerRaises, CheckRun, MarkFailed,
         HandlerLost, vars, localVars
<1>3. ASSUME NEW k \in ManualKeys PROVE OneProcess(k)'
  BY <1>2 DEF OneProcess, Key
<1>4. CASE SendRun(c)
  <2> DEFINE r == HandlerKey(c)
  <2>1. /\ handler[c].at = "call" /\ r \in ManualKeys /\ run' = run
        /\ handler' = [handler EXCEPT ![c].at = "sent"]
        /\ inFlight' = inFlight \cup {r}
    BY <1>1, <1>4 DEF SendRun, Goto, vars
  <2>2. TriggerTypes'
    BY <1>2, <2>1 DEF TriggerTypes, HandlerControls, HandlerKey
  <2>3. ASSUME NEW k \in ManualKeys PROVE OneToken(k)'
    <3>1. OneToken(k)
      OBVIOUS
    <3>2. \A d \in Handlers : Task(d, k)' <=> Task(d, k)
      BY <2>1 DEF Task, TriggerTypes
    <3>3. \A d \in Handlers : handler'[d].at = "call" => d # c /\ handler'[d] = handler[d]
      BY <2>1 DEF TriggerTypes
    <3>4. k = r => Task(c, k) /\ Untouched(k) /\ run[k] # None
      BY <2>1, <3>1 DEF OneToken, Task, HandlerKey
    <3>5. \A d \in Handlers : Task(d, k) /\ handler'[d].at = "call" => k # r
      BY <3>1, <3>3, <3>4 DEF OneToken
    <3>6. QED
      BY <1>2, <2>1, <3>1, <3>2, <3>3, <3>4, <3>5 DEF OneToken, Untouched
  <2>4. QED
    BY <1>3, <2>2, <2>3
<1>5. CASE ~SendRun(c)
  <2>1. inFlight' = inFlight
    BY <1>5 DEF Reserve, TriggerReturns, TriggerRaises, CheckRun, MarkFailed, HandlerLost
  <2>2. \/ handler' = handler
        \/ \E k \in ManualKeys : handler' = [handler EXCEPT ![c] = [at |-> "insert", key |-> k]]
        \/ handler' = [handler EXCEPT ![c] = Waiting]
        \/ /\ handler[c].at \in {"call", "sent", "check"}
           /\ \E at \in {"check", "mark"} : handler' = [handler EXCEPT ![c].at = at]
    BY <1>5 DEF Reserve, TriggerReturns, TriggerRaises, CheckRun, MarkFailed, HandlerLost,
                Goto, Leave
  <2>3. TriggerTypes'
    BY <1>2, <2>1, <2>2 DEF TriggerTypes, HandlerControls, Waiting
  <2>4. ASSUME NEW k \in ManualKeys, NEW d \in Handlers, Task(d, k)'
        PROVE  Task(d, k) /\ (handler'[d].at = "call" => handler[d].at = "call")
    BY <1>1, <2>2, <2>4 DEF Task, TriggerTypes, Waiting
  <2>5. ASSUME NEW k \in ManualKeys PROVE OneToken(k)'
    BY <1>1, <1>2, <2>1, <2>4 DEF OneToken, Untouched
  <2>6. QED
    BY <1>3, <2>3, <2>5
<1>6. QED
  BY <1>4, <1>5

\* Cloud Run takes the token from the request, or it is lost.
LEMMA CloudKeepsToken ==
  ASSUME SystemInv, NEW j \in ManualKeys, Accept(j) \/ Lose(j)
  PROVE  ReservationInv'
<1> USE DEF SystemInv, ReservationInv
<1>1. /\ j \in inFlight /\ inFlight' = inFlight \ {j}
      /\ UNCHANGED <<run, work, handler, begun>>
  BY DEF Accept, Lose, vars
<1>2. launches' = launches \/ launches' = [launches EXCEPT ![j] = @ + 1]
  BY DEF Accept, Lose
<1>3. TriggerTypes'
  BY <1>1, <1>2 DEF TriggerTypes
<1>4. ASSUME NEW k \in ManualKeys PROVE OneToken(k)' /\ OneProcess(k)'
  <2>1. OneToken(k) /\ OneProcess(k) /\ launches[k] \in Nat /\ begun[k] \in Nat
    BY DEF TriggerTypes
  <2>2. \A c \in Handlers : Task(c, k)' <=> Task(c, k)
    BY <1>1 DEF Task
  <2>3. CASE k = j
    <3>1. run[k] # None /\ launches[k] = 0 /\ launches'[k] \in {0, 1} /\ k \notin inFlight'
      BY <1>1, <1>2, <2>1, <2>3 DEF OneToken, Untouched, TriggerTypes
    <3>2. \A c \in Handlers : Task(c, k) => handler[c].at # "call"
      BY <1>1, <2>1, <2>3 DEF OneToken, Untouched
    <3>3. OneToken(k)'
      BY <1>1, <2>1, <2>2, <3>1, <3>2 DEF OneToken
    <3>4. OneProcess(k)'
      BY <1>1, <2>1, <3>1 DEF OneProcess, Key
    <3>5. QED
      BY <3>3, <3>4
  <2>4. CASE k # j
    <3>1. launches'[k] = launches[k] /\ (k \in inFlight' <=> k \in inFlight)
      BY <1>1, <1>2, <2>4 DEF TriggerTypes
    <3>2. OneToken(k)'
      BY <1>1, <2>1, <2>2, <3>1 DEF OneToken, Untouched
    <3>3. OneProcess(k)'
      BY <1>1, <2>1, <3>1 DEF OneProcess, Key
    <3>4. QED
      BY <3>2, <3>3
  <2>5. QED
    BY <2>3, <2>4
<1>5. QED
  BY <1>3, <1>4

\* A process keeps its key until it ends, or takes the one it is started with.
LEMMA KeyStep ==
  ASSUME TypeInv, NEW e \in Executors, Execute(e) \/ Crash(e)
  PROVE  Key(e)' \in {Key(e), None}
<1> USE DEF TypeInv, TypeOK, Key
<1>1. CASE Ends(e)
  BY <1>1 DEF Ends, NoWork
<1>2. CASE work' = work
  BY <1>2
<1>3. CASE \E l \in Listings, d \in Details : Fetch(e, l, d)
  BY <1>3 DEF Fetch, Work
<1>4. CASE \E c, f : NextKind(e, c, f)
  BY <1>4 DEF NextKind, Work
<1>5. QED
  BY <1>1, <1>2, <1>3, <1>4
     DEF Execute, CreateRun, CompleteCategory, FailCategory, RawConflict, RefuseDetail,
         OpenDetail, StoreRaw, CommitDetail, FinishRead, FinishIncomplete, FinishSelect,
         FinishSucceeded, Crash

\* The steps of processes, the scheduled starts among them, touch no token.
LEMMA JobKeepsToken ==
  ASSUME SystemInv, NEW e \in Executors, UNCHANGED apiVars,
         \/ Execute(e) \/ Crash(e)
         \/ \E k \in Keys \ ManualKeys : FindRun(e, k)
  PROVE  ReservationInv'
<1> USE DEF SystemInv, ReservationInv
<1>1. Step(e) /\ TypeInv /\ ControlInv
  BY DEF Step, CoreInv
<1>2. /\ UNCHANGED <<handler, inFlight, launches, begun>>
      /\ \A k \in Keys : run[k] # None => run'[k] # None
  BY <1>1, RunStays DEF apiVars
<1>3. \A k \in ManualKeys : Key(e)' = k => Key(e) = k
  BY <1>1, KeyStep, NoneIsNoName, ManualKeysAssumption DEF FindRun, Key, TypeInv, TypeOK, Work
<1>4. \A f \in Executors : f # e => Key(f)' = Key(f)
  BY <1>1, Frame DEF Key
<1>5. TriggerTypes'
  BY <1>2 DEF TriggerTypes
<1>6. ASSUME NEW k \in ManualKeys PROVE OneToken(k)' /\ OneProcess(k)'
  <2>1. OneToken(k) /\ OneProcess(k) /\ k \in Keys
    BY ManualKeysAssumption
  <2>2. OneToken(k)'
    BY <1>2, <2>1 DEF OneToken, Untouched, Task
  <2>3. OneProcess(k)'
    BY <1>2, <1>3, <1>4, <2>1 DEF OneProcess
  <2>4. QED
    BY <2>2, <2>3
<1>7. QED
  BY <1>5, <1>6

\* An execution that begins is the first process of its key.
LEMMA StartKeepsToken ==
  ASSUME SystemInv, NEW e \in Executors, NEW j \in ManualKeys, StartExecution(e, j)
  PROVE  ReservationInv'
<1> USE DEF SystemInv, ReservationInv
<1>1. /\ j \in Keys /\ begun[j] < launches[j] /\ FindRun(e, j)
      /\ begun' = [begun EXCEPT ![j] = @ + 1]
      /\ UNCHANGED <<run, handler, inFlight, launches>>
  BY ManualKeysAssumption DEF StartExecution, FindRun, dbVars
<1>2. \A k \in ManualKeys : begun[k] \in Nat /\ launches[k] \in {0, 1}
  BY DEF TriggerTypes, OneToken
<1>3. TriggerTypes'
  BY <1>1, <1>2 DEF TriggerTypes
<1>4. Key(e)' \in {Key(e), j}
  BY <1>1 DEF FindRun, Key, CoreInv, TypeInv, TypeOK, Work
<1>5. \A f \in Executors : f # e => Key(f)' = Key(f)
  BY <1>1, Frame DEF Key, Step, CoreInv
<1>6. begun[j] = 0 /\ launches[j] = 1
  BY <1>1, <1>2
<1>7. ASSUME NEW k \in ManualKeys PROVE OneToken(k)' /\ OneProcess(k)'
  <2>1. OneToken(k) /\ OneProcess(k)
    OBVIOUS
  <2>2. OneToken(k)'
    BY <1>1, <2>1 DEF OneToken, Untouched, Task
  <2>3. CASE k = j
    <3>1. begun'[k] = 1 /\ launches'[k] = 1
      BY <1>1, <1>6, <2>3 DEF TriggerTypes
    <3>2. \A f \in Executors : Key(f) # k
      BY <1>6, <2>1, <2>3 DEF OneProcess
    <3>3. \A f \in Executors : Key(f)' = k => f = e
      BY <1>5, <3>2
    <3>4. QED
      BY <2>2, <3>1, <3>3 DEF OneProcess
  <2>4. CASE k # j
    <3>1. begun'[k] = begun[k] /\ launches'[k] = launches[k]
      BY <1>1, <2>4 DEF TriggerTypes
    <3>2. \A f \in Executors : Key(f)' = k => Key(f) = k
      BY <1>4, <1>5, <2>4
    <3>3. QED
      BY <2>1, <2>2, <3>1, <3>2 DEF OneProcess
  <2>5. QED
    BY <2>3, <2>4
<1>8. QED
  BY <1>3, <1>7

-----------------------------------------------------------------------------
(* Theorems *)

LEMMA InitSystem == SystemInit => SystemInv
<1> SUFFICES ASSUME SystemInit PROVE SystemInv
  OBVIOUS
<1>1. CoreInv /\ LedgerInv
  BY InitType, InitControl, InitArchive, InitLedger DEF SystemInit, CoreInv
<1>2. \A e \in Executors : Key(e) = None
  BY DEF SystemInit, Init, Key, NoWork
<1>3. TriggerTypes
  BY DEF SystemInit, TriggerTypes, Waiting, HandlerControls
<1>4. ASSUME NEW k \in ManualKeys PROVE OneToken(k) /\ OneProcess(k)
  <2>1. k # None
    BY ManualKeysAssumption, NoneIsNoName
  <2>2. OneToken(k)
    BY <2>1 DEF SystemInit, OneToken, Untouched, Task, Waiting
  <2>3. OneProcess(k)
    BY <1>2, <2>1 DEF SystemInit, OneProcess
  <2>4. QED
    BY <2>2, <2>3
<1>5. QED
  BY <1>1, <1>3, <1>4 DEF SystemInv, ReservationInv

\* Every step of the system is a step of the pipeline or one the pipeline's
\* invariants and its lifecycle do not notice, and keeps the tokens.
LEMMA SystemStep ==
  ASSUME SystemInv, [SystemNext]_systemVars
  PROVE  SystemInv' /\ [Lifecycle!Next]_(Lifecycle!lifecycle)
<1>1. ASSUME [Next]_vars
      PROVE  CoreInv' /\ LedgerInv' /\ [Lifecycle!Next]_(Lifecycle!lifecycle)
  BY <1>1, TypeStep, ControlStep, ArchiveStep, LedgerStep, LifecycleStep
     DEF SystemInv, CoreInv
<1>2. ASSUME NEW c \in Handlers,
             Handle(c) \/ HandlerLost(c) \/ \E k \in ManualKeys : Reserve(c, k)
      PROVE  SystemInv' /\ [Lifecycle!Next]_(Lifecycle!lifecycle)
  <2>1. CoreInv' /\ LedgerInv' /\ UNCHANGED Lifecycle!lifecycle
    BY <1>2, TriggerWrites
  <2>2. \A k \in Keys : ~Insert(c) /\ run[k] # None => run'[k] # None
    <3>1. CASE MarkFailed(c)
      <4>1. run \in [Keys -> Run \cup {None}] /\ run' \in [Keys -> Run \cup {None}]
        BY <2>1 DEF SystemInv, CoreInv, TypeInv, TypeOK
      <4>2. \A k \in Keys : run[k] # None =>
               [run[k] EXCEPT !.status = "failed", !.error_code = "manual_trigger_failed"]
                  # None
        BY <4>1, NoneIsNoRow DEF Run, Statuses
      <4>3. QED
        BY <3>1, <4>1, <4>2 DEF MarkFailed
    <3>2. CASE ~MarkFailed(c)
      BY <1>2, <3>2
         DEF Handle, HandlerLost, Reserve, SendRun, TriggerReturns, TriggerRaises,
             CheckRun, vars
    <3>3. QED
      BY <3>1, <3>2
  <2>3. ReservationInv'
    BY <1>2, <2>2, InsertReserves, HandlersKeepToken DEF Handle
  <2>4. QED
    BY <2>1, <2>3 DEF SystemInv
<1>3. ASSUME NEW k \in ManualKeys, Accept(k) \/ Lose(k)
      PROVE  SystemInv' /\ [Lifecycle!Next]_(Lifecycle!lifecycle)
  <2>1. UNCHANGED vars
    BY <1>3 DEF Accept, Lose
  <2>2. QED
    BY <1>1, <1>3, <2>1, CloudKeepsToken DEF SystemInv
<1>4. ASSUME NEW k \in ManualKeys, NEW e \in Executors, StartExecution(e, k)
      PROVE  SystemInv' /\ [Lifecycle!Next]_(Lifecycle!lifecycle)
  <2>1. Next
    BY <1>4, ManualKeysAssumption DEF StartExecution, Next
  <2>2. QED
    BY <1>1, <1>4, <2>1, StartKeepsToken DEF SystemInv
<1>5. ASSUME NEW e \in Executors, UNCHANGED apiVars,
             \/ Execute(e) \/ Crash(e)
             \/ \E k \in Keys \ ManualKeys : FindRun(e, k)
      PROVE  SystemInv' /\ [Lifecycle!Next]_(Lifecycle!lifecycle)
  <2>1. Next
    BY <1>5 DEF Next
  <2>2. QED
    BY <1>1, <1>5, <2>1, JobKeepsToken DEF SystemInv
<1>6. CASE UNCHANGED systemVars
  <2>1. UNCHANGED vars /\ UNCHANGED apiVars
    BY <1>6 DEF systemVars
  <2>2. ReservationInv'
    BY <2>1 DEF SystemInv, ReservationInv, TriggerTypes, OneToken, OneProcess, Untouched,
               Task, Key, vars, apiVars
  <2>3. QED
    BY <1>1, <2>1, <2>2 DEF SystemInv
<1>7. QED
  BY <1>2, <1>3, <1>4, <1>5, <1>6 DEF SystemNext, SteadyNext, Deliver, Job

LEMMA SystemInvariant == SystemSpec => []SystemInv
<1>1. SystemInv /\ [SystemNext]_systemVars => SystemInv'
  BY SystemStep
<1>2. QED
  BY <1>1, InitSystem, PTL DEF SystemSpec

\* However many POSTs carry a key and however they race, Cloud Run starts at
\* most one execution for it, and one process executes it.
THEOREM OneExecution == SystemSpec => []OneExecutionPerReservation
<1>1. SystemInv => OneExecutionPerReservation
  <2> SUFFICES ASSUME SystemInv PROVE OneExecutionPerReservation
    OBVIOUS
  <2>1. \A k \in ManualKeys : launches[k] <= 1
    BY DEF SystemInv, ReservationInv, OneToken
  <2>2. \A e, f \in Executors : e # f /\ Key(e) \in ManualKeys => Key(e) # Key(f)
    BY DEF SystemInv, ReservationInv, OneProcess
  <2>3. QED
    BY <2>1, <2>2 DEF OneExecutionPerReservation
<1>2. QED
  BY <1>1, SystemInvariant, PTL

\* Handlers that write into the runs of the pipeline, a late failure mark over a
\* finished run included, do not disturb the life of a listing.
THEOREM SystemLifecycle == SystemSpec => ImplementsLifecycle
<1>1. SystemInit => Lifecycle!Init
  BY InitLifecycle DEF SystemInit
<1>2. SystemInv /\ [SystemNext]_systemVars => [Lifecycle!Next]_(Lifecycle!lifecycle)
  BY SystemStep
<1>3. QED
  BY <1>1, <1>2, SystemInvariant, PTL DEF SystemSpec, ImplementsLifecycle, Lifecycle!Spec

\* With the trigger in play the event history still accounts for every row.
THEOREM SystemLedger == SystemSpec => []LifecycleLedger
<1>1. SystemInv => LifecycleLedger
  BY DEF SystemInv, LedgerInv
<1>2. QED
  BY <1>1, SystemInvariant, PTL

-----------------------------------------------------------------------------
(* What the committed rows meet, whoever shares keys *)

\* A row is complete if it says it succeeded, events and observations are of
\* rows that exist, and one process at a time is between its query for missing
\* listings and its commit, with a row that meets the check.
RowsComplete == \A k \in Keys : run[k] # None => SucceededIsComplete(run[k])

Referenced ==
    /\ \A x \in events : run[x.run] # None /\ listing[x.listing] # None
    /\ \A k \in Keys, l \in Listings : ObservedIn(k, l) => run[k] # None /\ listing[l] # None

Checked(e) ==
    pc[e] = "write" =>
        SucceededIsComplete(Flushed(closing[e].loaded, closing[e].row, run[Key(e)]))

OneWriter ==
    \A e, f \in Executors : e # f /\ pc[e] = "write" /\ pc[f] = "write" => Key(e) # Key(f)

SchemaInv ==
    /\ RowsComplete /\ Referenced /\ OneWriter
    /\ \A e \in Executors : Checked(e)

\* The row of a run changes only by the processes that execute it, and not
\* while one of them holds its lock.
LEMMA RunWriters ==
  ASSUME CoreInv, SchemaInv, NEW e \in Executors, Step(e), NEW k \in Keys
  PROVE  /\ run'[k] # run[k] => k = Key(e) /\ \A f \in Executors : pc[f] = "write" /\ Key(f) = k => f = e
         /\ run'[k] # None => SucceededIsComplete(run'[k])
<1> USE DEF CoreInv, TypeInv, TypeOK
<1>1. CASE CreateRun(e)
  <2>1. SucceededIsComplete(NewRun)
    BY DEF SucceededIsComplete, NewRun
  <2>2. \A f \in Executors : pc[f] = "write" => run[Key(f)] # None
    BY DEF ControlInv, Controlled
  <2>3. QED
    BY <1>1, <2>1, <2>2 DEF CreateRun, SchemaInv, RowsComplete
<1>2. CASE FinishIncomplete(e)
  <2>1. \A f \in Executors : pc[f] = "write" => Key(f) # Key(e)
    BY <1>2 DEF FinishIncomplete, RunRowLocked
  <2>2. QED
    BY <1>2, <2>1 DEF FinishIncomplete, SchemaInv, RowsComplete
<1>3. CASE FinishSucceeded(e)
  <2> DEFINE row == [closing[e].row EXCEPT !.deactivated_count = Cardinality(Dropped(e))]
  <2>1. pc[e] = "write" /\ closing[e].loaded \in Run /\ closing[e].row \in Run
    BY <1>3 DEF FinishSucceeded, ControlInv, Controlled
  <2>2. /\ row.status = closing[e].row.status
        /\ row.chata_complete = closing[e].row.chata_complete
        /\ row.chalupa_complete = closing[e].row.chalupa_complete
    BY <2>1 DEF Run
  <2>3. SucceededIsComplete(Flushed(closing[e].loaded, row, run[Key(e)]))
    BY <2>1, <2>2 DEF SchemaInv, Checked, SucceededIsComplete, Flushed, Column
  <2>4. \/ run' = run
        \/ run' = [run EXCEPT ![Key(e)] = Flushed(closing[e].loaded, row, run[Key(e)])]
    BY <1>3 DEF FinishSucceeded
  <2>5. \A f \in Executors : pc[f] = "write" /\ f # e => Key(f) # Key(e)
    BY <2>1 DEF SchemaInv, OneWriter
  <2> HIDE DEF row
  <2>6. QED
    BY <2>3, <2>4, <2>5 DEF SchemaInv, RowsComplete
<1>4. CASE run' = run
  BY <1>4 DEF SchemaInv, RowsComplete
<1>5. QED
  BY <1>1, <1>2, <1>3, <1>4
     DEF Step, Execute, FindRun, Fetch, CompleteCategory, FailCategory, RawConflict,
         RefuseDetail, NextKind, OpenDetail, StoreRaw, CommitDetail, FinishRead,
         FinishSelect, Crash, dbVars

\* A process holds the lock of its run's row only after its query took it.
LEMMA LocksRow ==
  ASSUME CoreInv, NEW e \in Executors, Step(e), pc'[e] = "write"
  PROVE  \/ UNCHANGED <<pc, work, closing, run>>
         \/ /\ ~RunRowLocked(Key(e)) /\ Key(e)' = Key(e) /\ run' = run
            /\ SucceededIsComplete(Flushed(closing[e].loaded, closing[e].row, run[Key(e)]))
            /\ closing'[e].loaded = closing[e].loaded /\ closing'[e].row = closing[e].row
<1> USE DEF CoreInv, TypeInv, TypeOK
<1>1. CASE \E k \in Keys : FindRun(e, k)
  BY <1>1 DEF FindRun, dbVars
<1>2. CASE FinishSelect(e)
  <2>1. CASE Ends(e)
    BY <2>1 DEF Ends
  <2>2. CASE ~Ends(e)
    BY <1>2, <2>2 DEF FinishSelect, Key, Closing, dbVars
  <2>3. QED
    BY <2>1, <2>2
<1>3. QED
  BY <1>1, <1>2
     DEF Step, Execute, CreateRun, Fetch, CompleteCategory, FailCategory, RawConflict,
         RefuseDetail, NextKind, OpenDetail, StoreRaw, CommitDetail, FinishRead,
         FinishIncomplete, FinishSucceeded, Crash, Ends

\* The pipeline writes events and observations of rows that are there.
LEMMA ReferencedStep ==
  ASSUME CoreInv, SchemaInv, NEW e \in Executors, Step(e)
  PROVE  Referenced'
<1> USE DEF CoreInv, TypeInv, TypeOK
<1>1. /\ \A k \in Keys : run[k] # None => run'[k] # None
      /\ \A l \in Listings : listing[l] # None => listing'[l] # None
  BY RunStays, ListingStays
<1>2. ASSUME NEW x \in events' PROVE run'[x.run] # None /\ listing'[x.listing] # None
  <2>1. CASE x \in events
    BY <1>1, <2>1 DEF SchemaInv, Referenced, Event
  <2>2. CASE CommitDetail(e) /\ x \notin events
    <3>1. /\ txn[e].listing \in Listings /\ Key(e) \in Keys /\ run[Key(e)] # None
          /\ Observed(txn[e].detail) # None
      BY <2>2, ObservedType, NoneAssumption DEF CommitDetail, ControlInv, Controlled
    <3>2. x.run = Key(e) /\ x.listing = txn[e].listing
      BY <2>2 DEF CommitDetail
    <3>3. listing'[txn[e].listing] # None
      BY <2>2, <3>1 DEF CommitDetail, CurrentState
    <3>4. QED
      BY <1>1, <3>1, <3>2, <3>3
  <2>3. CASE FinishSucceeded(e) /\ x \notin events
    <3>1. Key(e) \in Keys /\ run[Key(e)] # None
      BY <2>3 DEF FinishSucceeded, ControlInv, Controlled
    <3>2. x.run = Key(e) /\ x.listing \in Dropped(e)
      BY <2>3 DEF FinishSucceeded, DropEvents
    <3>3. x.listing \in Listings /\ listing[x.listing] # None
      BY <3>2 DEF Dropped, Closing
    <3>4. QED
      BY <1>1, <3>1, <3>2, <3>3
  <2>4. QED
    BY <1>2, <2>1, <2>2, <2>3
       DEF Step, Execute, FindRun, CreateRun, Fetch, CompleteCategory, FailCategory,
           RawConflict, RefuseDetail, NextKind, OpenDetail, StoreRaw, FinishRead,
           FinishIncomplete, FinishSelect, Crash, dbVars
<1>3. ASSUME NEW k \in Keys, NEW l \in Listings, ObservedIn(k, l)'
      PROVE  run'[k] # None /\ listing'[l] # None
  <2>1. CASE ObservedIn(k, l)
    BY <1>1, <2>1 DEF SchemaInv, Referenced
  <2>2. CASE ~ObservedIn(k, l)
    <3>1. /\ CommitDetail(e) /\ pc[e] = "commit"
          /\ txn[e].listing \in Listings /\ txn[e].detail \in Detail
          /\ k = Key(e) /\ l = txn[e].listing
      BY <1>3, <2>2, ObservationWriter DEF ObservedIn
    <3>2. run[k] # None
      BY <3>1 DEF ControlInv, Controlled
    <3>3. Observed(txn[e].detail) # None
      BY <3>1, ObservedType, NoneAssumption
    <3>4. listing'[l] # None
      BY <3>1, <3>3 DEF CommitDetail, CurrentState
    <3>5. QED
      BY <1>1, <3>2, <3>4
  <2>3. QED
    BY <2>1, <2>2
<1>4. QED
  BY <1>2, <1>3 DEF Referenced

LEMMA SchemaStep ==
  ASSUME CoreInv, SchemaInv, [Next]_vars
  PROVE  SchemaInv'
<1> USE DEF CoreInv, TypeInv, TypeOK
<1>1. ASSUME NEW e \in Executors, Step(e) PROVE SchemaInv'
  <2>1. RowsComplete'
    BY <1>1, RunWriters DEF RowsComplete, SucceededIsComplete
  <2>2. Referenced'
    BY <1>1, ReferencedStep
  <2>3. ASSUME NEW f \in Executors, f # e
        PROVE  /\ pc'[f] = pc[f] /\ closing'[f] = closing[f] /\ Key(f)' = Key(f)
               /\ pc[f] = "write" => run'[Key(f)] = run[Key(f)]
    <3>1. pc'[f] = pc[f] /\ closing'[f] = closing[f] /\ Key(f)' = Key(f)
      BY <1>1, <2>3, Frame DEF Key
    <3>2. pc[f] = "write" => Key(f) \in Keys
      BY <2>3 DEF ControlInv, Controlled
    <3>3. QED
      BY <1>1, <2>3, <3>1, <3>2, RunWriters
  <2>4. ASSUME NEW f \in Executors, f # e PROVE Checked(f)'
    BY <2>3, <2>4 DEF SchemaInv, Checked
  <2>5. Checked(e)'
    BY <1>1, LocksRow DEF SchemaInv, Checked, Key
  <2>6. ASSUME NEW f \in Executors, f # e, pc'[f] = "write", pc'[e] = "write"
        PROVE  Key(e)' # Key(f)'
    <3>1. pc[f] = "write" /\ Key(f)' = Key(f)
      BY <2>3, <2>6
    <3>2. CASE UNCHANGED <<pc, work>>
      BY <2>6, <3>1, <3>2 DEF SchemaInv, OneWriter, Key
    <3>3. CASE ~RunRowLocked(Key(e)) /\ Key(e)' = Key(e)
      BY <3>1, <3>3 DEF RunRowLocked
    <3>4. QED
      BY <1>1, <2>6, <3>2, <3>3, LocksRow
  <2>7. OneWriter'
    <3>1. ASSUME NEW f \in Executors, NEW g \in Executors, f # g, f # e, g # e,
                 pc'[f] = "write", pc'[g] = "write"
          PROVE  Key(f)' # Key(g)'
      BY <2>3, <3>1 DEF SchemaInv, OneWriter
    <3>2. QED
      BY <2>6, <3>1 DEF OneWriter
  <2>8. QED
    BY <2>1, <2>2, <2>4, <2>5, <2>7 DEF SchemaInv
<1>2. CASE UNCHANGED vars
  BY <1>2 DEF vars, SchemaInv, RowsComplete, Referenced, OneWriter, Checked, ObservedIn, Key
<1>3. QED
  BY <1>1, <1>2 DEF Next, Step

\* A handler writes a new row, or a failure; a locked row it leaves alone.
LEMMA TriggerRow ==
  ASSUME SystemInv, NEW c \in Handlers,
         Handle(c) \/ HandlerLost(c) \/ \E k \in ManualKeys : Reserve(c, k)
  PROVE  \/ UNCHANGED run
         \/ \E k \in ManualKeys :
              \/ run[k] = None /\ run' = [run EXCEPT ![k] = NewRun]
              \/ /\ run[k] \in Run /\ ~RunRowLocked(k)
                 /\ run' = [run EXCEPT ![k] = [run[k] EXCEPT !.status = "failed",
                                                !.error_code = "manual_trigger_failed"]]
<1>1. handler[c].at # "idle" => HandlerKey(c) \in ManualKeys
  BY DEF SystemInv, ReservationInv, TriggerTypes, HandlerKey
<1>2. CASE Insert(c)
  BY <1>1, <1>2 DEF Insert
<1>3. CASE MarkFailed(c)
  <2>1. HandlerKey(c) \in ManualKeys /\ run[HandlerKey(c)] # None
    BY <1>1, <1>3 DEF MarkFailed, SystemInv, ReservationInv, OneToken, Task, HandlerKey
  <2>2. run[HandlerKey(c)] \in Run
    BY <2>1, ManualKeysAssumption DEF SystemInv, CoreInv, TypeInv, TypeOK
  <2>3. /\ ~RunRowLocked(HandlerKey(c))
        /\ run' = [run EXCEPT ![HandlerKey(c)] =
                      [run[HandlerKey(c)] EXCEPT !.status = "failed",
                                                 !.error_code = "manual_trigger_failed"]]
    BY <1>3 DEF MarkFailed
  <2>4. QED
    BY <2>1, <2>2, <2>3
<1>4. QED
  BY <1>2, <1>3
     DEF Handle, HandlerLost, Reserve, SendRun, TriggerReturns, TriggerRaises, CheckRun, vars

\* ... and no table or process but the run rows.
LEMMA TriggerLeaves ==
  ASSUME NEW c \in Handlers,
         Handle(c) \/ HandlerLost(c) \/ \E k \in ManualKeys : Reserve(c, k)
  PROVE  UNCHANGED <<listing, observation, events, raw, localVars, executions>>
BY DEF Handle, Insert, SendRun, TriggerReturns, TriggerRaises, CheckRun, MarkFailed,
       HandlerLost, Reserve, vars, localVars

LEMMA SchemaTrigger ==
  ASSUME SystemInv, SchemaInv, NEW c \in Handlers,
         Handle(c) \/ HandlerLost(c) \/ \E k \in ManualKeys : Reserve(c, k)
  PROVE  SchemaInv'
<1>1. UNCHANGED <<listing, observation, events, pc, work, closing>>
  BY TriggerLeaves DEF localVars
<1>2. run \in [Keys -> Run \cup {None}] /\ ManualKeys \subseteq Keys
  BY ManualKeysAssumption DEF SystemInv, CoreInv, TypeInv, TypeOK
<1>3. \A e \in Executors : pc[e] = "write" => Key(e) \in Keys /\ run[Key(e)] # None
  BY DEF SystemInv, CoreInv, ControlInv, Controlled
<1>4. /\ \A k \in Keys : run'[k] # None => SucceededIsComplete(run'[k])
      /\ \A k \in Keys : run[k] # None => run'[k] # None
      /\ \A e \in Executors : pc[e] = "write" => run'[Key(e)] = run[Key(e)]
  <2>1. CASE UNCHANGED run
    BY <2>1 DEF SchemaInv, RowsComplete
  <2>2. CASE \E k \in ManualKeys : run[k] = None /\ run' = [run EXCEPT ![k] = NewRun]
    <3>1. SucceededIsComplete(NewRun) /\ NewRun # None
      BY NewRunType, NoneIsNoRow DEF SucceededIsComplete, NewRun
    <3>2. QED
      BY <1>2, <1>3, <2>2, <3>1 DEF SchemaInv, RowsComplete
  <2>3. CASE \E k \in ManualKeys :
               /\ run[k] \in Run /\ ~RunRowLocked(k)
               /\ run' = [run EXCEPT ![k] = [run[k] EXCEPT !.status = "failed",
                                               !.error_code = "manual_trigger_failed"]]
    <3>1. PICK k \in ManualKeys :
            /\ run[k] \in Run /\ ~RunRowLocked(k)
            /\ run' = [run EXCEPT ![k] = [run[k] EXCEPT !.status = "failed",
                                            !.error_code = "manual_trigger_failed"]]
      BY <2>3
    <3>2. PICK marked : marked = [run[k] EXCEPT !.status = "failed",
                                    !.error_code = "manual_trigger_failed"]
      OBVIOUS
    <3>3. marked \in Run /\ marked.status = "failed"
      BY <3>1, <3>2 DEF Run, Statuses
    <3>4. SucceededIsComplete(marked) /\ marked # None
      BY <3>3, NoneIsNoRow DEF SucceededIsComplete
    <3>5. run' = [run EXCEPT ![k] = marked]
      BY <3>1, <3>2
    <3>6. \A e \in Executors : pc[e] = "write" => Key(e) # k
      BY <3>1 DEF RunRowLocked
    <3>7. QED
      BY <1>2, <3>4, <3>5, <3>6 DEF SchemaInv, RowsComplete
  <2>4. QED
    BY <2>1, <2>2, <2>3, TriggerRow
<1>5. Referenced'
  <2>1. \A x \in events : x.run \in Keys
    BY DEF SystemInv, CoreInv, TypeInv, TypeOK, Event
  <2>2. QED
    BY <1>1, <1>4, <2>1 DEF SchemaInv, Referenced, ObservedIn
<1>6. ASSUME NEW e \in Executors PROVE Checked(e)'
  BY <1>1, <1>4 DEF SchemaInv, Checked, Key
<1>7. OneWriter'
  BY <1>1 DEF SchemaInv, OneWriter, Key
<1>8. QED
  BY <1>4, <1>5, <1>6, <1>7 DEF SchemaInv, RowsComplete

\* A step of the system is the pipeline's, one the pipeline does not notice, or
\* a handler's.
LEMMA SystemCases ==
  ASSUME [SystemNext]_systemVars
  PROVE  \/ [Next]_vars /\ requests' = requests
         \/ \E c \in Handlers : Handle(c) \/ HandlerLost(c) \/ \E k \in ManualKeys : Reserve(c, k)
<1>1. ASSUME NEW k \in ManualKeys, Deliver(k) PROVE [Next]_vars /\ requests' = requests
  BY <1>1, ManualKeysAssumption DEF Deliver, Accept, Lose, StartExecution, Next
<1>2. ASSUME NEW e \in Executors, UNCHANGED apiVars,
             Execute(e) \/ Crash(e) \/ \E k \in Keys \ ManualKeys : FindRun(e, k)
      PROVE  [Next]_vars /\ requests' = requests
  BY <1>2 DEF Next, apiVars
<1>3. CASE UNCHANGED systemVars
  BY <1>3 DEF systemVars, apiVars
<1>4. QED
  BY <1>1, <1>2, <1>3 DEF SystemNext, SteadyNext, Job

RequestsInv == requests \in 0..MaxRequests

LEMMA RequestsStep == RequestsInv /\ [SystemNext]_systemVars => RequestsInv'
<1> SUFFICES ASSUME RequestsInv, [SystemNext]_systemVars PROVE RequestsInv'
  OBVIOUS
<1>1. ASSUME NEW c \in Handlers, Handle(c) \/ HandlerLost(c) \/ \E k \in ManualKeys : Reserve(c, k)
      PROVE  RequestsInv'
  BY <1>1, MaxRequestsAssumption
     DEF RequestsInv, Handle, Insert, SendRun, TriggerReturns, TriggerRaises, CheckRun,
         MarkFailed, HandlerLost, Reserve
<1>2. QED
  BY <1>1, SystemCases DEF RequestsInv

LEMMA SchemaInit == SystemInit => SchemaInv /\ RequestsInv
BY MaxRequestsAssumption
   DEF SystemInit, Init, SchemaInv, RowsComplete, Referenced, OneWriter, Checked,
       ObservedIn, RequestsInv

LEMMA SchemaInvariant == SystemSpec => [](SchemaInv /\ RequestsInv)
<1>1. SystemInv /\ SchemaInv /\ [SystemNext]_systemVars => SchemaInv'
  BY SystemCases, SchemaStep, SchemaTrigger DEF SystemInv
<1>2. QED
  BY <1>1, SchemaInit, RequestsStep, SystemInvariant, PTL DEF SystemSpec

\* Whatever handlers and jobs flush in whatever order, also to runs they share,
\* the committed rows meet the checks and foreign keys of the migrated schema.
THEOREM SystemTypes == SystemSpec => []SystemTypeOK
<1>1. SystemInv /\ SchemaInv /\ RequestsInv => SystemTypeOK
  <2> SUFFICES ASSUME SystemInv, SchemaInv, RequestsInv PROVE SystemTypeOK
    OBVIOUS
  <2>1. TypeOK
    BY DEF SystemInv, CoreInv, TypeInv
  <2>2. ASSUME NEW k \in Keys, run[k] # None PROVE Schema!RunRow(run[k])
    <3>1. run[k] \in Run /\ SucceededIsComplete(run[k])
      BY <2>1, <2>2 DEF TypeOK, SchemaInv, RowsComplete
    <3>2. QED
      BY <3>1 DEF Schema!RunRow, Run, Statuses, SucceededIsComplete
  <2>3. Schema!EventRows(events, run, listing)
    BY <2>1 DEF Schema!EventRows, TypeOK, Event, EventTypes, SchemaInv, Referenced
  <2>4. Schema!ObservationRows(observation, run, listing)
    BY <2>1 DEF Schema!ObservationRows, Schema!NonNegative, TypeOK, Detail, Price, SchemaInv,
                Referenced, ObservedIn
  <2>5. QED
    BY <2>1, <2>2, <2>3, <2>4 DEF SystemTypeOK, SystemInv, ReservationInv, TriggerTypes, RequestsInv
<1>2. QED
  BY <1>1, SystemInvariant, SchemaInvariant, PTL

-----------------------------------------------------------------------------
(* What a process and the trigger do to one run *)

\* Of the scheduled keys every process has its own; the manual ones are kept
\* apart by their reservation.
ScheduledKeysAreOwn ==
    \A e, f \in Executors : e # f => KeysOf[e] \cap KeysOf[f] \subseteq ManualKeys

Undropped(k) == \A x \in events : x.type = "deactivated" => x.run # k

\* While a process executes a run, its row is undecided: the only thing that may
\* have happened to it is the mark of a trigger that gave up.
Executing(e) ==
    /\ pc[e] # "idle" => Key(e) \in KeysOf[e]
    /\ pc[e] \notin {"idle", "create"} =>
        /\ run[Key(e)].status \in {"running", "failed"}
        /\ run[Key(e)].deactivated_count = 0
        /\ Undropped(Key(e))

\* The mark changes two columns, so what _finish_run computed from the row it
\* loaded is still true of the others.
Marked(loaded, current) ==
    current = [loaded EXCEPT !.status = current.status, !.error_code = current.error_code]

Computed(e) ==
    pc[e] \in {"flush", "select", "write"} =>
        /\ Marked(closing[e].loaded, run[Key(e)])
        /\ closing[e].loaded.status \in {"running", "failed"}
        /\ closing[e].row = FinalRow(e, closing[e].loaded)
        /\ pc[e] = "flush" <=> closing[e].row.status # "succeeded"
        /\ pc[e] = "write" => /\ SucceededIsComplete(closing[e].row)
                              /\ \A l \in closing[e].missing : ~ObservedIn(Key(e), l)

Unfinished ==
    \A k \in Keys : run[k] # None /\ run[k].status = "running" =>
        run[k].deactivated_count = 0 /\ Undropped(k)

TruthInv ==
    /\ Unfinished /\ SuccessTellsTheTruth /\ NeverDropsWhatItSaw
    /\ \A e \in Executors : Executing(e) /\ Computed(e)

LEMMA TruthInit == SystemInit => TruthInv
BY DEF SystemInit, Init, TruthInv, Unfinished, SuccessTellsTheTruth, NeverDropsWhatItSaw,
       Executing, Computed

\* No two processes execute one run.
LEMMA SoleProcess ==
  ASSUME ScheduledKeysAreOwn, SystemInv, TruthInv, NEW e \in Executors, NEW f \in Executors,
         e # f, pc[e] # "idle", pc[f] # "idle"
  PROVE  Key(e) # Key(f)
<1>1. CASE Key(e) \in ManualKeys
  BY <1>1 DEF SystemInv, ReservationInv, OneProcess
<1>2. CASE Key(e) \notin ManualKeys
  BY <1>2 DEF ScheduledKeysAreOwn, TruthInv, Executing
<1>3. QED
  BY <1>1, <1>2

\* What a result is computed from: a run's observations and events.
LEMMA SameComputation ==
  ASSUME NEW e \in Executors, work'[e] = work[e], closing'[e] = closing[e],
         observation'[Key(e)] = observation[Key(e)],
         events \subseteq events', \A x \in events' : x \notin events => x.run # Key(e)
  PROVE  FinalRow(e, closing[e].loaded)' = FinalRow(e, closing[e].loaded)
<1>1. Key(e)' = Key(e)
  BY DEF Key
<1>2. FoundCount(e)' = FoundCount(e)
  BY <1>1 DEF FoundCount, ObservedIn
<1>3. \A T : EventsOf(Key(e), T)' = EventsOf(Key(e), T)
  BY <1>1 DEF EventsOf
<1>4. QED
  BY <1>1, <1>2, <1>3 DEF FinalRow

LEMMA MarkedAgain ==
  ASSUME NEW loaded \in Run, NEW current \in Run, Marked(loaded, current), NEW new,
         new = [current EXCEPT !.status = new.status, !.error_code = new.error_code]
  PROVE  Marked(loaded, new)
BY DEF Marked, Run

\* Steps that leave a process, its observations and its events alone, and its
\* row but for a mark, leave what it relies on.
LEMMA Undisturbed ==
  ASSUME SystemInv, TruthInv, NEW e \in Executors,
         pc'[e] = pc[e], work'[e] = work[e], closing'[e] = closing[e],
         pc[e] # "idle" =>
            /\ observation'[Key(e)] = observation[Key(e)]
            /\ events \subseteq events' /\ \A x \in events' : x \notin events => x.run # Key(e),
         pc[e] \notin {"idle", "create"} =>
            \/ run'[Key(e)] = run[Key(e)]
            \/ run'[Key(e)] = [run[Key(e)] EXCEPT !.status = "failed",
                                                  !.error_code = "manual_trigger_failed"]
  PROVE  Executing(e)' /\ Computed(e)'
<1> DEFINE k == Key(e)
<1>1. Key(e)' = Key(e)
  BY DEF Key
<1>2. Executing(e) /\ Computed(e) /\ Controlled(e)
  BY DEF TruthInv, SystemInv, CoreInv, ControlInv
<1>3. CASE pc[e] \in {"idle", "create"}
  BY <1>1, <1>2, <1>3 DEF Executing, Computed
<1>4. CASE pc[e] \notin {"idle", "create"}
  <2>1. k \in Keys /\ run[k] \in Run
    BY <1>2, <1>4 DEF Controlled, SystemInv, CoreInv, TypeInv, TypeOK
  <2>2. /\ run'[k].status \in {run[k].status, "failed"}
        /\ run'[k].deactivated_count = run[k].deactivated_count
        /\ run'[k] = [run[k] EXCEPT !.status = run'[k].status, !.error_code = run'[k].error_code]
    BY <1>4, <2>1 DEF Run
  <2>3. Executing(e)'
    BY <1>1, <1>2, <1>4, <2>2 DEF Executing, Undropped
  <2>4. ASSUME pc[e] \in {"flush", "select", "write"} PROVE Computed(e)'
    <3>1. FinalRow(e, closing[e].loaded)' = FinalRow(e, closing[e].loaded)
      BY <1>4, SameComputation
    <3>2. closing[e].loaded \in Run /\ Marked(closing[e].loaded, run[k])
      BY <1>2, <2>4 DEF Controlled, Computed
    <3>3. Marked(closing[e].loaded, run[k])'
      <4>1. Marked(closing[e].loaded, run'[k])
        BY <2>1, <2>2, <3>2, MarkedAgain
      <4>2. QED
        BY <1>1, <4>1 DEF Marked
    <3>4. \A l : ObservedIn(k, l)' <=> ObservedIn(k, l)
      BY <1>1, <1>4 DEF ObservedIn
    <3>5. /\ closing[e].loaded.status \in {"running", "failed"}
          /\ closing[e].row = FinalRow(e, closing[e].loaded)
          /\ pc[e] = "flush" <=> closing[e].row.status # "succeeded"
          /\ pc[e] = "write" => /\ SucceededIsComplete(closing[e].row)
                                /\ \A l \in closing[e].missing : ~ObservedIn(k, l)
      BY <1>2, <2>4 DEF Computed
    <3>6. closing'[e].row = FinalRow(e, closing[e].loaded)'
      BY <3>1, <3>5
    <3>7. SucceededIsComplete(closing[e].row)' <=> SucceededIsComplete(closing[e].row)
      BY DEF SucceededIsComplete
    <3>8. QED
      BY <1>1, <3>3, <3>4, <3>5, <3>6, <3>7 DEF Computed
  <2>5. QED
    BY <2>3, <2>4 DEF Computed
<1>5. QED
  BY <1>3, <1>4

LEMMA OthersExecute ==
  ASSUME ScheduledKeysAreOwn, SystemInv, TruthInv,
         NEW e \in Executors, Step(e), NEW f \in Executors, f # e
  PROVE  Executing(f)' /\ Computed(f)'
<1>1. TypeInv /\ ControlInv
  BY DEF SystemInv, CoreInv
<1>2. pc'[f] = pc[f] /\ work'[f] = work[f] /\ closing'[f] = closing[f]
  BY <1>1, Frame
<1>3. ASSUME pc[f] # "idle"
      PROVE  /\ run'[Key(f)] = run[Key(f)] /\ observation'[Key(f)] = observation[Key(f)]
             /\ events \subseteq events' /\ \A x \in events' : x \notin events => x.run # Key(f)
  <2>1. Key(f) \in Keys
    BY <1>1, <1>3 DEF ControlInv, Controlled
  <2>2. CASE pc[e] = "idle"
    BY <1>1, <2>2, OnlyOwnRun DEF dbVars
  <2>3. CASE pc[e] # "idle"
    <3>1. Key(e) # Key(f)
      BY <1>3, <2>3, SoleProcess
    <3>2. QED
      BY <1>1, <2>1, <3>1, OnlyOwnRun
  <2>4. QED
    BY <2>2, <2>3
<1>4. QED
  BY <1>2, <1>3, Undisturbed

\* What is written of a marked row is what was computed, the mark set aside.
LEMMA FlushedMarked ==
  ASSUME NEW loaded \in Run, NEW new \in Run, NEW current \in Run, Marked(loaded, current)
  PROVE  LET row == Flushed(loaded, new, current) IN
         /\ row.status = Column(loaded.status, new.status, current.status)
         /\ row.chata_complete = new.chata_complete
         /\ row.chalupa_complete = new.chalupa_complete
         /\ row.found_count = new.found_count
         /\ row.new_count = new.new_count
         /\ row.deactivated_count = new.deactivated_count
BY DEF Flushed, Column, Run, Marked

\* What an execution relies on still holds after its own step.
LEMMA OwnExecutes ==
  ASSUME SystemInv, SchemaInv, TruthInv, NEW e \in Executors, Step(e)
  PROVE  Executing(e)' /\ Computed(e)'
<1> USE DEF SystemInv, CoreInv, TypeInv, TypeOK
<1>0. Executing(e) /\ Computed(e) /\ Controlled(e)
  BY DEF TruthInv, ControlInv
<1>1. ASSUME Ends(e) PROVE Executing(e)' /\ Computed(e)'
  BY <1>1 DEF Ends, Executing, Computed
<1>2. ASSUME pc[e] \notin {"idle", "create"}, pc'[e] \in {"fetch", "open", "store", "commit", "finish"},
             Key(e)' = Key(e), UNCHANGED <<run, events>>
      PROVE  Executing(e)' /\ Computed(e)'
  BY <1>0, <1>2 DEF Executing, Computed, Undropped
<1>3. CASE \E k \in Keys : FindRun(e, k)
  <2>1. PICK k \in Keys : FindRun(e, k)
    BY <1>3
  <2>2. CASE Finished(k)
    BY <1>0, <2>1, <2>2 DEF FindRun, Executing, Computed, dbVars
  <2>3. CASE ~Finished(k)
    <3>1. /\ Key(e)' = k /\ run' = run /\ events' = events /\ k \in KeysOf[e]
          /\ pc'[e] = IF run[k] = None THEN "create" ELSE "fetch"
      BY <2>1, <2>3 DEF FindRun, Key, Work, dbVars
    <3>2. run[k] # None => /\ run[k].status = "running"
                           /\ run[k].deactivated_count = 0 /\ Undropped(k)
      BY <2>3 DEF Finished, TruthInv, Unfinished
    <3>3. QED
      BY <3>1, <3>2 DEF Executing, Computed, Undropped
  <2>4. QED
    BY <2>2, <2>3
<1>4. CASE CreateRun(e)
  <2>1. CASE Ends(e)
    BY <1>1, <2>1
  <2>2. CASE /\ run[Key(e)] = None /\ run' = [run EXCEPT ![Key(e)] = NewRun]
             /\ pc' = [pc EXCEPT ![e] = "fetch"] /\ UNCHANGED work
    <3>1. Key(e) \in Keys /\ Key(e) \in KeysOf[e]
      BY <1>0, <1>4 DEF CreateRun, Executing, Controlled
    <3>2. Undropped(Key(e))
      BY <2>2 DEF SchemaInv, Referenced, Undropped
    <3>3. /\ run'[Key(e)].status = "running" /\ run'[Key(e)].deactivated_count = 0
          /\ Key(e)' = Key(e) /\ pc'[e] = "fetch" /\ events' = events
      BY <1>4, <2>2, <3>1 DEF CreateRun, NewRun, Key
    <3>4. QED
      BY <3>1, <3>2, <3>3 DEF Executing, Computed, Undropped
  <2>3. QED
    BY <1>4, <2>1, <2>2 DEF CreateRun
<1>5. CASE \E l \in Listings, d \in Details : Fetch(e, l, d)
  BY <1>2, <1>5 DEF Fetch, Key, Work, dbVars
<1>6. CASE CompleteCategory(e) \/ FailCategory(e) \/ RawConflict(e) \/ RefuseDetail(e)
  <2>1. PICK completed, failed : NextKind(e, completed, failed)
    BY <1>6 DEF CompleteCategory, FailCategory, RawConflict, RefuseDetail
  <2>2. /\ UNCHANGED <<run, events>> /\ pc'[e] \in {"fetch", "finish"} /\ Key(e)' = Key(e)
    BY <2>1 DEF NextKind, Key, Work, dbVars
  <2>3. pc[e] \notin {"idle", "create"}
    BY <1>6 DEF CompleteCategory, FailCategory, RawConflict, RefuseDetail
  <2>4. QED
    BY <1>2, <2>2, <2>3
<1>7. CASE OpenDetail(e) \/ StoreRaw(e)
  <2>1. /\ UNCHANGED <<run, events>> /\ pc'[e] \in {"fetch", "store", "commit"} /\ Key(e)' = Key(e)
        /\ pc[e] \notin {"idle", "create"}
    BY <1>7 DEF OpenDetail, StoreRaw, Key, dbVars
  <2>2. QED
    BY <1>2, <2>1
<1>8. CASE CommitDetail(e)
  <2>1. /\ UNCHANGED run /\ pc'[e] = "fetch" /\ Key(e)' = Key(e) /\ pc[e] = "commit"
    BY <1>8 DEF CommitDetail, Key
  <2>2. \A x \in events' : x.type = "deactivated" => x \in events
    BY <1>8 DEF CommitDetail, ObservationEvents
  <2>3. QED
    BY <1>0, <2>1, <2>2 DEF Executing, Computed, Undropped
<1>9. CASE FinishRead(e)
  <2>1. /\ run' = run /\ work' = work /\ Key(e)' = Key(e)
        /\ closing'[e].loaded = run[Key(e)]
        /\ closing'[e].row = FinalRow(e, run[Key(e)])
        /\ pc'[e] = IF FinalRow(e, run[Key(e)]).status = "succeeded" THEN "select" ELSE "flush"
        /\ UNCHANGED <<observation, events>> /\ pc[e] = "finish"
    BY <1>9 DEF FinishRead, Key, NoClosing, dbVars
  <2>2. FinalRow(e, closing[e].loaded)' = FinalRow(e, run[Key(e)])
    BY <2>1 DEF FinalRow, FoundCount, ObservedIn, EventsOf, Key
  <2>3. run[Key(e)] \in Run
    BY <1>0, <2>1 DEF Controlled
  <2>4. Marked(run[Key(e)], run[Key(e)])
    BY <2>3 DEF Marked, Run
  <2>5. Marked(closing[e].loaded, run[Key(e)])'
    BY <2>1, <2>4 DEF Marked
  <2>6. Executing(e)'
    BY <1>0, <2>1 DEF Executing, Undropped
  <2>7. run[Key(e)].status \in {"running", "failed"}
    BY <1>0, <2>1 DEF Executing
  <2>8. QED
    BY <2>1, <2>2, <2>5, <2>6, <2>7 DEF Computed
<1>10. CASE FinishSelect(e)
  <2>1. CASE Ends(e)
    BY <1>1, <2>1
  <2>2. CASE /\ SucceededIsComplete(Flushed(closing[e].loaded, closing[e].row, run[Key(e)]))
             /\ pc' = [pc EXCEPT ![e] = "write"]
             /\ closing' = [closing EXCEPT ![e].missing = Missing(Key(e))]
             /\ UNCHANGED <<work, txn>>
    <3>1. /\ pc[e] = "select" /\ pc'[e] = "write" /\ work' = work /\ Key(e)' = Key(e)
          /\ UNCHANGED <<run, observation, events>>
          /\ closing'[e].loaded = closing[e].loaded
          /\ closing'[e].row = closing[e].row
          /\ closing'[e].missing = Missing(Key(e))
      BY <1>10, <2>2 DEF FinishSelect, Key, Closing, dbVars
    <3>2. FinalRow(e, closing[e].loaded)' = FinalRow(e, closing[e].loaded)
      BY <3>1 DEF FinalRow, FoundCount, ObservedIn, EventsOf, Key
    <3>3. /\ Marked(closing[e].loaded, run[Key(e)])
          /\ closing[e].loaded.status \in {"running", "failed"}
          /\ closing[e].row = FinalRow(e, closing[e].loaded)
          /\ closing[e].row.status = "succeeded"
          /\ closing[e].loaded \in Run /\ closing[e].row \in Run /\ run[Key(e)] \in Run
      BY <1>0, <3>1 DEF Computed, Controlled
    <3>4. SucceededIsComplete(closing[e].row)
      BY <2>2, <3>3, FlushedMarked DEF SucceededIsComplete, Column
    <3>5. \A l \in Missing(Key(e)) : ~ObservedIn(Key(e), l)'
      BY <3>1 DEF Missing, ObservedIn
    <3>6. Executing(e)'
      BY <1>0, <3>1 DEF Executing, Undropped
    <3>7. Marked(closing[e].loaded, run[Key(e)])'
      BY <3>1, <3>3 DEF Marked
    <3>8. SucceededIsComplete(closing[e].row)'
      BY <3>1, <3>4 DEF SucceededIsComplete
    <3>9. QED
      BY <3>1, <3>2, <3>3, <3>5, <3>6, <3>7, <3>8 DEF Computed
  <2>3. QED
    BY <1>10, <2>1, <2>2 DEF FinishSelect
<1>11. CASE FinishIncomplete(e) \/ FinishSucceeded(e) \/ Crash(e)
  BY <1>1, <1>11 DEF FinishIncomplete, FinishSucceeded, Crash
<1>12. QED
  BY <1>3, <1>4, <1>5, <1>6, <1>7, <1>8, <1>9, <1>10, <1>11 DEF Step, Execute

\* One run's row tells the truth, if it says it succeeded.
TellsTruth(k) ==
    run[k] # None /\ run[k].status = "succeeded" =>
        /\ run[k].chata_complete /\ run[k].chalupa_complete
        /\ run[k].found_count = Cardinality({l \in Listings : ObservedIn(k, l)})
        /\ run[k].new_count = Cardinality(EventsOf(k, {"created"}))
        /\ run[k].deactivated_count = Cardinality(EventsOf(k, {"deactivated"}))

LEMMA OtherRunsTell ==
  ASSUME CoreInv, SuccessTellsTheTruth, NEW e \in Executors, Step(e),
         NEW k \in Keys, k # Key(e)
  PROVE  TellsTruth(k)'
<1>1. run'[k] = run[k] /\ observation'[k] = observation[k]
  BY OnlyOwnRun DEF CoreInv
<1>2. \A T : EventsOf(k, T)' = EventsOf(k, T)
  BY OnlyOwnRun DEF EventsOf, CoreInv
<1>3. \A l : ObservedIn(k, l)' <=> ObservedIn(k, l)
  BY <1>1 DEF ObservedIn
<1>4. QED
  BY <1>1, <1>2, <1>3 DEF TellsTruth, SuccessTellsTheTruth

LEMMA OtherRunsUnfinished ==
  ASSUME CoreInv, Unfinished, NEW e \in Executors, Step(e), NEW k \in Keys, k # Key(e),
         run'[k] # None, run'[k].status = "running"
  PROVE  run'[k].deactivated_count = 0 /\ Undropped(k)'
<1>1. run'[k] = run[k] /\ \A x \in events' : x \notin events => x.run = Key(e)
  BY OnlyOwnRun DEF CoreInv
<1>2. QED
  BY <1>1 DEF Unfinished, Undropped

LEMMA SameRowsTell ==
  ASSUME Unfinished, SuccessTellsTheTruth, NeverDropsWhatItSaw,
         UNCHANGED <<run, observation, events>>
  PROVE  Unfinished' /\ SuccessTellsTheTruth' /\ NeverDropsWhatItSaw'
<1>1. Unfinished' /\ NeverDropsWhatItSaw'
  BY DEF Unfinished, Undropped, NeverDropsWhatItSaw, ObservedIn
<1>2. ASSUME NEW k \in Keys PROVE TellsTruth(k)'
  <2>1. \A T : EventsOf(k, T)' = EventsOf(k, T)
    BY DEF EventsOf
  <2>2. \A l : ObservedIn(k, l)' <=> ObservedIn(k, l)
    BY DEF ObservedIn
  <2>3. QED
    BY <2>1, <2>2 DEF TellsTruth, SuccessTellsTheTruth
<1>3. QED
  BY <1>1, <1>2 DEF SuccessTellsTheTruth, TellsTruth

\* The result written by _finish_run is the truth, marked row or not.
LEMMA TruthRecorded ==
  ASSUME SystemInv, SchemaInv, TruthInv, NEW e \in Executors, Step(e)
  PROVE  Unfinished' /\ SuccessTellsTheTruth' /\ NeverDropsWhatItSaw'
<1> PICK k : k = Key(e)
  OBVIOUS
<1> USE DEF SystemInv, CoreInv, TypeInv, TypeOK
<1>0. /\ Executing(e) /\ Computed(e) /\ Controlled(e)
      /\ Unfinished /\ SuccessTellsTheTruth /\ NeverDropsWhatItSaw
  BY DEF TruthInv, ControlInv
<1>1. ASSUME /\ TellsTruth(k)'
             /\ run'[k] # None /\ run'[k].status = "running" =>
                   run'[k].deactivated_count = 0 /\ Undropped(k)'
      PROVE  Unfinished' /\ SuccessTellsTheTruth'
  <2>1. \A j \in Keys : TellsTruth(j)'
    BY <1>0, <1>1, OtherRunsTell
  <2>2. \A j \in Keys : run'[j] # None /\ run'[j].status = "running" =>
                          run'[j].deactivated_count = 0 /\ Undropped(j)'
    BY <1>0, <1>1, OtherRunsUnfinished
  <2>3. QED
    BY <2>1, <2>2 DEF Unfinished, SuccessTellsTheTruth, TellsTruth
<1>2. CASE CreateRun(e) /\ run[k] = None
  <2>1. /\ k \in Keys /\ run' = [run EXCEPT ![k] = NewRun]
        /\ UNCHANGED <<observation, events>>
    BY <1>0, <1>2 DEF CreateRun, Controlled
  <2>2. run'[k].status = "running" /\ run'[k].deactivated_count = 0
    BY <2>1 DEF NewRun
  <2>3. Undropped(k)'
    BY <1>2, <2>1 DEF SchemaInv, Referenced, Undropped
  <2>4. TellsTruth(k)'
    BY <2>2 DEF TellsTruth
  <2>5. NeverDropsWhatItSaw'
    BY <1>0, <2>1 DEF NeverDropsWhatItSaw, ObservedIn
  <2>6. QED
    BY <1>1, <2>2, <2>3, <2>4, <2>5
<1>3. CASE CommitDetail(e)
  <2>1. /\ k \in Keys /\ run[k].status \in {"running", "failed"} /\ UNCHANGED run
        /\ run[k].deactivated_count = 0 /\ Undropped(k)
    BY <1>0, <1>3 DEF CommitDetail, Executing, Controlled
  <2>2. \A x \in events' : x.type = "deactivated" => x \in events
    BY <1>3 DEF CommitDetail, ObservationEvents
  <2>3. \A j \in Keys : j # k => observation'[j] = observation[j]
    BY OnlyOwnRun
  <2>4. NeverDropsWhatItSaw'
    BY <1>0, <2>1, <2>2, <2>3 DEF NeverDropsWhatItSaw, ObservedIn, Event, Undropped
  <2>5. TellsTruth(k)'
    BY <2>1 DEF TellsTruth
  <2>6. Undropped(k)'
    BY <2>1, <2>2 DEF Undropped
  <2>7. QED
    BY <1>1, <2>1, <2>4, <2>5, <2>6
<1>4. CASE FinishIncomplete(e)
  <2>1. /\ k \in Keys /\ run[k] \in Run /\ run[k].status \in {"running", "failed"}
        /\ run[k].deactivated_count = 0 /\ Undropped(k)
        /\ closing[e].loaded \in Run /\ closing[e].row \in Run
        /\ closing[e].loaded.status \in {"running", "failed"}
        /\ Marked(closing[e].loaded, run[k])
        /\ closing[e].row = FinalRow(e, closing[e].loaded)
        /\ closing[e].row.status # "succeeded"
    BY <1>0, <1>4 DEF FinishIncomplete, Executing, Computed, Controlled
  <2>2. UNCHANGED <<observation, events>>
    BY <1>4 DEF FinishIncomplete
  <2>3. PICK row : row = Flushed(closing[e].loaded, closing[e].row, run[k])
    OBVIOUS
  <2>4. row.status = Column(closing[e].loaded.status, closing[e].row.status, run[k].status)
    BY <2>1, <2>3, FlushedMarked
  <2>5. row.deactivated_count = closing[e].row.deactivated_count
    BY <2>1, <2>3, FlushedMarked
  <2>6. closing[e].row.deactivated_count = closing[e].loaded.deactivated_count
    BY <2>1, FinalRowCounts
  <2>7. closing[e].loaded.deactivated_count = run[k].deactivated_count
    BY <2>1 DEF Marked, Run
  <2>8. row.status # "succeeded"
    BY <2>1, <2>4 DEF Column
  <2>9. run'[k] \in {row, run[k]}
    BY <1>4, <2>1, <2>3 DEF FinishIncomplete
  <2>10. TellsTruth(k)'
    BY <2>1, <2>8, <2>9 DEF TellsTruth
  <2>11. run'[k].deactivated_count = 0 /\ Undropped(k)'
    BY <2>1, <2>2, <2>5, <2>6, <2>7, <2>9 DEF Undropped
  <2>12. NeverDropsWhatItSaw'
    BY <1>0, <2>2 DEF NeverDropsWhatItSaw, ObservedIn
  <2>13. QED
    BY <1>1, <2>10, <2>11, <2>12
<1>5. CASE FinishSucceeded(e) /\ DropEvents(e) \cap events = {}
  <2> DEFINE row == [closing[e].row EXCEPT !.deactivated_count = Cardinality(Dropped(e))]
  <2>1. /\ k \in Keys /\ run[k] \in Run /\ run[k].status \in {"running", "failed"}
        /\ Undropped(k) /\ run[k] # None
        /\ closing[e].loaded \in Run /\ closing[e].row \in Run
        /\ closing[e].loaded.status \in {"running", "failed"}
        /\ Marked(closing[e].loaded, run[k])
        /\ closing[e].row = FinalRow(e, closing[e].loaded)
        /\ closing[e].row.status = "succeeded" /\ SucceededIsComplete(closing[e].row)
        /\ \A l \in closing[e].missing : ~ObservedIn(k, l)
    BY <1>0, <1>5 DEF FinishSucceeded, Executing, Computed, Controlled
  <2>2. row \in Run
    <3>1. Cardinality(Dropped(e)) \in Nat
      BY ListingCount DEF Dropped, Closing
    <3>2. QED
      BY <2>1, <3>1 DEF Run
  <2>3. /\ row.status = "succeeded" /\ row.chata_complete /\ row.chalupa_complete
        /\ row.deactivated_count = Cardinality(Dropped(e))
        /\ row.found_count = closing[e].row.found_count
        /\ row.new_count = closing[e].row.new_count
    BY <2>1 DEF Run, SucceededIsComplete
  <2>4. /\ UNCHANGED observation
        /\ \/ UNCHANGED <<run, events>> /\ DropEvents(e) \cap events # {}
           \/ /\ run' = [run EXCEPT ![k] = Flushed(closing[e].loaded, row, run[k])]
              /\ events' = events \cup DropEvents(e)
    BY <1>5 DEF FinishSucceeded
  <2> HIDE DEF row
  <2>5. /\ run'[k] = Flushed(closing[e].loaded, row, run[k])
        /\ events' = events \cup DropEvents(e)
    BY <1>5, <2>1, <2>4
  <2>6. /\ run'[k].status = "succeeded"
        /\ run'[k].chata_complete /\ run'[k].chalupa_complete
        /\ run'[k].found_count = closing[e].row.found_count
        /\ run'[k].new_count = closing[e].row.new_count
        /\ run'[k].deactivated_count = Cardinality(Dropped(e))
    BY <2>1, <2>2, <2>3, <2>5, FlushedMarked DEF Column
  <2>7. /\ EventsOf(k, {"deactivated"})' = DropEvents(e)
        /\ EventsOf(k, {"created"})' = EventsOf(k, {"created"})
    BY <2>1, <2>5 DEF EventsOf, DropEvents, Undropped
  <2>8. {l \in Listings : ObservedIn(k, l)}' = {l \in Listings : ObservedIn(k, l)}
    BY <2>4 DEF ObservedIn
  <2>9. /\ closing[e].row.found_count = Cardinality({l \in Listings : ObservedIn(k, l)})
        /\ closing[e].row.new_count = Cardinality(EventsOf(k, {"created"}))
    BY <2>1, FinalRowCounts
  <2>10. TellsTruth(k)'
    BY <2>6, <2>7, <2>8, <2>9, DropEventsCount DEF TellsTruth
  <2>11. NeverDropsWhatItSaw'
    <3>1. \A x \in DropEvents(e) : x.run = k /\ ~ObservedIn(x.run, x.listing)
      BY <2>1 DEF DropEvents, Dropped
    <3>2. \A j, l : ObservedIn(j, l)' <=> ObservedIn(j, l)
      BY <2>4 DEF ObservedIn
    <3>3. QED
      BY <1>0, <2>5, <3>1, <3>2 DEF NeverDropsWhatItSaw
  <2>12. QED
    BY <1>1, <2>6, <2>10, <2>11
<1>6. CASE UNCHANGED <<run, observation, events>>
  BY <1>0, <1>6, SameRowsTell
<1>7. QED
  BY <1>2, <1>3, <1>4, <1>5, <1>6
     DEF Step, Execute, FindRun, CreateRun, Fetch, CompleteCategory, FailCategory, RawConflict,
         RefuseDetail, NextKind, OpenDetail, StoreRaw, FinishRead, FinishSelect,
         FinishSucceeded, Crash, dbVars

\* A reservation and a late mark tell no lie about a run.
LEMMA TruthTrigger ==
  ASSUME SystemInv, SchemaInv, TruthInv, NEW c \in Handlers,
         Handle(c) \/ HandlerLost(c) \/ \E k \in ManualKeys : Reserve(c, k)
  PROVE  TruthInv'
<1>1. UNCHANGED <<observation, events, pc, work, closing>>
  BY TriggerLeaves DEF localVars
<1>2. run \in [Keys -> Run \cup {None}] /\ ManualKeys \subseteq Keys
  BY ManualKeysAssumption DEF SystemInv, CoreInv, TypeInv, TypeOK
<1>3. ASSUME NEW k \in Keys
      PROVE  \/ run'[k] = run[k]
             \/ run[k] = None /\ run'[k] = NewRun
             \/ /\ run[k] \in Run
                /\ run'[k] = [run[k] EXCEPT !.status = "failed",
                                            !.error_code = "manual_trigger_failed"]
  BY <1>2, TriggerRow
<1>4. ASSUME NEW k \in Keys, run'[k] # run[k]
      PROVE  run'[k].status = "failed" \/ (run[k] = None /\ run'[k] = NewRun)
  BY <1>3, <1>4 DEF Run
<1>5. ASSUME NEW e \in Executors PROVE Executing(e)' /\ Computed(e)'
  <2>1. pc[e] \notin {"idle", "create"} => Key(e) \in Keys /\ run[Key(e)] # None
    BY DEF SystemInv, CoreInv, ControlInv, Controlled
  <2>2. pc[e] \notin {"idle", "create"} =>
            \/ run'[Key(e)] = run[Key(e)]
            \/ run'[Key(e)] = [run[Key(e)] EXCEPT !.status = "failed",
                                                  !.error_code = "manual_trigger_failed"]
    BY <1>3, <2>1
  <2>3. QED
    BY <1>1, <2>2, Undisturbed
<1>6. Unfinished'
  <2>1. ASSUME NEW k \in Keys, run[k] = None PROVE Undropped(k)'
    BY <1>1, <2>1 DEF SchemaInv, Referenced, Undropped
  <2>2. \A k \in Keys : Undropped(k)' <=> Undropped(k)
    BY <1>1 DEF Undropped
  <2>3. ASSUME NEW k \in Keys, run'[k] # None, run'[k].status = "running"
        PROVE  run'[k].deactivated_count = 0 /\ Undropped(k)'
    <3>1. CASE run'[k] = run[k]
      BY <2>2, <2>3, <3>1 DEF TruthInv, Unfinished
    <3>2. CASE run[k] = None /\ run'[k] = NewRun
      BY <2>1, <3>2 DEF NewRun
    <3>3. QED
      BY <1>4, <2>3, <3>1, <3>2
  <2>4. QED
    BY <2>3 DEF Unfinished
<1>7. ASSUME NEW k \in Keys PROVE TellsTruth(k)'
  <2>1. \A T : EventsOf(k, T)' = EventsOf(k, T)
    BY <1>1 DEF EventsOf
  <2>2. \A l : ObservedIn(k, l)' <=> ObservedIn(k, l)
    BY <1>1 DEF ObservedIn
  <2>3. CASE run'[k] = run[k]
    BY <2>1, <2>2, <2>3 DEF TellsTruth, TruthInv, SuccessTellsTheTruth
  <2>4. CASE run'[k] # run[k]
    <3>1. run'[k].status # "succeeded"
      BY <1>4, <2>4 DEF NewRun
    <3>2. QED
      BY <3>1 DEF TellsTruth
  <2>5. QED
    BY <2>3, <2>4
<1>8. NeverDropsWhatItSaw'
  BY <1>1 DEF TruthInv, NeverDropsWhatItSaw, ObservedIn
<1>9. QED
  BY <1>5, <1>6, <1>7, <1>8 DEF TruthInv, SuccessTellsTheTruth, TellsTruth

LEMMA TruthStep ==
  ASSUME ScheduledKeysAreOwn, SystemInv, SchemaInv, TruthInv, [SystemNext]_systemVars
  PROVE  TruthInv'
<1>1. ASSUME NEW e \in Executors, Step(e) PROVE TruthInv'
  BY <1>1, OthersExecute, OwnExecutes, TruthRecorded DEF TruthInv
<1>2. CASE UNCHANGED vars
  <2>1. \A e \in Executors : Executing(e)' /\ Computed(e)'
    BY <1>2, Undisturbed DEF vars
  <2>2. QED
    BY <1>2, <2>1, SameRowsTell DEF vars, TruthInv
<1>3. QED
  BY <1>1, <1>2, SystemCases, TruthTrigger DEF Next, Step

LEMMA TruthInvariant ==
  ASSUME ScheduledKeysAreOwn
  PROVE  SystemSpec => []TruthInv
<1>1. SystemInv /\ SchemaInv /\ TruthInv /\ [SystemNext]_systemVars => TruthInv'
  BY TruthStep
<1>2. QED
  BY <1>1, TruthInit, SystemInvariant, SchemaInvariant, PTL DEF SystemSpec

\* A run that says it succeeded tells the truth, also when a trigger that gave up
\* wrote its failure into the row while the job was at work, as long as scheduled
\* runs have keys of their own.
THEOREM SuccessCorrect ==
  ASSUME ScheduledKeysAreOwn
  PROVE  SystemSpec => []SuccessTellsTheTruth
<1>1. TruthInv => SuccessTellsTheTruth
  BY DEF TruthInv
<1>2. QED
  BY <1>1, TruthInvariant, PTL

\* The trigger makes no run deactivate a listing it observed: the reservation
\* keeps a second process from adding to what the first one finished.
THEOREM SystemNeverDrops ==
  ASSUME ScheduledKeysAreOwn
  PROVE  SystemSpec => []NeverDropsWhatItSaw
<1>1. TruthInv => NeverDropsWhatItSaw
  BY DEF TruthInv
<1>2. QED
  BY <1>1, TruthInvariant, PTL
=============================================================================
