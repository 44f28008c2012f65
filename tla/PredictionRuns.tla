---------------------------- MODULE PredictionRuns ----------------------------
(***************************************************************************)
(* Route prediction: services/rag-api/src/prediction/.  A call of          *)
(* PredictionService.predict is a coroutine that hands each blocking step  *)
(* to a thread.  When the coroutine is cancelled (a streaming client has   *)
(* disconnected) it leaves the semaphore at once, but the thread it was    *)
(* waiting for runs on.  The vendored predictor is imported and the model  *)
(* loaded by the first calls, in those threads, under two locks.           *)
(*                                                                         *)
(* at[c] is where call c, or the thread it left behind, is; caller[c] what *)
(* its caller has got.  Call c writes the row of run c.                    *)
(***************************************************************************)
EXTENDS Naturals, Sequences, FiniteSets

CONSTANTS
    Calls,           \* the calls of predict
    Streams,         \* those made by run_prediction inside a streaming turn
    MaxConcurrency,  \* PREDICTION_MAX_CONCURRENCY, clamped to 1..4
    Requested,       \* PREDICTION_RETURN_SEQUENCES: routes asked for
    RawResults,      \* what the model may return: sequences of raw routes
    MaxFaults,       \* bound: database calls that raise
    MaxLoadFailures, \* bound: failed imports of the predictor and failed model loads
    MaxRestarts      \* bound: restarts of the process

ASSUME CallsAssumption == Streams \subseteq Calls /\ IsFiniteSet(Calls)
ASSUME ConcurrencyAssumption == MaxConcurrency \in 1 .. 4
ASSUME BoundsAssumption ==
    MaxFaults \in Nat /\ MaxLoadFailures \in Nat /\ MaxRestarts \in Nat

VARIABLES
    at,         \* the step of predict a call, or its thread, is in
    caller,     \* what its caller has: nothing yet, a result, an error ...
    routes,     \* the validated routes a call holds
    row,        \* prediction_runs: status and stored routes
    module,     \* the predictor's entry in sys.modules
    found,      \* the module a thread is about to bind the runtime to
    bound,      \* runtime._vendor: unset, that module, or one whose import failed
    context,    \* runtime._context is set
    loads,      \* how often this process has loaded the model
    faults, loadFailures, restarts

vars == <<at, caller, routes, row, module, found, bound, context, loads,
          faults, loadFailures, restarts>>

vendorVars == <<module, found, bound>>
counters == <<faults, loadFailures, restarts>>

\* Steps that run in a thread; "queued" waits for the semaphore on the event loop.
Generating == {"context", "contextLock", "loading", "inferring"}
Importing == {"importing", "executing"}
Threads == {"vendor", "modules", "vendorLock", "binding", "checking", "registering", "creating",
            "completing", "failing"} \cup Generating \cup Importing
Unstarted == {"vendor", "registering", "creating", "queued", "context", "completing", "failing"}
Places == {"idle", "queued", "done"} \cup Threads

Modules == {"none", "module", "discarded"}
Replies == {"none", "waiting", "result", "error", "raised", "gone"}
NoRoutes == << >>
NoRow == [status |-> "none", routes |-> NoRoutes]
Rows == [status : {"none", "running", "completed", "failed"},
         routes : {NoRoutes} \cup RawResults]

TypeOK ==
    /\ at \in [Calls -> Places]
    /\ caller \in [Calls -> Replies]
    /\ routes \in [Calls -> {NoRoutes} \cup RawResults]
    /\ row \in [Calls -> Rows]
    /\ module \in {"absent", "executing", "ready"}
    /\ found \in [Calls -> Modules] /\ bound \in Modules
    /\ context \in BOOLEAN
    /\ loads \in Nat
    /\ faults \in Nat /\ loadFailures \in Nat /\ restarts \in Nat

Init ==
    /\ at = [c \in Calls |-> "idle"]
    /\ caller = [c \in Calls |-> "none"]
    /\ routes = [c \in Calls |-> NoRoutes]
    /\ row = [c \in Calls |-> NoRow]
    /\ module = "absent" /\ bound = "none" /\ found = [c \in Calls |-> "none"]
    /\ context = FALSE /\ loads = 0
    /\ faults = 0 /\ loadFailures = 0 /\ restarts = 0

-----------------------------------------------------------------------------
(* The coroutine.  A cancelled one is gone: its thread's outcome is dropped. *)

Awaited(c) == caller[c] = "waiting"

GoTo(c, place) == at' = [at EXCEPT ![c] = IF Awaited(c) THEN place ELSE "done"]

Reply(c, answer) == caller' = [caller EXCEPT ![c] = IF Awaited(c) THEN answer ELSE @]

\* The call ends: predict returns or raises.
EndWith(c, answer) ==
    /\ at' = [at EXCEPT ![c] = "done"]
    /\ Reply(c, answer)

Start(c) ==
    /\ at[c] = "idle"
    /\ at' = [at EXCEPT ![c] = "vendor"]
    /\ caller' = [caller EXCEPT ![c] = "waiting"]
    /\ UNCHANGED <<routes, row, vendorVars, context, loads, counters>>

-----------------------------------------------------------------------------
(* runtime._get_vendor.  _load_module enters the module in sys.modules     *)
(* before executing it, and the first look-up takes no lock.               *)

VendorLockFree == \A c \in Calls : at[c] \notin Importing

\* The module the runtime is bound to has run to its end.
Usable == bound = "module" /\ module = "ready"

LookUpVendor(c) ==
    /\ at[c] = "vendor"
    /\ at' = [at EXCEPT ![c] = IF bound = "none" THEN "modules" ELSE "checking"]
    /\ UNCHANGED <<caller, routes, row, vendorVars, context, loads, counters>>

\* It has the module, and will bind the runtime to it, whatever happens until then.
Find(c) ==
    /\ found' = [found EXCEPT ![c] = "module"]
    /\ at' = [at EXCEPT ![c] = "binding"]
    /\ UNCHANGED bound

LookUpModule(c) ==
    /\ at[c] = "modules"
    /\ \/ module # "absent" /\ Find(c)
       \/ module = "absent" /\ at' = [at EXCEPT ![c] = "vendorLock"] /\ UNCHANGED <<found, bound>>
    /\ UNCHANGED <<caller, routes, row, module, context, loads, counters>>

EnterVendorLock(c) ==
    /\ at[c] = "vendorLock" /\ VendorLockFree
    /\ \/ module # "absent" /\ Find(c)
       \/ module = "absent" /\ at' = [at EXCEPT ![c] = "importing"] /\ UNCHANGED <<found, bound>>
    /\ UNCHANGED <<caller, routes, row, module, context, loads, counters>>

\* library and network are loaded; predict enters sys.modules and is executed.
ExecuteVendor(c) ==
    /\ at[c] = "importing"
    /\ module' = "executing"
    /\ at' = [at EXCEPT ![c] = "executing"]
    /\ UNCHANGED <<caller, routes, row, found, bound, context, loads, counters>>

VendorLoaded(c) ==
    /\ at[c] = "executing"
    /\ module' = "ready"
    /\ Find(c)
    /\ UNCHANGED <<caller, routes, row, context, loads, counters>>

BindVendor(c) ==
    /\ at[c] = "binding"
    /\ bound' = found[c]
    /\ found' = [found EXCEPT ![c] = "none"]
    /\ at' = [at EXCEPT ![c] = "checking"]
    /\ UNCHANGED <<caller, routes, row, module, context, loads, counters>>

Discarded(m) == IF m = "module" THEN "discarded" ELSE m

\* Only an ImportError of predict itself becomes PredictionUnavailableError; whoever
\* found or bound the half-executed module in the meantime keeps it.
VendorFails(c) ==
    /\ at[c] \in Importing
    /\ loadFailures < MaxLoadFailures
    /\ loadFailures' = loadFailures + 1
    /\ module' = "absent"
    /\ bound' = Discarded(bound)
    /\ found' = [d \in Calls |-> Discarded(found[d])]
    /\ \E answer \in {"error", "raised"} : EndWith(c, answer)
    /\ UNCHANGED <<routes, row, context, loads, faults, restarts>>

\* validate_formula.  A half-executed module may still lack the functions it calls:
\* an AttributeError, which nobody converts.
CheckFormula(c) ==
    /\ at[c] = "checking"
    /\ \/ bound = "module" /\ GoTo(c, "registering") /\ UNCHANGED caller
       \/ bound = "module" /\ EndWith(c, "error")
       \/ ~Usable /\ EndWith(c, "raised")
    /\ UNCHANGED <<routes, row, vendorVars, context, loads, counters>>

-----------------------------------------------------------------------------
(* The rows before the run, the semaphore, and the model.                  *)

RegisterModel(c) ==
    /\ at[c] = "registering"
    /\ GoTo(c, "creating")
    /\ UNCHANGED <<caller, routes, row, vendorVars, context, loads, counters>>

CreateRun(c) ==
    /\ at[c] = "creating"
    /\ row' = [row EXCEPT ![c].status = "running"]
    /\ GoTo(c, "queued")
    /\ UNCHANGED <<caller, routes, vendorVars, context, loads, counters>>

\* register_model or create_run raises, outside the try: nobody converts it.  The
\* exception may come after the commit.
PrepareRaises(c) ==
    /\ at[c] \in {"registering", "creating"}
    /\ faults < MaxFaults
    /\ faults' = faults + 1
    /\ \/ UNCHANGED row
       \/ at[c] = "creating" /\ row' = [row EXCEPT ![c].status = "running"]
    /\ EndWith(c, "raised")
    /\ UNCHANGED <<routes, vendorVars, context, loads, loadFailures, restarts>>

Holders == {c \in Calls : Awaited(c) /\ at[c] \in Generating}

SemaphoreFree_OffByOne == Cardinality(Holders) <= MaxConcurrency

SemaphoreFree == Cardinality(Holders) < MaxConcurrency

AcquireSemaphore(c) ==
    /\ at[c] = "queued" /\ SemaphoreFree
    /\ at' = [at EXCEPT ![c] = "context"]
    /\ UNCHANGED <<caller, routes, row, vendorVars, context, loads, counters>>

ContextLockFree == \A c \in Calls : at[c] # "loading"

LookUpContext(c) ==
    /\ at[c] = "context"
    /\ at' = [at EXCEPT ![c] = IF context THEN "inferring" ELSE "contextLock"]
    /\ UNCHANGED <<caller, routes, row, vendorVars, context, loads, counters>>

AfterContextLock_CheckedOnce == "loading"

AfterContextLock == IF context THEN "inferring" ELSE "loading"

EnterContextLock(c) ==
    /\ at[c] = "contextLock" /\ ContextLockFree
    /\ at' = [at EXCEPT ![c] = AfterContextLock]
    /\ UNCHANGED <<caller, routes, row, vendorVars, context, loads, counters>>

\* The digest matches and the vendored loader returns the model.
LoadContext(c) ==
    /\ at[c] = "loading" /\ Usable
    /\ context' = TRUE
    /\ loads' = loads + 1
    /\ at' = [at EXCEPT ![c] = "inferring"]
    /\ UNCHANGED <<caller, routes, row, vendorVars, counters>>

LoadRaises_LockKept(c) ==
    /\ at[c] = "loading" /\ ~Awaited(c)
    /\ GoTo(c, "failing")
    /\ UNCHANGED <<caller, routes, row, vendorVars, context, loads, counters>>

\* verify_checkpoint_digest refuses the file, or it cannot be read.
CheckpointRefused ==
    /\ loadFailures < MaxLoadFailures
    /\ loadFailures' = loadFailures + 1

\* A refused checkpoint, or a predictor module without its loader: the lock is released,
\* the context stays unset, and the next generation tries again.
LoadRaises(c) ==
    /\ at[c] = "loading"
    /\ CheckpointRefused \/ (~Usable /\ UNCHANGED loadFailures)
    /\ GoTo(c, "failing")
    /\ UNCHANGED <<caller, routes, row, vendorVars, context, loads, faults, restarts>>

\* Every reactant is well formed, and together they cover the target's elements.
Covers(route) == route.covers

\* The growth conditions are those of the route's method, with increasing bounds.
GrowthOfMethod(route) == route.growth = route.method

Feasible(route) ==
    route.method \in {"Flux", "CVT"} /\ Covers(route) /\ GrowthOfMethod(route)

\* validate_prediction_routes
ValidRoutes(raw) ==
    /\ Len(raw) \in 1 .. Requested
    /\ \A i \in DOMAIN raw : Feasible(raw[i]) /\ raw[i].rank = i

\* The thread returns; the coroutine leaves the semaphore and validates.
InferRoutes(c) ==
    /\ at[c] = "inferring" /\ Usable
    /\ \E raw \in RawResults :
          IF Awaited(c) /\ ValidRoutes(raw)
          THEN /\ GoTo(c, "completing")
               /\ routes' = [routes EXCEPT ![c] = raw]
          ELSE /\ GoTo(c, "failing")
               /\ UNCHANGED routes
    /\ UNCHANGED <<caller, row, vendorVars, context, loads, counters>>

InferRaises_Uncaught(c) ==
    /\ at[c] = "inferring"
    /\ EndWith(c, "raised")
    /\ UNCHANGED <<routes, row, vendorVars, context, loads, counters>>

\* Any exception of the vendored model, or of a module without it, becomes a failed run.
InferRaises(c) ==
    /\ at[c] = "inferring"
    /\ GoTo(c, "failing")
    /\ UNCHANGED <<caller, routes, row, vendorVars, context, loads, counters>>

-----------------------------------------------------------------------------
(* complete_run and fail_run: one UPDATE each, whatever the row said.      *)

CompletedRow(c) == [status |-> "completed", routes |-> routes[c]]

FailedRow_OnlyRunning(c) ==
    IF row[c].status = "running" THEN [status |-> "failed", routes |-> NoRoutes] ELSE row[c]

FailedRow_Misspelt(c) == [status |-> "error", routes |-> NoRoutes]

FailedRow(c) == [status |-> "failed", routes |-> NoRoutes]

CompleteRun(c) ==
    /\ at[c] = "completing"
    /\ row' = [row EXCEPT ![c] = CompletedRow(c)]
    /\ EndWith(c, "result")
    /\ UNCHANGED <<routes, vendorVars, context, loads, counters>>

\* complete_run raises, before or after its commit; the exception is handled like a
\* failed generation.
CompleteRaises(c) ==
    /\ at[c] = "completing"
    /\ faults < MaxFaults
    /\ faults' = faults + 1
    /\ row' \in {row, [row EXCEPT ![c] = CompletedRow(c)]}
    /\ GoTo(c, "failing")
    /\ UNCHANGED <<caller, routes, vendorVars, context, loads, loadFailures, restarts>>

FailRun(c) ==
    /\ at[c] = "failing"
    /\ row' = [row EXCEPT ![c] = FailedRow(c)]
    /\ EndWith(c, "error")
    /\ UNCHANGED <<routes, vendorVars, context, loads, counters>>

FailRaises(c) ==
    /\ at[c] = "failing"
    /\ faults < MaxFaults
    /\ faults' = faults + 1
    /\ row' \in {row, [row EXCEPT ![c] = FailedRow(c)]}
    /\ EndWith(c, "raised")
    /\ UNCHANGED <<routes, vendorVars, context, loads, loadFailures, restarts>>

-----------------------------------------------------------------------------
(* Disconnects and restarts.                                               *)

\* CancelledError is no Exception: no handler of predict sees it.  A thread that has
\* started runs on; one the pool has not yet started never does.
Disconnect(c) ==
    /\ c \in Streams /\ Awaited(c)
    /\ caller' = [caller EXCEPT ![c] = "gone"]
    /\ \/ at[c] # "queued" /\ UNCHANGED at
       \/ at[c] \in Unstarted /\ at' = [at EXCEPT ![c] = "done"]
    /\ UNCHANGED <<routes, row, vendorVars, context, loads, counters>>

Restart ==
    /\ restarts < MaxRestarts
    /\ restarts' = restarts + 1
    /\ at' = [c \in Calls |-> IF at[c] = "idle" THEN "idle" ELSE "done"]
    /\ caller' = [c \in Calls |-> IF Awaited(c) THEN "gone" ELSE caller[c]]
    /\ module' = "absent" /\ bound' = "none" /\ found' = [c \in Calls |-> "none"]
    /\ context' = FALSE /\ loads' = 0
    /\ UNCHANGED <<routes, row, faults, loadFailures>>

\* What a thread or the event loop goes on to do with call c.
Step(c) ==
    \/ LookUpVendor(c) \/ LookUpModule(c) \/ EnterVendorLock(c) \/ ExecuteVendor(c)
    \/ VendorLoaded(c) \/ BindVendor(c) \/ CheckFormula(c) \/ RegisterModel(c) \/ CreateRun(c) \/ AcquireSemaphore(c)
    \/ LookUpContext(c) \/ EnterContextLock(c) \/ LoadContext(c) \/ LoadRaises(c)
    \/ InferRoutes(c) \/ InferRaises(c) \/ CompleteRun(c) \/ FailRun(c)

Fault(c) ==
    VendorFails(c) \/ PrepareRaises(c) \/ CompleteRaises(c) \/ FailRaises(c)

Next ==
    \/ \E c \in Calls : Start(c) \/ Step(c) \/ Fault(c) \/ Disconnect(c)
    \/ Restart

Spec == Init /\ [][Next]_vars

\* Threads run and the event loop resumes a coroutine whose thread has returned.
FairSpec == Spec /\ \A c \in Calls : WF_vars(Step(c))

-----------------------------------------------------------------------------
(* Properties.                                                             *)

\* The semaphore bounds the generations somebody waits for; each disconnect adds at most
\* the one thread it leaves behind (service.py:65: the thread outlives the async with).
InferenceBounded ==
    LET running == {c \in Calls : at[c] \in Generating}
        left == {c \in running : caller[c] = "gone"}
    IN  Cardinality(running) <= MaxConcurrency + Cardinality(left)

\* However many first calls race for it, a process loads the model once and never replaces it
\* (runtime.py:157-186; docs/project-constraints.md:381, one model instance per process).
OneModelLoaded == loads <= 1

\* What the answer writer takes for granted about stored routes: best first, all feasible.
Ranked(stored) ==
    /\ stored # NoRoutes
    /\ \A i, j \in DOMAIN stored : i < j => stored[i].rank < stored[j].rank
    /\ \A i \in DOMAIN stored : stored[i].covers

\* What a caller was told is what the row says for ever after: a result means a completed row
\* with those validated routes, an error means a failed one or none, although complete_run
\* may commit and still raise (fail_run must then overwrite what it completed, service.py:111).
\* And a row stays 'running' with nobody working on it only if the client left, the process
\* stopped or a database call raised; no answer of the model can cause it.
RowsTellTheTruth ==
    \A c \in Calls :
        /\ row[c].status = "completed" => Ranked(row[c].routes)
        /\ caller[c] = "result" => row[c] = [status |-> "completed", routes |-> routes[c]]
        /\ caller[c] = "error" => row[c].status \in {"none", "failed"}
        /\ row[c].status = "running" /\ at[c] = "done" => caller[c] \in {"gone", "raised"}

\* Once the predictor is imported, the only exception that reaches a caller as itself is
\* that of a database call: everything the model does is converted (service.py:103-120).
ModelErrorsConverted ==
    [][\A c \in Calls :
          Usable /\ caller[c] # "raised" /\ caller'[c] = "raised" => faults' > faults]_vars

\* Every call is answered, through two locks and the semaphore, whoever fails or leaves.
CallsAreAnswered == \A c \in Calls : Awaited(c) ~> ~Awaited(c)
=============================================================================
