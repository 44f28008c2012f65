------------------------- MODULE PredictionRunsProofs -------------------------
(***************************************************************************)
(* Proofs about PredictionRuns, for any calls, limit, answers of the model *)
(* and bounds.  A step of one call changes nothing of the others, so most  *)
(* invariants are a statement about one call.                              *)
(***************************************************************************)
EXTENDS PredictionRuns, FiniteSetTheorems, TLAPS

LEMMA PlacesByType ==
    ASSUME TypeOK, NEW c \in Calls
    PROVE  /\ at[c] \in Places /\ caller[c] \in Replies
           /\ row[c] \in Rows /\ routes[c] \in {NoRoutes} \cup RawResults
BY DEF TypeOK

LEMMA GoToTypes ==
    ASSUME TypeOK, NEW c \in Calls, NEW place \in Places, GoTo(c, place)
    PROVE  at' \in [Calls -> Places]
BY DEF TypeOK, GoTo, Places

LEMMA EndTypes ==
    ASSUME TypeOK, NEW c \in Calls, NEW answer \in Replies, EndWith(c, answer)
    PROVE  at' \in [Calls -> Places] /\ caller' \in [Calls -> Replies]
BY DEF TypeOK, EndWith, Reply, Places

LEMMA RowTypes ==
    ASSUME TypeOK, NEW c \in Calls
    PROVE  /\ [row EXCEPT ![c].status = "running"] \in [Calls -> Rows]
           /\ [row EXCEPT ![c] = CompletedRow(c)] \in [Calls -> Rows]
           /\ [row EXCEPT ![c] = FailedRow(c)] \in [Calls -> Rows]
BY DEF TypeOK, Rows, CompletedRow, FailedRow, NoRoutes

\* Type correctness.
THEOREM TypeCorrect == Spec => []TypeOK
<1>1. Init => TypeOK
  <2>1. NoRow \in Rows
    BY DEF NoRow, Rows
  <2>2. Init => /\ at \in [Calls -> Places] /\ caller \in [Calls -> Replies]
                /\ routes \in [Calls -> {NoRoutes} \cup RawResults]
    BY DEF Init, Places, Replies
  <2>3. Init => row \in [Calls -> Rows]
    BY <2>1 DEF Init
  <2>4. Init => /\ module \in {"absent", "executing", "ready"}
                /\ context \in BOOLEAN
    BY Zenon DEF Init
  <2>6. Init => found \in [Calls -> Modules] /\ bound \in Modules
    BY DEF Init, Modules
  <2>5. Init => loads \in Nat /\ faults \in Nat /\ loadFailures \in Nat /\ restarts \in Nat
    BY DEF Init
  <2> QED BY <2>2, <2>3, <2>4, <2>5, <2>6 DEF TypeOK
<1>2. TypeOK /\ [Next]_vars => TypeOK'
  <2> SUFFICES ASSUME TypeOK, [Next]_vars PROVE TypeOK'
    OBVIOUS
  <2> USE DEF vendorVars, counters
  <2>1. ASSUME NEW c \in Calls, Start(c) PROVE TypeOK'
    BY <2>1 DEF Start, TypeOK, Places, Threads, Replies
  <2>2. ASSUME NEW c \in Calls, Step(c) PROVE TypeOK'
    <3> USE DEF Places, Threads, Generating, Importing
    <3>1. CASE LookUpVendor(c) \/ BindVendor(c)
      BY <3>1 DEF LookUpVendor, BindVendor, TypeOK, Modules
    <3>2. CASE LookUpModule(c) \/ EnterVendorLock(c)
      BY <3>2 DEF LookUpModule, EnterVendorLock, Find, TypeOK, Modules
    <3>3. CASE ExecuteVendor(c) \/ VendorLoaded(c)
      BY <3>3 DEF ExecuteVendor, VendorLoaded, Find, TypeOK, Modules
    <3>4. CASE CheckFormula(c)
      <4>1. at' \in [Calls -> Places] /\ caller' \in [Calls -> Replies]
        BY <3>4, GoToTypes, EndTypes DEF CheckFormula, Replies, TypeOK
      <4> QED BY <3>4, <4>1 DEF CheckFormula, TypeOK
    <3>5. CASE RegisterModel(c)
      BY <3>5, GoToTypes DEF RegisterModel, TypeOK
    <3>6. CASE CreateRun(c)
      BY <3>6, GoToTypes, RowTypes DEF CreateRun, TypeOK
    <3>7. CASE AcquireSemaphore(c)
      BY <3>7 DEF AcquireSemaphore, TypeOK
    <3>8. CASE LookUpContext(c)
      BY <3>8 DEF LookUpContext, TypeOK
    <3>9. CASE EnterContextLock(c)
      BY <3>9 DEF EnterContextLock, AfterContextLock, TypeOK
    <3>10. CASE LoadContext(c)
      BY <3>10 DEF LoadContext, TypeOK
    <3>11. CASE LoadRaises(c)
      <4>1. at' \in [Calls -> Places]
        BY <3>11, GoToTypes DEF LoadRaises
      <4>2. loadFailures' \in Nat
        BY <3>11 DEF LoadRaises, CheckpointRefused, TypeOK
      <4> QED BY <3>11, <4>1, <4>2 DEF LoadRaises, TypeOK
    <3>12. CASE InferRoutes(c)
      <4>1. at' \in [Calls -> Places]
        BY <3>12, GoToTypes DEF InferRoutes
      <4>2. routes' \in [Calls -> {NoRoutes} \cup RawResults]
        BY <3>12 DEF InferRoutes, TypeOK
      <4> QED BY <3>12, <4>1, <4>2 DEF InferRoutes, TypeOK
    <3>13. CASE InferRaises(c)
      BY <3>13, GoToTypes DEF InferRaises, TypeOK
    <3>14. CASE CompleteRun(c) \/ FailRun(c)
      <4>1. at' \in [Calls -> Places] /\ caller' \in [Calls -> Replies]
        BY <3>14, EndTypes DEF CompleteRun, FailRun, Replies
      <4>2. row' \in [Calls -> Rows]
        BY <3>14, RowTypes DEF CompleteRun, FailRun
      <4> QED BY <3>14, <4>1, <4>2 DEF CompleteRun, FailRun, TypeOK
    <3> QED
      BY <2>2, <3>1, <3>2, <3>3, <3>4, <3>5, <3>6, <3>7, <3>8, <3>9, <3>10, <3>11, <3>12,
         <3>13, <3>14 DEF Step
  <2>3. ASSUME NEW c \in Calls, Fault(c) PROVE TypeOK'
    <3>1. CASE VendorFails(c)
      <4>1. at' \in [Calls -> Places] /\ caller' \in [Calls -> Replies]
        BY <3>1, EndTypes DEF VendorFails, Replies
      <4>2. /\ module' = "absent" /\ loadFailures' \in Nat
            /\ bound' \in Modules /\ found' \in [Calls -> Modules]
        BY <3>1 DEF VendorFails, Discarded, Modules, TypeOK
      <4> QED BY <3>1, <4>1, <4>2 DEF VendorFails, TypeOK
    <3>2. CASE PrepareRaises(c)
      <4>1. at' \in [Calls -> Places] /\ caller' \in [Calls -> Replies]
        BY <3>2, EndTypes DEF PrepareRaises, Replies
      <4>2. row' \in [Calls -> Rows] /\ faults' \in Nat
        BY <3>2, RowTypes DEF PrepareRaises, TypeOK
      <4> QED BY <3>2, <4>1, <4>2 DEF PrepareRaises, TypeOK
    <3>3. CASE CompleteRaises(c)
      <4>1. at' \in [Calls -> Places]
        BY <3>3, GoToTypes DEF CompleteRaises, Places, Threads
      <4>2. row' \in [Calls -> Rows]
        <5>1. row \in [Calls -> Rows]
          BY DEF TypeOK
        <5> QED BY <3>3, <5>1, RowTypes DEF CompleteRaises
      <4>3. faults' \in Nat
        BY <3>3 DEF CompleteRaises, TypeOK
      <4> QED BY <3>3, <4>1, <4>2, <4>3 DEF CompleteRaises, TypeOK
    <3>4. CASE FailRaises(c)
      <4>1. at' \in [Calls -> Places] /\ caller' \in [Calls -> Replies]
        BY <3>4, EndTypes DEF FailRaises, Replies
      <4>2. row' \in [Calls -> Rows]
        <5>1. row \in [Calls -> Rows]
          BY DEF TypeOK
        <5> QED BY <3>4, <5>1, RowTypes DEF FailRaises
      <4>3. faults' \in Nat
        BY <3>4 DEF FailRaises, TypeOK
      <4> QED BY <3>4, <4>1, <4>2, <4>3 DEF FailRaises, TypeOK
    <3> QED BY <2>3, <3>1, <3>2, <3>3, <3>4 DEF Fault
  <2>4. ASSUME NEW c \in Calls, Disconnect(c) PROVE TypeOK'
    BY <2>4 DEF Disconnect, TypeOK, Replies, Places
  <2>5. CASE Restart
    <3>1. at' \in [Calls -> Places]
      BY <2>5 DEF Restart, Places
    <3>2. caller' \in [Calls -> Replies]
      BY <2>5 DEF Restart, TypeOK, Replies
    <3>3. restarts' \in Nat
      BY <2>5 DEF Restart, TypeOK
    <3> QED BY <2>5, <3>1, <3>2, <3>3 DEF Restart, TypeOK, Modules
  <2>6. CASE UNCHANGED vars
    BY <2>6 DEF vars, TypeOK
  <2> QED BY <2>1, <2>2, <2>3, <2>4, <2>5, <2>6 DEF Next
<1> QED BY <1>1, <1>2, PTL DEF Spec

-----------------------------------------------------------------------------
(* A step of a call is of that call alone. *)

CallStep(c) == Start(c) \/ Step(c) \/ Fault(c) \/ Disconnect(c)

LEMMA NextByCall ==
    ASSUME [Next]_vars
    PROVE  (\E c \in Calls : CallStep(c)) \/ Restart \/ UNCHANGED vars
BY DEF Next, CallStep

LEMMA OthersStay ==
    ASSUME TypeOK, NEW c \in Calls, CallStep(c), NEW d \in Calls \ {c}
    PROVE  at'[d] = at[d] /\ caller'[d] = caller[d] /\ row'[d] = row[d] /\ routes'[d] = routes[d]
<1> DEFINE Stay == /\ at'[d] = at[d] /\ caller'[d] = caller[d]
                   /\ row'[d] = row[d] /\ routes'[d] = routes[d]
<1>goes. \A place : GoTo(c, place) => at'[d] = at[d]
  BY DEF GoTo, TypeOK
<1>ends. \A answer : EndWith(c, answer) => at'[d] = at[d] /\ caller'[d] = caller[d]
  BY DEF EndWith, Reply, TypeOK
<1>1. CASE Start(c) \/ Disconnect(c)
  BY <1>1 DEF Start, Disconnect, TypeOK
<1>2. CASE \/ LookUpVendor(c) \/ LookUpModule(c) \/ EnterVendorLock(c) \/ ExecuteVendor(c)
          \/ VendorLoaded(c) \/ BindVendor(c)
  BY <1>2 DEF LookUpVendor, LookUpModule, EnterVendorLock, Find, ExecuteVendor, VendorLoaded,
             BindVendor, TypeOK
<1>3. CASE CheckFormula(c) \/ RegisterModel(c) \/ CreateRun(c)
  BY <1>goes, <1>ends, <1>3 DEF CheckFormula, RegisterModel, CreateRun, TypeOK
<1>4. CASE AcquireSemaphore(c) \/ LookUpContext(c) \/ EnterContextLock(c) \/ LoadContext(c)
  BY <1>4 DEF AcquireSemaphore, LookUpContext, EnterContextLock, LoadContext, TypeOK
<1>5. CASE LoadRaises(c) \/ InferRoutes(c) \/ InferRaises(c)
  BY <1>goes, <1>5 DEF LoadRaises, InferRoutes, InferRaises, TypeOK
<1>6. CASE CompleteRun(c) \/ FailRun(c)
  BY <1>ends, <1>6 DEF CompleteRun, FailRun, TypeOK
<1>7. CASE VendorFails(c) \/ PrepareRaises(c)
  BY <1>ends, <1>7 DEF VendorFails, PrepareRaises, TypeOK
<1>8. CASE CompleteRaises(c) \/ FailRaises(c)
  BY <1>goes, <1>ends, <1>8 DEF CompleteRaises, FailRaises, TypeOK
<1> QED BY <1>1, <1>2, <1>3, <1>4, <1>5, <1>6, <1>7, <1>8 DEF CallStep, Step, Fault

-----------------------------------------------------------------------------
(* The rows. *)

\* The call has not yet got the vendored predictor, or has not yet used it.
Vendor == {"vendor", "modules", "vendorLock", "binding", "importing", "executing", "checking"}
VendorStep(c) ==
    \/ LookUpVendor(c) \/ LookUpModule(c) \/ EnterVendorLock(c) \/ ExecuteVendor(c)
    \/ VendorLoaded(c) \/ BindVendor(c)

Active == Threads \cup {"queued"}
BeforeRow == {"idle", "registering", "creating"} \cup Vendor
Running == {"queued", "completing"} \cup Generating

\* Until create_run there is no row; while its call works on it, it says `running' -- or
\* `completed', when complete_run committed and raised.
CallInv(c) ==
    /\ at[c] = "idle" <=> caller[c] = "none"
    /\ at[c] \in Active => caller[c] \in {"waiting", "gone"}
    /\ at[c] = "queued" => caller[c] = "waiting"
    /\ caller[c] = "waiting" => at[c] \in Active
    /\ at[c] \in BeforeRow => row[c].status = "none"
    /\ at[c] \in Running => row[c].status = "running"
    /\ at[c] = "failing" => row[c].status \in {"running", "completed"}
    /\ at[c] = "completing" => ValidRoutes(routes[c])
    /\ row[c].status = "completed" => Ranked(row[c].routes)
    /\ caller[c] = "result" => row[c] = [status |-> "completed", routes |-> routes[c]]
    /\ caller[c] = "error" => row[c].status \in {"none", "failed"}
    /\ row[c].status = "running" /\ at[c] = "done" => caller[c] \in {"gone", "raised"}

\* Routes that validate_prediction_routes accepts are what the answer writer expects.
LEMMA ValidIsRanked == \A raw : ValidRoutes(raw) => Ranked(raw)
<1> SUFFICES ASSUME NEW raw, ValidRoutes(raw) PROVE Ranked(raw)
  OBVIOUS
<1>1. raw # NoRoutes
  <2>1. Len(NoRoutes) = 0
    BY DEF NoRoutes
  <2> QED BY <2>1 DEF ValidRoutes
<1>2. \A i \in DOMAIN raw : raw[i].rank = i /\ raw[i].covers
  BY DEF ValidRoutes, Feasible, Covers
<1> QED BY <1>1, <1>2 DEF Ranked

LEMMA CallInvStep ==
    ASSUME TypeOK, NEW c \in Calls, CallInv(c), CallStep(c)
    PROVE  CallInv(c)'
<1>goes. \A place : GoTo(c, place) => at'[c] = IF caller[c] = "waiting" THEN place ELSE "done"
  BY DEF GoTo, Awaited, TypeOK
<1>ends. \A answer : EndWith(c, answer) =>
            /\ at'[c] = "done"
            /\ caller'[c] = IF caller[c] = "waiting" THEN answer ELSE caller[c]
  BY DEF EndWith, Reply, Awaited, TypeOK
<1>types. /\ at[c] \in Places /\ caller[c] \in Replies /\ row[c] \in Rows
  BY PlacesByType
<1>vendor. ASSUME VendorStep(c) PROVE CallInv(c)'
  <2>1. at[c] \in Vendor /\ at'[c] \in Vendor /\ UNCHANGED <<caller, row, routes>>
    <3>1. CASE LookUpVendor(c) \/ BindVendor(c) \/ ExecuteVendor(c)
      BY <3>1 DEF LookUpVendor, BindVendor, ExecuteVendor, TypeOK, Vendor
    <3>2. CASE LookUpModule(c) \/ EnterVendorLock(c) \/ VendorLoaded(c)
      BY <3>2 DEF LookUpModule, EnterVendorLock, VendorLoaded, Find, TypeOK, Vendor
    <3> QED BY <1>vendor, <3>1, <3>2 DEF VendorStep
  <2>2. Vendor \subseteq BeforeRow /\ Vendor \subseteq Threads
    BY DEF Vendor, BeforeRow, Threads, Importing
  <2>3. Vendor \cap (Running \cup {"failing", "completing", "queued", "idle", "done"}) = {}
    BY DEF Vendor, Running, Generating
  <2> QED BY <2>1, <2>2, <2>3 DEF CallInv, Active
<1> USE DEF CallInv, Active, Threads, BeforeRow, Vendor, Running, Generating, Importing, Awaited
<1>1. CASE Start(c)
  BY <1>1 DEF Start, TypeOK
<1>2. CASE Disconnect(c)
  BY <1>2 DEF Disconnect, Unstarted, TypeOK
<1>3. CASE VendorStep(c)
  BY <1>3, <1>vendor
<1>4. CASE CheckFormula(c)
  BY <1>goes, <1>ends, <1>4 DEF CheckFormula, TypeOK
<1>5. CASE RegisterModel(c)
  BY <1>goes, <1>5 DEF RegisterModel, TypeOK
<1>6. CASE CreateRun(c)
  BY <1>goes, <1>6 DEF CreateRun, TypeOK, Rows
<1>7. CASE AcquireSemaphore(c) \/ LookUpContext(c) \/ EnterContextLock(c) \/ LoadContext(c)
  BY <1>7 DEF AcquireSemaphore, LookUpContext, EnterContextLock, AfterContextLock, LoadContext, TypeOK
<1>8. CASE LoadRaises(c) \/ InferRaises(c)
  BY <1>goes, <1>8 DEF LoadRaises, InferRaises, TypeOK
<1>9. CASE InferRoutes(c)
  BY <1>goes, <1>9 DEF InferRoutes, TypeOK
<1>10. CASE CompleteRun(c)
  BY <1>ends, <1>10, ValidIsRanked DEF CompleteRun, CompletedRow, TypeOK
<1>11. CASE FailRun(c)
  BY <1>ends, <1>11 DEF FailRun, FailedRow, TypeOK
<1>12. CASE VendorFails(c)
  BY <1>ends, <1>12 DEF VendorFails, TypeOK
<1>13. CASE PrepareRaises(c)
  BY <1>ends, <1>13 DEF PrepareRaises, TypeOK, Rows
<1>14. CASE CompleteRaises(c)
  BY <1>goes, <1>14, ValidIsRanked DEF CompleteRaises, CompletedRow, TypeOK
<1>15. CASE FailRaises(c)
  BY <1>ends, <1>15 DEF FailRaises, FailedRow, TypeOK
<1> QED
  BY <1>1, <1>2, <1>3, <1>4, <1>5, <1>6, <1>7, <1>8, <1>9, <1>10, <1>11, <1>12, <1>13, <1>14,
     <1>15 DEF CallStep, Step, Fault, VendorStep

CallsInv == \A c \in Calls : CallInv(c)

LEMMA CallsInvariant == Spec => []CallsInv
<1>1. Init => CallsInv
  BY DEF Init, CallsInv, CallInv, Active, Threads, Generating, Importing, BeforeRow, Vendor, Running, NoRow
<1>2. TypeOK /\ CallsInv /\ [Next]_vars => CallsInv'
  <2> SUFFICES ASSUME TypeOK, CallsInv, [Next]_vars, NEW c \in Calls
               PROVE  CallInv(c)'
    BY DEF CallsInv
  <2>0. CallInv(c)
    BY DEF CallsInv
  <2>1. ASSUME NEW d \in Calls, CallStep(d), d # c PROVE CallInv(c)'
    BY <2>0, <2>1, OthersStay DEF CallInv
  <2>2. CASE CallStep(c)
    BY <2>0, <2>2, CallInvStep
  <2>3. CASE Restart
    BY <2>0, <2>3 DEF Restart, CallInv, Active, Threads, Generating, Importing, BeforeRow, Vendor, Running,
                Awaited, TypeOK, Places, Replies
  <2>4. CASE UNCHANGED vars
    BY <2>0, <2>4 DEF vars, CallInv
  <2> QED BY <2>1, <2>2, <2>3, <2>4, NextByCall
<1> QED BY <1>1, <1>2, TypeCorrect, PTL DEF Spec

\* What a caller was told is what the row says for ever after, whatever the model answers,
\* whoever disconnects and however often a database call raises or the process restarts.
THEOREM RowsTellTheTruthCorrect == Spec => []RowsTellTheTruth
<1>1. CallsInv => RowsTellTheTruth
  BY DEF CallsInv, CallInv, RowsTellTheTruth
<1> QED BY <1>1, CallsInvariant, PTL

-----------------------------------------------------------------------------
(* The semaphore. *)

\* Only AcquireSemaphore makes a call that is waited for one that generates.
LEMMA HoldersOfStep ==
    ASSUME TypeOK, NEW c \in Calls, CallStep(c), ~AcquireSemaphore(c),
           caller'[c] = "waiting", at'[c] \in Generating
    PROVE  caller[c] = "waiting" /\ at[c] \in Generating
<1>goes. \A place : GoTo(c, place) => at'[c] = IF caller[c] = "waiting" THEN place ELSE "done"
  BY DEF GoTo, Awaited, TypeOK
<1>ends. \A answer : EndWith(c, answer) => at'[c] = "done"
  BY DEF EndWith, TypeOK
<1> USE DEF Generating, Importing, Awaited
<1>1. CASE Start(c) \/ Disconnect(c)
  BY <1>1 DEF Start, Disconnect, TypeOK
<1>2. CASE \/ LookUpVendor(c) \/ LookUpModule(c) \/ EnterVendorLock(c) \/ ExecuteVendor(c)
          \/ VendorLoaded(c) \/ BindVendor(c)
  BY <1>2 DEF LookUpVendor, LookUpModule, EnterVendorLock, Find, ExecuteVendor, VendorLoaded,
             BindVendor, TypeOK
<1>3. CASE CheckFormula(c) \/ RegisterModel(c) \/ CreateRun(c)
  BY <1>goes, <1>ends, <1>3 DEF CheckFormula, RegisterModel, CreateRun
<1>4. CASE LookUpContext(c) \/ EnterContextLock(c) \/ LoadContext(c)
  BY <1>4 DEF LookUpContext, EnterContextLock, LoadContext
<1>5. CASE LoadRaises(c) \/ InferRoutes(c) \/ InferRaises(c)
  BY <1>goes, <1>5 DEF LoadRaises, InferRoutes, InferRaises
<1>6. CASE CompleteRun(c) \/ FailRun(c) \/ Fault(c)
  BY <1>goes, <1>ends, <1>6
     DEF CompleteRun, FailRun, Fault, VendorFails, PrepareRaises, CompleteRaises, FailRaises
<1> QED BY <1>1, <1>2, <1>3, <1>4, <1>5, <1>6 DEF CallStep, Step

HoldersInv == Cardinality(Holders) <= MaxConcurrency

LEMMA HoldersFinite ==
    /\ IsFiniteSet(Holders) /\ Cardinality(Holders) \in Nat
    /\ \A S : S \subseteq Holders => IsFiniteSet(S) /\ Cardinality(S) <= Cardinality(Holders)
<1>1. Holders \subseteq Calls
  BY DEF Holders
<1> QED BY <1>1, CallsAssumption, FS_Subset, FS_CardinalityType

LEMMA HoldersBounded == Spec => []HoldersInv
<1>1. Init => HoldersInv
  <2> SUFFICES ASSUME Init PROVE HoldersInv
    OBVIOUS
  <2>1. Holders = {}
    BY DEF Init, Holders, Awaited
  <2> QED BY <2>1, FS_EmptySet, ConcurrencyAssumption DEF HoldersInv
<1>2. TypeOK /\ HoldersInv /\ [Next]_vars => HoldersInv'
  <2> SUFFICES ASSUME TypeOK, HoldersInv, [Next]_vars PROVE HoldersInv'
    OBVIOUS
  <2>1. Holders' \subseteq Holders => HoldersInv'
    BY HoldersFinite, FS_CardinalityType, ConcurrencyAssumption DEF HoldersInv
  <2>2. ASSUME NEW c \in Calls, CallStep(c), ~AcquireSemaphore(c) PROVE Holders' \subseteq Holders
    BY <2>2, OthersStay, HoldersOfStep DEF Holders, Awaited
  <2>3. ASSUME NEW c \in Calls, AcquireSemaphore(c) PROVE HoldersInv'
    <3>1. Holders' \subseteq Holders \cup {c}
      BY <2>3 DEF AcquireSemaphore, Holders, Awaited, TypeOK
    <3>2. Cardinality(Holders) + 1 <= MaxConcurrency
      BY <2>3, HoldersFinite, ConcurrencyAssumption DEF AcquireSemaphore, SemaphoreFree
    <3>3. /\ IsFiniteSet(Holders \cup {c})
          /\ Cardinality(Holders \cup {c}) <= Cardinality(Holders) + 1
      BY HoldersFinite, FS_AddElement
    <3>4. Cardinality(Holders') <= Cardinality(Holders \cup {c})
      BY <3>1, <3>3, FS_Subset
    <3>5. Cardinality(Holders') \in Nat /\ Cardinality(Holders \cup {c}) \in Nat
      BY <3>1, <3>3, FS_Subset, FS_CardinalityType
    <3> QED BY <3>2, <3>3, <3>4, <3>5, HoldersFinite, ConcurrencyAssumption DEF HoldersInv
  <2>4. CASE Restart
    <3>1. Holders' \subseteq Holders
      BY <2>4 DEF Restart, Holders, Generating, Awaited
    <3> QED BY <2>1, <3>1
  <2>5. CASE UNCHANGED vars
    <3>1. Holders' \subseteq Holders
      BY <2>5 DEF vars, Holders, Awaited
    <3> QED BY <2>1, <3>1
  <2> QED BY <2>1, <2>2, <2>3, <2>4, <2>5, NextByCall
<1> QED BY <1>1, <1>2, TypeCorrect, PTL DEF Spec

\* However many calls there are and whatever the limit, more generations than it run only
\* because of as many threads whose client has left.
THEOREM InferenceBoundedCorrect == Spec => []InferenceBounded
<1>1. CallsInv /\ HoldersInv => InferenceBounded
  <2> SUFFICES ASSUME CallsInv, HoldersInv PROVE InferenceBounded
    OBVIOUS
  <2> DEFINE running == {c \in Calls : at[c] \in Generating}
             left == {c \in running : caller[c] = "gone"}
  <2>1. running = Holders \cup left
    BY DEF CallsInv, CallInv, Active, Threads, Holders, Awaited
  <2>2. IsFiniteSet(left) /\ Cardinality(left) \in Nat
    BY CallsAssumption, FS_Subset, FS_CardinalityType
  <2>3. Cardinality(running) = Cardinality(Holders) + Cardinality(left)
                                 - Cardinality(Holders \cap left)
    BY <2>1, <2>2, HoldersFinite, FS_Union
  <2>4. Cardinality(Holders \cap left) \in Nat
    BY HoldersFinite, FS_CardinalityType
  <2> HIDE DEF running, left
  <2>5. Cardinality(running) <= MaxConcurrency + Cardinality(left)
    BY <2>2, <2>3, <2>4, HoldersFinite, ConcurrencyAssumption DEF HoldersInv
  <2> QED BY <2>5 DEF InferenceBounded, running, left
<1> QED BY <1>1, CallsInvariant, HoldersBounded, PTL

-----------------------------------------------------------------------------
(* The model and its lock. *)

\* Whoever holds the lock has found the context unset, and it stays so until it sets it.
LoadInv ==
    /\ loads = IF context THEN 1 ELSE 0
    /\ \A c \in Calls : at[c] = "loading" => ~context
    /\ \A c, d \in Calls : at[c] = "loading" /\ at[d] = "loading" => c = d

\* The first look-up takes no lock, but only its holder imports, until it has set the module.
VendorInv ==
    /\ \A c \in Calls : at[c] = "importing" => module = "absent"
    /\ \A c \in Calls : at[c] = "executing" => module = "executing"
    /\ \A c, d \in Calls : at[c] \in Importing /\ at[d] \in Importing => c = d

LockSteps(c) ==
    EnterVendorLock(c) \/ ExecuteVendor(c) \/ VendorLoaded(c) \/ VendorFails(c)
      \/ EnterContextLock(c) \/ LoadContext(c)

\* Nothing else takes a lock, or changes what the locks guard; a disconnect leaves them held.
LEMMA OtherSteps ==
    ASSUME TypeOK, NEW c \in Calls, CallStep(c), ~LockSteps(c)
    PROVE  /\ at'[c] \in Importing \cup {"loading"} => at'[c] = at[c]
           /\ UNCHANGED <<module, context, loads>>
<1>goes. \A place : GoTo(c, place) => at'[c] \in {place, "done"}
  BY DEF GoTo, TypeOK
<1>ends. \A answer : EndWith(c, answer) => at'[c] = "done"
  BY DEF EndWith, TypeOK
<1> USE DEF Importing, vendorVars
<1>1. CASE Start(c) \/ Disconnect(c)
  BY <1>1 DEF Start, Disconnect, TypeOK
<1>2. CASE LookUpVendor(c) \/ LookUpModule(c) \/ BindVendor(c)
  BY <1>2 DEF LookUpVendor, LookUpModule, Find, BindVendor, TypeOK
<1>3. CASE CheckFormula(c) \/ RegisterModel(c) \/ CreateRun(c)
  BY <1>goes, <1>ends, <1>3 DEF CheckFormula, RegisterModel, CreateRun
<1>4. CASE AcquireSemaphore(c) \/ LookUpContext(c)
  BY <1>4 DEF AcquireSemaphore, LookUpContext, TypeOK
<1>5. CASE LoadRaises(c) \/ InferRoutes(c) \/ InferRaises(c)
  BY <1>goes, <1>5 DEF LoadRaises, InferRoutes, InferRaises
<1>6. CASE CompleteRun(c) \/ FailRun(c)
  BY <1>ends, <1>6 DEF CompleteRun, FailRun
<1>7. CASE PrepareRaises(c) \/ CompleteRaises(c) \/ FailRaises(c)
  BY <1>goes, <1>ends, <1>7 DEF PrepareRaises, CompleteRaises, FailRaises
<1> QED
  BY <1>1, <1>2, <1>3, <1>4, <1>5, <1>6, <1>7 DEF CallStep, Step, Fault, LockSteps

LEMMA LocksInvariant == Spec => [](LoadInv /\ VendorInv)
<1>1. Init => LoadInv /\ VendorInv
  BY DEF Init, LoadInv, VendorInv, Importing
<1>2. TypeOK /\ LoadInv /\ VendorInv /\ [Next]_vars => (LoadInv /\ VendorInv)'
  <2> SUFFICES ASSUME TypeOK, LoadInv, VendorInv, [Next]_vars PROVE (LoadInv /\ VendorInv)'
    OBVIOUS
  <2> USE DEF Importing, vendorVars
  <2>1. ASSUME NEW c \in Calls, CallStep(c), ~LockSteps(c) PROVE (LoadInv /\ VendorInv)'
    <3>1. \A d \in Calls : at'[d] \in Importing \cup {"loading"} => at'[d] = at[d]
      BY <2>1, OtherSteps, OthersStay
    <3>2. UNCHANGED <<module, context, loads>>
      BY <2>1, OtherSteps
    <3> QED BY <3>1, <3>2 DEF LoadInv, VendorInv
  <2>2. ASSUME NEW c \in Calls, EnterVendorLock(c) PROVE (LoadInv /\ VendorInv)'
    BY <2>2 DEF EnterVendorLock, Find, VendorLockFree, LoadInv, VendorInv, TypeOK
  <2>3. ASSUME NEW c \in Calls, ExecuteVendor(c) \/ VendorLoaded(c) PROVE (LoadInv /\ VendorInv)'
    BY <2>3 DEF ExecuteVendor, VendorLoaded, Find, LoadInv, VendorInv, TypeOK
  <2>4. ASSUME NEW c \in Calls, VendorFails(c) PROVE (LoadInv /\ VendorInv)'
    BY <2>4 DEF VendorFails, EndWith, LoadInv, VendorInv, TypeOK
  <2>5. ASSUME NEW c \in Calls, EnterContextLock(c) PROVE (LoadInv /\ VendorInv)'
    BY <2>5 DEF EnterContextLock, ContextLockFree, AfterContextLock, LoadInv, VendorInv, TypeOK
  <2>6. ASSUME NEW c \in Calls, LoadContext(c) PROVE (LoadInv /\ VendorInv)'
    BY <2>6 DEF LoadContext, LoadInv, VendorInv, TypeOK
  <2>7. CASE Restart
    BY <2>7 DEF Restart, LoadInv, VendorInv
  <2>8. CASE UNCHANGED vars
    BY <2>8 DEF vars, LoadInv, VendorInv
  <2> QED BY <2>1, <2>2, <2>3, <2>4, <2>5, <2>6, <2>7, <2>8, NextByCall DEF LockSteps
<1> QED BY <1>1, <1>2, TypeCorrect, PTL DEF Spec

\* A process loads the model once, however many first calls race for it and whoever of them
\* is cancelled while its thread holds the lock.
THEOREM OneModelLoadedCorrect == Spec => []OneModelLoaded
<1>1. LoadInv => OneModelLoaded
  BY DEF LoadInv, OneModelLoaded
<1> QED BY <1>1, LocksInvariant, PTL

-----------------------------------------------------------------------------
(* What reaches a caller. *)

\* Once the predictor is imported, only a database call that raises reaches a caller as itself.
THEOREM ModelErrorsConvertedCorrect == Spec => ModelErrorsConverted
<1> DEFINE Converted == \A c \in Calls :
              Usable /\ caller[c] # "raised" /\ caller'[c] = "raised" => faults' > faults
<1>1. TypeOK /\ VendorInv /\ [Next]_vars => [Converted]_vars
  <2> SUFFICES ASSUME TypeOK, VendorInv, [Next]_vars, NEW c \in Calls,
                      Usable, caller[c] # "raised", caller'[c] = "raised"
               PROVE  faults' > faults
    OBVIOUS
  <2>goes. \A answer : EndWith(c, answer) => caller'[c] \in {answer, caller[c]}
    BY DEF EndWith, Reply, TypeOK
  <2>1. CASE UNCHANGED vars \/ Restart
    BY <2>1 DEF vars, Restart, TypeOK
  <2>2. ASSUME NEW d \in Calls, CallStep(d), d # c PROVE faults' > faults
    BY <2>2, OthersStay
  <2>3. CASE CallStep(c)
    <3>1. CASE PrepareRaises(c) \/ CompleteRaises(c) \/ FailRaises(c)
      BY <3>1 DEF PrepareRaises, CompleteRaises, FailRaises, TypeOK
    <3>2. CASE VendorFails(c)
      BY <3>2 DEF VendorFails, VendorInv, Importing, Usable
    <3>3. CASE CheckFormula(c)
      BY <2>goes, <3>3 DEF CheckFormula
    <3>4. CASE CompleteRun(c) \/ FailRun(c)
      BY <2>goes, <3>4 DEF CompleteRun, FailRun
    <3>5. CASE Start(c) \/ Disconnect(c)
      BY <3>5 DEF Start, Disconnect, TypeOK
    <3>6. CASE UNCHANGED caller
      BY <3>6
    <3>7. Step(c) => CheckFormula(c) \/ CompleteRun(c) \/ FailRun(c) \/ UNCHANGED caller
      BY DEF Step, LookUpVendor, LookUpModule, EnterVendorLock, ExecuteVendor, VendorLoaded,
             BindVendor, RegisterModel, CreateRun, AcquireSemaphore, LookUpContext,
             EnterContextLock, LoadContext, LoadRaises, InferRoutes, InferRaises
    <3> QED BY <2>3, <3>1, <3>2, <3>3, <3>4, <3>5, <3>6, <3>7 DEF CallStep, Fault
  <2> QED BY <2>1, <2>2, <2>3, NextByCall
<1> QED BY <1>1, TypeCorrect, LocksInvariant, PTL DEF Spec, ModelErrorsConverted
=============================================================================
