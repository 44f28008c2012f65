# Verification of the crystal-growth RAG agent

TLA+ models of the stateful parts of this repository, the TLC runs that check them and
TLAPS proofs about them. Paths below are relative to `services/rag-api/src/` unless they
start with another top-level directory.

## 1. The system

A chat agent answers questions about crystal growth from literature records and, when
there are none, from a model's prediction. One `uvicorn` worker serves the API
(`infra/docker/rag-api.Dockerfile:50`); inside it requests run as coroutines, and blocking
database calls run in threads. One memory worker runs beside it, restarted when it stops
(`infra/compose/docker-compose.x1c.yml:138-149`). They meet in the database: PostgreSQL in
production, SQLite otherwise. A browser tab talks to the API, and a poller on the host
deploys what is pushed.

| Component | State | Operations | Meets |
|---|---|---|---|
| Long-term memory (`memory/store.py`, `memory/worker.py`) | `memory_items`, `memory_jobs`, vectors | `upsert_memory`, `claim_memory_jobs`, `store_memory_embedding`, `complete/fail_memory_job`, clean-up | written by turns, drained by the memory worker |
| Short-term sessions (`memory/store.py`, `agent/graph.py`) | `checkpoint_sessions`: thread id, turn count, expiry per (user, session); LangGraph's checkpoint tables by thread id | get-or-create, roll over, reset, complete a turn, take expired | every request, and the memory worker's clean-up; no transaction spans the mapping and the checkpoints |
| Agent graph (`agent/graph.py`, `agent/nodes/`) | the graph state of a thread; the merged view `stream` keeps beside it | 22 nodes, seven routing functions, and `_next_node`, a second copy of the routing | LangGraph, LLM, retrieval, prediction, long-term memory |
| Chat API and display history (`api/chat.py`, `conversations/store.py`) | `chat_sessions`, `chat_messages` | send, edit and truncate, delete, list, `/retrieve` | the browser's tabs; `reset_session_context` of the graph |
| Route prediction (`prediction/`) | `prediction_runs`, a semaphore, two thread locks, the lazily imported predictor, the lazily loaded model | create, complete, fail a run; import, load, generate, validate | the `run_prediction` node and `/predict`; a thread pool that outlives cancelled coroutines |
| Accounts (`accounts/`, `api/auth.py`) | users, token sessions, failures by host and e-mail | register-or-login, log out, admit a request, limit attempts | every endpoint; the browser's cookie jar |
| Web client (`apps/rag-platform`) | a tab's address; the page of that address: session list, messages, phase; requests and turns in flight, also of pages that were left | load, navigate, select, create, rename, remove, send, edit, stop | the session endpoints and the chat stream |
| Deployment (`scripts/`) | markers, a worktree per commit, a checkout, images, containers | resolve, ask CI, fetch, test, check out, build, restart, check, record; start at a boot | git, GitHub, docker, systemd |
| Checkpointer runtime (`memory/checkpointer.py`) | a pool and a saver | `get`, `close` | the graph |
| Retrieval, LLM clients, ingestion | none that a request changes | search, rank, complete, load records | Milvus, SQLite catalogue, remote models |

What is hard here:

- a **job queue** whose rows outlive crashes, over items that are rewritten while they are
  being embedded;
- **two stores without a common transaction**, twice: mappings and checkpoints, display
  history and thread. Each has a window where one is changed and the other is not;
- **rollover**, which copies a thread while other requests use it and then swaps the mapping;
- **state that survives a turn**: what a node leaves in the thread, after success, rejection
  or an exception, is the next turn's input, and two routers must still agree on it;
- **cancellation**: a client that disconnects stops the coroutine, and neither a transaction
  nor a generation that already runs in a thread;
- **check, then act**: the login limiter, the registration of an e-mail, the quota, the
  rollover limit, the lazy import and the lazy load all read first and act later;
- **files that outlive a killed script**, which the next run takes for complete;
- **answers out of order** in the browser, to handlers of pages that were left: what they set
  is lost, what they ask the server or the router for is not.

### What makes each part correct

- *Queue*: at most one pending job per item; a completed job tells the truth about the text
  its item holds; quotas hold; every text that stays is embedded.
- *Sessions*: two users never share a thread; no live thread is deleted; no thread is left
  with nothing that would delete it; rollover does not lose a turn; the turn limit is nearly exact.
- *Graph*: both routers agree; prediction is the last resort; kinds of evidence never mix;
  labels of materials are true; the window is bounded.
- *History*: nothing is shown twice; an edit only truncates; the edited turn sees exactly what
  was retained; what was discarded never returns.
- *Prediction*: rows agree with what callers were told; generations are bounded; one model per
  process; the model's errors are converted; every call is answered.
- *Accounts*: the first password stays; a session serves only who gave it, while it is open;
  guesses are bounded and nobody is locked out by old failures.
- *Deployment*: only tested commits run; the marker is true; a wanted commit is settled.
- *Web client*: a removed session does not stay on display; nothing loads for ever.

`PROJECT.json` lists every component with its status, and every hazard at its line.

## 2. The modules

| Module | Models | Code |
|---|---|---|
| `MemoryQueue` | the write path of long-term memory and the embedding queue | `memory/store.py`, `memory/worker.py` |
| `SessionMemory` | what a user may rely on about short-term memory, abstractly | |
| `CheckpointSessions` | mappings, threads, requests and clean-up; implements `SessionMemory` | `memory/store.py`, `agent/graph.py`, `memory/worker.py` |
| `TurnGraph` | the turns of one session through the 22 nodes and both routers | `agent/graph.py`, `agent/nodes/*`, `agent/short_term_policy.py`, `agent/utils.py` |
| `ChatHistory` | one session's display history and its thread, with edits | `api/chat.py`, `conversations/store.py` |
| `PredictionRuns` | calls of `PredictionService.predict` in one process | `prediction/*` |
| `AccountService` | what accounts promise, abstractly | |
| `Accounts` | log-in, log-out, admission, the limiter; implements `AccountService` | `accounts/*`, `api/auth.py` |
| `AutoDeploy` | the poller and the deployment it calls | `scripts/x1c-auto-deploy.sh`, `scripts/deploy-x1c-rag.sh` |
| `WebClient` | one tab with the session endpoints it calls | `apps/rag-platform/src/components/chat/chat-shell.tsx`, `apps/rag-platform/src/lib/*`, `api/conversations.py` |
| `X`+`Proofs` | theorems about module `X` | |
| `MC`+`X` | an instance of `X` for TLC | |

An operator `X_Slip` (`QuotaReached_OffByOne`, `Remapped_Same`) is `X` with a plausible
slip. No specification uses it; putting it in `X`'s place shows that a property notices.

### MemoryQueue

An item is its identity key `(user_id, memory_type, memory_key)`. Text n is what the n-th
committed write stored, and job n the job it enqueued. `vector[k] = n` says that the
embedding column embeds text n. `LookUp`, `UpdateItem`, `CountActive`, `InsertItem` and `RollBack` are
the branches of `upsert_memory`, cut where another PostgreSQL transaction can commit;
under SQLite `WriteLockFree` holds the write lock from the purge to the commit. `ClaimJobs`
is the PostgreSQL claim, `SelectJobs` and `MarkJobs` the SQLite one. `ReadContent`,
`StoreEmbedding`, `JobRaises` and `FinishJob` are `_run_job` and `run_once`, and
`CrashWorker` is a stop with a restart. Distinct writes are taken to store distinct texts;
`ORDER BY created_at` becomes any choice of pending jobs, which allows more behaviours
than the code has; an item's `expires_at` is set by no caller and is left out, and so are
ranking and `memory_events`, which do not feed back.

### CheckpointSessions and SessionMemory

A request goes through the stages of `reset_session_context` (for an edit),
`_checkpoint_config` and `stream`; each step is one transaction or one call of the
checkpointer. A rollover seeds the next thread from what it has read of the old one, which may be
deleted by then. A checkpoint is reduced to the set of turns it is built from. Thread ids are
`Digest[user, label]` or a fresh uuid, as in `_thread_id` and `_replacement_thread_id`.
`Serial` says whether a session's client waits for its turn before it starts another. The
browser does in one tab; nothing enforces it across tabs. LangGraph's tables are external:
save and delete by thread id.

`SessionMemory` knows neither threads nor mappings: a session remembers its turns and
forgets only while it is being edited, once it has expired, or while its thread is still
about to be deleted; one clean-up makes several forget at once. The refinement mapping reads
`remembered` through the mapping (`Remembered`), so it says that rollover is invisible.

### TurnGraph

`st` is LangGraph's state of the thread and `view` the merged one of `stream`; `node` is
what LangGraph runs next and `expected` what `_next_node` announces. Each node is an action
that returns a partial update, merged into both. A question is reduced to how
`analyze_and_route` classifies it, a record to its formula and how far it supports an
answer. A formula of a
question or of a prediction may be given in its standard form or not (`Standard`), and a candidate may be listed twice.
The LLM, retrieval and the predictor answer nondeterministically or raise
(`Raise`, which is a disconnect too). Only the checkpointer backend is modelled.
`compact_persistent_state` leaves `aggregate_query` and `aggregate_result` in the thread;
`prepare_turn` resets them, and `RoutersAgree` depends on it. The seeding of labels from the
display history adds only unlabelled formulas and is left out, with summaries and the text
heuristics.

### ChatHistory

A row is named by the request that inserted it. `chat_stream` is cut at its transactions;
`append_message` once more, between its look-up and its INSERT, and
`replace_user_message_and_truncate` between its two SELECTs (`FindTarget`, `ReadOrder`) and before its
deletes. `late` holds
transactions whose request was cancelled. The `orderly` variable records whether requests
have so far come one after another without a failure between the two stores: the
properties about sequences hold only then, and say so. A listing is in order of
`created_at`: its i-th row is the one with i - 1 older ones (`Nth`). Rollover, expiry and the window are
`CheckpointSessions`' and `TurnGraph`'s matter. A deleted session keeps its thread mapping, as in the code.

### PredictionRuns

`at[c]` is where call c is, in its coroutine or in the thread it awaits; `caller[c]` is what
its caller has been told. The look-up of the vendored predictor takes no lock: it
reads `_vendor`, then `sys.modules`, and binds what it found in a later step (`LookUpVendor`, `LookUpModule`,
`BindVendor`). `_load_module` enters a module in `sys.modules` before executing it: `module` has the
half-executed state, `found` what a call has looked up, and `bound` what the runtime keeps. `Disconnect` cancels the coroutine:
a thread that runs goes on, a queued one may never start, no handler of `predict` runs, and the
semaphore is free (`Holders` counts only calls that are still awaited). `complete_run` and
`fail_run` may raise before or after their commit. `Restart` ends the process: rows stay.
A route is reduced to its rank, method, growth conditions and whether its reactants cover the target.

### Accounts and AccountService

`POST /login` is four steps: ask the limiter, read and verify, insert, create the session;
then the response clears the limiter and sets the cookie. Any other request is sent with the cookie
its browser has at that time and is admitted by that token later. An e-mail has spellings that normalise to it. `Pruned`
is the loop of `allow`, which drops failures from the left of a deque. The clock is a
counter shared by the limiter and the expiry. `AccountService` has no requests, limiter
or cookies: the first password given for an e-mail is its password for good, a session is opened only with it,
and a request is admitted only for an open session. A hash is the password it was made from and a token its digest.

### AutoDeploy

`pc[r]` is the command that run r (the timer's or an operator's) is at, and the lock is the rule
that one run at a time is past `idle`. `StepFails` is a command that exits non-zero, `CutOff`
a kill or power loss in the middle of one: it leaves a worktree that is no worktree,
one that lacks files, a checkout with half of a commit's files, git's `index.lock` in it with or without
such files, or a truncated `deployed-sha`. `Build` builds the images one by one and `Up` restarts the services
one by one, each from its image (`ImageOf`). After a power loss `agentweb-rag.service` does the
latter too, without the lock and from whatever images there are (`booting`, `UpAtBoot`). GitHub is external:
pushes, forced pushes, CI that ends or is run again; and so is the operator who removes a failed marker.

### WebClient

`/chat` and `/chat/[sessionId]` are pages of their own, each with a `ChatShell`, and Next keys a page
by its parameter. So `Navigate` to another address unmounts the instance there is and mounts a fresh one:
`screen`, `list`, `shown` and `loading` are those of the instance that is mounted and start anew.
`bootstrapCacheRef` is a new, empty ref in each of them, never read after it was set, and left out.

A step is what JavaScript runs between two awaits. A request in flight is a record of `calls`, a submit one
of `turns`, with what its handler goes on with: the session and the list of the render that made it, and
whether that page is still `mounted`. The handlers of an unmounted page go on: what they set is lost,
but their requests reach the server and `router.push` moves the tab (`Push`; the last one counts). `isRunning`
belongs to an instance, so a new page may submit while the turn of an old one still runs, even a turn of the same
session. An answer is read from the server at one step and arrives at a later one, in any order. Of
the messages it is kept whether there may be any: an instance has one session. `removed` and `stranded` are
history variables.

## 3. The runs

| Run | Instance | Distinct states | Shows |
|---|---|---|---|
| `MemoryOneWorker` | PostgreSQL, 2 keys of one owner, 2 concurrent writers, 1 worker, claims of 2, 4 writes, 1 fault | 125k | one pending job per item; completed means current |
| `MemorySqlite` | SQLite, 3 keys of 2 owners, quota 1, 3 writes, no fault, fair | 18k | the quota holds; every text that stays is embedded |
| `MemoryWorkerCrash` | as the first, 2 writes, 1 fault, fair | violation | a claimed job is lost with its worker |
| `CheckpointSerial` | 2 users with one label, 2 requests, rollover after 1 turn, 3 turns, 1 expiry, no fault | 139k | deletion is safe, nothing is orphaned, `SessionMemory` is implemented |
| `CheckpointConcurrent` | as above, any interleaving, 2 expiries, 1 fault | 399k | isolation of users; the rollover bound |
| `TurnRouting` | 2 formulas, each in its standard form or not, repeated candidates, 12 search results, 3 turns, 1 dying turn | 2.6M | routers, evidence policy, labels, window |
| `TurnLabels` | 2 turns, no fault | violation | a predicted formula is relabelled |
| `ChatEdits` | 2 tabs, listing of 3, history of 2, 3 requests, 1 stop | 442k | display and thread under edits |
| `PredictionCalls` | 3 calls (2 streaming), limit 1, 1 database fault, 1 failed load, 1 restart, fair | 257k | rows, generations, one model, every call answered |
| `AccountLogins` | 1 e-mail in 2 spellings, 2 passwords, 2 browsers, 2 requests, limit 2, 2 login sessions | 368k | the limiter; `AccountService` is implemented |
| `AutoDeploy` | 2 runs, 2 images and 2 services, 3 commits, 2 pushes (1 forced), 2 faults, 1 retry, fair | 1.3M | tested commits only; true marker; settled commits |
| `WebClient` | 3 sessions, listing of 2, 3 clicks, 1 failure or act of another tab, fair | 1.0M | a removed session is left; nothing hangs |

**Why the bounds are enough.** *Memory*: the interesting case is a rewrite between the
worker's read and its store, while the rest of a batch waits. It needs two writes of one
key and a batch of two; four writes leave two for the other key and a third rewrite. A
quota is overrun by two new keys of one user. *Checkpoints*: a rollover limit of 1 makes the
second turn roll over, two requests make the swap race, a third turn runs on what the race
left; two users with one label are what the digest must keep apart. `TakeLimit` 1 makes one
clean-up leave an expired row behind. *Turns*: what a turn inherits is what its
predecessor left; three turns allow a label to be set, changed and read, and a window of 2 is
exceeded by the second message. The record sets hold each record alone and the pairs that mix a
usable with an unusable record or two formulas. *Chat*: three requests are a
question, a second one and an edit; a history of 2 (12 in the code) and a listing of 3 (200 in
the code) are exceeded by them. *Prediction*: with a limit of 1, three calls are one that
generates, one that waits and one that was left behind; the lock of the import and of the load
are each contested by two. *Accounts*: two requests check together and record apart; with a
limit of 2 and a window of 2 ticks a failure leaves the window while another stays. *Deployment*: of the three
commits one is installed, one fine and one never becomes healthy; tests fail by a fault or on a torn worktree. Two
faults are a cut-off, or a loss of power, and a failure of the run that follows; two images let a cut-off
come between their builds. *Client*: three
sessions are the one at the address, the one gone to, and one beyond the listing; three clicks are an
action, a navigation away while it waits, and one back.

Interchangeable writers, uuids, tabs, request slots and passwords are symmetry
sets, and formulas in `TurnLabels`, where all are in standard form; in runs without a liveness property only. Deadlock is not checked where the bound on
writes, turns, requests, pushes, clicks or time stops the behaviour.

**Fairness.**

- `MemoryQueue`: weak fairness of each worker's step, because `run_forever` polls in an
  endless loop and docker restarts a process that a poll's exception has ended; and of each
  started upsert, because it runs to its commit or rollback.
- `PredictionRuns`: weak fairness of each call's next step: threads run, and the event loop
  resumes a coroutine whose thread has returned. It is weak fairness *per call*, so it also says that a waiter gets a lock or the semaphore when
  it stays free; `CallsAreAnswered` holds although a free lock may be taken by another call first,
  because each call takes it once.
- `AutoDeploy`: weak fairness of "some run starts or does its next command". The timer is
  endless, `git` and `curl` have timeouts and the health check gives up; that docker answers is
  assumed, since the unit has `TimeoutStartSec=0`.
- `WebClient`: weak fairness of "the browser or the server does what is due": requests are
  answered or fail, promises are run, the router gets where it was sent.

Writers, users, pushes, CI, operators and faults owe nothing anywhere.

### What the violation runs found

1. `MemoryWorkerCrash`: `claim_memory_jobs` commits 'running' first, and nothing ever
   returns such a row to 'pending' (`locked_at` is never read). The text is never embedded.
2. `TurnLabels`: a question about two formulas labels both with the evidence found for the
   first; a formula that was only predicted is then listed as answered from real records.

Each is quoted against the repository's own words in `PROJECT.json`, "findings".

### Known limits of the code

Some properties are stated with an exception, because the code does not promise more. The
exceptions, and the behaviours the models show that no property is about:

- *Queue.* On PostgreSQL two new keys of one user can both pass the quota's COUNT. With a
  second memory worker a stale vector may overwrite a newer one.
- *Sessions.* Mappings are deleted and committed before their threads: a stop in between
  orphans checkpoints. A session that returns while its expired first thread waits to be
  deleted gets the same deterministic thread id, and loses what it says until then
  (`SafeDeletion`, `MayForget`). With more expired sessions than one clean-up takes, one that
  returns before its turn replaces its row, and the thread that row named is never deleted
  (`FewExpired`). An exception after a rollover's swap has committed deletes
  the thread that is now mapped. A turn that runs while its session is edited may bring the
  old thread back to life.
- *Turns.* Rejected messages are appended but the nodes that trim do not run, so the window
  exceeds `short_max_messages` until the next answered turn.
- *Chat.* An answer saved after an edit's listing stays below the edited question
  (`orderly`). Past 200 messages the listing returns the oldest. An append that races the
  session's deletion leaves rows no endpoint can reach.
- *Prediction.* A row stays 'running' after a client leaves, a restart, or a failed database
  call. Errors of the vendored import escape unconverted (only an `ImportError` of `predict`
  itself is converted), and a call that looked the module up while it was executing may keep
  one whose import then failed, until the process restarts. Threads of cancelled calls
  exceed the concurrency limit.
- *Deployment.* The script cannot tell a candidate that fails from a build that fails for a passing reason:
  either marks the commit as failed for good. A worktree that was cut off while it was made
  is accepted by its HEAD and tested incomplete. A checkout with tracked changes
  makes every later run refuse at its start, and an `index.lock` that git left there makes it fail at its checkout,
  until an operator cleans up: `WantedIsSettled` excepts both by name. When a
  deployment has failed half way and the branch is forced back to the recorded commit, the
  script says "production already runs" it, which `MarkersAgree` excludes by its premises (HEAD at the commit, or no forced push); and after a
  failed deployment "production remains on" the old commit is not true of services that were already recreated.
- *Web client.* The handler of a page that was left may send the tab away late (`startNewSession`,
  `removeSession`, `signOut` end in a `router.push`). When it sends it back to the address it is just about to leave,
  the navigation under way is lost, and the page that was emptied for it goes on loading, or goes on
  showing the session that was removed (`stranded`). So does one whose last session was removed and whose successor
  cannot be created. `removeSession` restores the session list of its click, with sessions
  removed since; a session created twice over may be listed twice until the next refresh. Two turns of one
  session run at once when the user leaves a page during a turn and comes back.

## 4. The proofs

Each theorem says that the specification has a property that a run checks on a small instance,
for every value of the constants that satisfies the module's assumptions. Where it needs more,
the table says what it is given. Two state the part of a liveness property that a single step can
break: `LoadingIsAwaited` is a conjunct of `NothingHangs` and checked with it; `NothingForgotten`, without which
`EveryWriteEmbedded` could not hold, is a theorem only.

| Module | Theorems |
|---|---|
| `MemoryQueueProofs` | `TypeOK`, `QueueInv`, `OnePendingJob`; `CompletedMeansCurrent` and `NothingForgotten` given `SingleWorker`; `QuotaHolds` given `Backend = "sqlite"` |
| `CheckpointSessionsProofs` | `TypeOK`, `Isolation`, `SafeDeletion`, `RolloverBound`; given `Serial`, no fault and few expired sessions: `NoOrphanThreads`, and `RefinesSessionMemory` |
| `TurnGraphProofs` | `TypeOK`, `RoutersAgree`, `PredictionIsLastResort`, `EvidenceIsExclusive`, `AnsweredWindowBounded`, `PredictedLabelsTrue` |
| `PredictionRunsProofs` | `TypeOK`, `RowsTellTheTruth`, `InferenceBounded`, `OneModelLoaded`, and the action property `ModelErrorsConverted` |
| `AccountsProofs` | `TypeOK`, `LimiterIsExact`, `GuessesBounded`, and `RefinesAccountService` |
| `AutoDeployProofs` | `TypeOK`, `MarkersAgree`, `ProductionIsTested` |
| `ChatHistoryProofs` | `TypeOK`, `QuestionShownOnce`, `OneBranch`, `EditRunsOnRetained`, `DiscardedStaysOut`, and the action property `EditsOnlyTruncate` |
| `WebClientProofs` | `TypeOK`, `RemovedIsLeft`, `LoadingIsAwaited` |

None of these properties is inductive as it stands. What strengthens each:

*One pending job.* A write deletes the pending jobs of its
key and inserts one, so one must know that the rows it leaves pending are of other keys and
that its own number is new. `QueueOrder` says it: jobs and texts are numbered in commit
order, no job beyond `writes` exists, and a pending job is the job of the text its item
holds. `ClaimedJobs` adds that a worker holds only jobs of committed writes, so finishing one
never creates a row.

*Completed means current.* The worker reads a text, embeds it for seconds, stores the
vector by item id and marks its job, while writers rewrite the item. `ReadOrder`
carries the argument across those steps: what a worker has read is at least as new as its
job; when it is older than the item's text, the job of that text is still pending, so a
stale vector cannot be vouched for; and a worker that has stored for the current job has left
the current vector. The middle conjunct needs `SingleWorker`: TLC refutes it with two workers.

*Nothing forgotten.* While nothing fails, the job of a text without a vector passes from the queue to the batch of
a worker and on to the job it works on. `ReadOrder` shows that this ends with the vector in place: what is stored for the
text's own job is that text, and what is stored for an older job of the item is either that text too or finds the text's own
job still pending. `WorkerAtRest` adds that an idle worker holds no jobs, which a new batch would
drop, and that a job fails by a fault only. After the fault that `MemoryWorkerCrash` injects, the
conclusion is false: the hypothesis `faults = 0` is needed.

*The quota.* `QuotaInv` says what makes a COUNT still true at the INSERT: under SQLite two
writers are never both inside a transaction (`ReadsHold`), a writer that has counted leaves
room for one more, and an item that was found still exists.

*Isolation.* A thread holds only one session's turns because the digest is injective and a uuid is
used once. But a request holds thread ids that may be unmapped by now, and writes to them later:
`IsolationInv` says of every stage which threads a request knows (`Knows`), that no two sessions know the
same one, and that what it has loaded or is about to seed is its own session's.

*Safe deletion.* `DeletionInv` follows the threads that are on the way to deletion (`Going`) and to the
mapping (`Adds`): an unmapped uuid thread never gets mapped again, since a swap maps only a
thread that its request has just seeded, which nobody else knows. `MappedInv` says that a mapped uuid has been used. Nothing assumes `Serial`.

*Nothing orphaned.* With one turn at a time per session (`Serial`) nobody changes a row between a request's
read and its use of it, except clean-up, which takes expired rows only. `SerialInv` says so, stage by stage, and with it
every thread with checkpoints stays mapped or on its way to deletion.
One more thing is needed. `get_or_create_checkpoint_session` replaces a row that has
expired without deleting its thread, so the clean-up that each turn starts with must have taken that row before. It takes
at most 100 rows, the oldest first (`TakeLimit`): the theorem is given that no more than `TakeLimit` sessions have expired and not been cleaned
(`FewExpired`), which a corollary derives from a bound on the expiries. When more have, the threads of
the excess may be orphaned.

*Short-term memory.* `MemoryInv` relates what a request carries to what the threads hold: nobody else writes to
its thread, which at most is deleted under it; a thread about to be mapped holds a copy of the old one;
a turn is nowhere before it is saved. So each step is a `Remember`, a `Forget` or a stutter. That a
session remembers nothing it has forgotten needs that its first thread, whose id is a digest and comes back when the session
does, is deleted before the session expires a second time (`PromptDeletion`, a hypothesis): otherwise the session may find the old
turns again. The corollary for behaviours with one expiry in all derives both hypotheses; its
instance is what `CheckpointSerial` checks.

*The rollover bound.* The turn count is read when a turn starts and written when it ends.
`RolloverInv` counts: the count of a thread, plus the requests that run a turn on it, is
less than the limit plus the number of requests; a request joins only while the count is below the limit.

*The two routers.* They run over different states: LangGraph's has every field that any turn ever
wrote, `view` those of this turn. `RoutingInv` says that within a turn the view agrees with the state
on every field it has, and has all fields that routing reads as soon as `prepare_turn` has
returned. `NodeEffect` reduces each node to the fields it returns.

*Evidence.* `FallbackInv` and `EvidenceInv` say at each node what the turn has established: nothing is chosen
before an answer node, what may be cited supports the target, a prediction is reached
only from a completed search with nothing usable. `LabelInv` says that the target of a search is the first of the
candidates and that a prediction is reached only when, in standard form and without repetitions, it is the only one
(`OnlyEligible`). So `PredictionIsLastResort` is about one formula, the one searched for; and all that the turn is
about when a prediction is answered was predicted (`Predicted`: the formula and its standard form), so that the labels
`update_memory` writes for it are true.

*One run at a time.* `AutoDeploy`'s lock makes all but one run idle (`OneRun`). `RunInv` says what the file
system holds at each command: from `build` on HEAD is the run's commit, from `up` on every image is built from it
(`Built`), from `health` on every service runs it. The boot's `compose up` asks for no lock; it is
harmless where it counts because `HeadAgrees` says that with HEAD at the recorded commit the images are of it too, so that it
starts nothing else (`BootKeeps`). `MarkersAgree` then
survives a cut-off anywhere, because HEAD moves before anything else does. That the script's own test, the head of the branch
against the recorded commit, tells the truth needs the branch's history: unless it is rewritten it comes to no commit twice,
so while it is at the recorded commit no run is past its look-up (`BranchInv`). `VettingInv`
carries "CI passed" from `fetch` on and "tested or torn" from `checkout` on, to the image and the services.

*Prediction rows.* `CallInv` says for each place of a call what its row and its caller can be.
`HoldersInv` says that the awaited generations are at most the limit. `LoadInv` says
that at most one thread is inside the lock and that the context is unset while it is; `VendorInv` does the same for the
import, and who may be bound to what.

*Accounts.* `AccountsInv` says that a request past verification has the password of its e-mail and that a
cookie or request names a session that exists; with it every step of `Accounts` is one of
`AccountService` or a stutter. `QueuesInv` says that the limiter's queues are in order of time, so that what
`allow` drops from the left is all that has expired, and a spelling's queue is empty unless it is normalised. `GuessesInv` adds the requests that
were allowed and have not recorded yet to the failures.

*The display history.* An edit reads ids in one step and deletes by them in a later one, while other
requests, and transactions that outlived theirs, insert rows. `HistoryInv` says of each request what
it has yet to insert (`Unused`: nothing on display carries it), of an edit that its ids belong to
rows later than its question (`KnowsLater`) and are not among what anybody has yet to insert
(`Spares`), and that no two requests in flight or outlived share a text. So an id is given to one row
only, the words of an edit are nobody else's, and what an edit deletes is what it saw.

*Order of the display.* `TimesInv` says that rows, and the INSERTs that still wait with their
`created_at`, have distinct times. So each rank has exactly one row (`NthRow`), and a listing is well
typed, holds each row once, and grows by the row that came last (`SaidRows`, `SaidBefore`).
`DisplayInv` says, while requests come one after another, that a request's question is the last row
until its answer, and that what an edit is going to delete is all that came after its question.

*What a turn is told.* As far as the lists are concerned a step is of one of a few kinds (`Effect`,
`Effects`): it lists, shows a row, truncates, resets, resolves a thread, hands over a context or saves.
`ThreadsInv` and `RunsInv` carry the retained messages of an edit through them to its turn, on a
thread that was given out for it and is empty. `CleanInv` carries the texts that edits took
off the display: no row, request or mapped thread has one, except between an edit's truncation and
its reset, when nobody else reads the thread. Both need `orderly`, as the properties do.

*What a tab holds.* `TypeInv` says more than types: a successful load or creation has a session to go to, and the
server lists no session twice and none it has not made.
A list without a session (`Without`, the code's `filter`) is a function from 1 to the number of places that are left, and
`PlaceOfNumber` shows that every number has its place.

*What a page knows.* `PageInv` says that the requests of the page that is mounted are of its address, that a load of `/chat` is
never answered with 404, that a creation brings a session other than that of the page it was asked on, and that the
list a removal keeps is without the removed session. So an answer that is to move the tab moves it to another
address, or is one of a page that was left.

*Loading is awaited.* With these the statement is inductive (`AwaitedInv`). A load of the mounted page that goes away
ends the loading or sends the tab to an address that is not its own: a load of `/chat` to a session, a 404
to `/chat`, a 401 to `/login`. A handler that empties the page leaves it. Only a handler of
another page can send the tab to the address it has, and `Push` then sets `stranded`, which is the exception (`AwaitedPush`).

*A removed session is left.* `GoneInv`: what was removed, and what a removal is confirmed for, is not among the
server's sessions and never comes back. So no load that is answered from then on displays it, and `LeftInv` extends the statement to
answers that are on their way: a page that shows a removed session, or has an answer that will, is about to be left. A page that was loaded before
the deletion is moved by the removal's own push, although another page made it (`DeleteArrives`).

Induction over a sequence is avoided in the same way everywhere: the recursive meaning of an
operator is not used, only its length, its elements or its cardinality.

*Only model-checked*: liveness (`EveryWriteEmbedded`, `CallsAreAnswered`, `WantedIsSettled`,
`NothingHangs`), which is out of the prover's reach. Every invariant, action property and
refinement that a passing run checks is proved, with the hypotheses the table names.

## 5. Not modelled, and why

- *Checkpointer runtime*: the API's lifespan awaits `get()` before it serves a request, and the
  worker is a single loop, so the lazy start has one caller at a time.
- *Retrieval, LLM clients*: remote calls and ranking; their results are nondeterministic choices.
- *Ingestion, CLI, configuration, SSE encoding*: parsing and I/O without concurrent state.
- *The vendored prediction model*: third-party numerical code.
- *The store backend of short-term memory* (`session_memory` rows without a checkpointer):
  not the deployed one.
- *In the web client*: streamed tokens, titles, the evidence panel, the login form and what follows a
  second log-in; a navigation whose page the network fails to bring, after which Next reloads the document.
- *Of the scripts*: the installers, which an operator runs once and watches.

## 6. What is left

1. Pure algorithms against a reference definition: reciprocal rank fusion
   (`retrieval/rrf.py`), query expansion, the relevance ranking of long-term memory.
2. Several sessions with their messages in `ChatHistory`, composed with `WebClient`, so that what
   the page shows is compared with what is stored.
3. `rag_bootstrap`'s digest check and resume.
