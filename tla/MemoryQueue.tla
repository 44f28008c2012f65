---------------------------- MODULE MemoryQueue ----------------------------
(***************************************************************************)
(* The long-term memory write path: MemoryStore.upsert_memory, called by   *)
(* concurrent turns, and the embedding queue that MemoryWorker drains      *)
(* (services/rag-api/src/memory/store.py and worker.py).                   *)
(*                                                                         *)
(* An item is named by its identity key (user_id, memory_type,             *)
(* memory_key).  Its text is the number of the committed write that        *)
(* produced it: write n stores text n and inserts job n, so the job that   *)
(* write n enqueues is job n.  0 stands for no row, no vector and no job.  *)
(*                                                                         *)
(* A database transaction is one step where its locks make it atomic, and  *)
(* several where another transaction can commit between its statements     *)
(* (READ COMMITTED PostgreSQL).  A SQLite transaction holds the write lock *)
(* from its first DELETE or UPDATE to its commit.                          *)
(*                                                                         *)
(* X_Slip, here and in the other modules, is X with a plausible slip, to   *)
(* show that a property notices it; no specification uses it.              *)
(***************************************************************************)
EXTENDS Naturals, FiniteSets

CONSTANTS
    Keys,        \* identity keys of memory items
    Users,       \* account ids
    Owner,       \* Owner[k]: the user_id in the key k
    Writers,     \* upsert_memory calls that may run at the same time
    Workers,     \* memory worker processes
    Backend,     \* "postgres" or "sqlite"
    Quota,       \* limits.long_max_items_per_user
    ClaimLimit,  \* the limit run_once passes to claim_memory_jobs
    MaxWrites,   \* bound: upsert_memory calls, and so committed writes
    MaxFaults    \* bound: worker crashes and failed jobs in a behaviour

ASSUME OwnerAssumption == Owner \in [Keys -> Users] /\ Keys # {}
ASSUME BackendAssumption == Backend \in {"postgres", "sqlite"}
ASSUME BoundsAssumption ==
    /\ Quota \in Nat \ {0}
    /\ ClaimLimit \in Nat \ {0}
    /\ MaxWrites \in Nat
    /\ MaxFaults \in Nat

VARIABLES
    content,     \* memory_items: the write whose text each item holds
    vector,      \* memory_items.embedding: the write whose text it embeds
    writes,      \* how many writes have committed
    calls,       \* how many upsert_memory calls have started
    jobKey,      \* memory_jobs.memory_id of each job
    jobStatus,   \* memory_jobs.status, or where the row is not in the table
    writer,      \* what each running upsert_memory call has read
    worker,      \* where each worker process stands
    faults       \* crashes and job failures so far

items == <<content, vector>>
jobs == <<jobKey, jobStatus>>
vars == <<items, writes, jobs, calls, writer, worker, faults>>

JobIds == 1..MaxWrites
JobStatuses ==
    {"none", "superseded", "purged"} \cup          \* no row in the table
    {"pending", "running", "completed", "failed"}  \* the status column

WriterState == [pc : {"idle", "found", "absent", "counted"}, key : Keys]
WorkerState ==
    [pc : {"idle", "selected", "next", "read", "stored", "failing"},
     batch : SUBSET JobIds,    \* claimed jobs run_once has not started
     job : 0..MaxWrites,       \* the job _run_job is working on
     text : 0..MaxWrites]      \* what get_memory_content returned

\* A worker between jobs, with the claimed jobs still ahead of it.
Poised(pc, batch) == [pc |-> pc, batch |-> batch, job |-> 0, text |-> 0]
IdleWorker == Poised("idle", {})

TypeOK ==
    /\ content \in [Keys -> 0..MaxWrites]
    /\ vector \in [Keys -> 0..MaxWrites]
    /\ writes \in 0..MaxWrites
    /\ calls \in 0..MaxWrites
    /\ jobKey \in [JobIds -> Keys]
    /\ jobStatus \in [JobIds -> JobStatuses]
    /\ writer \in [Writers -> WriterState]
    /\ worker \in [Workers -> WorkerState]
    /\ faults \in 0..MaxFaults

AnyKey == CHOOSE k \in Keys : TRUE

Init ==
    /\ content = [k \in Keys |-> 0]
    /\ vector = [k \in Keys |-> 0]
    /\ writes = 0
    /\ calls = 0
    /\ jobKey = [n \in JobIds |-> AnyKey]
    /\ jobStatus = [n \in JobIds |-> "none"]
    /\ writer = [u \in Writers |-> [pc |-> "idle", key |-> AnyKey]]
    /\ worker = [w \in Workers |-> IdleWorker]
    /\ faults = 0

-----------------------------------------------------------------------------
(* upsert_memory *)

\* Under SQLite a writer owns the database from its first statement to its commit.
WriteLockFree == Backend = "postgres" \/ \A u \in Writers : writer[u].pc = "idle"

Become(u, state) == writer' = [writer EXCEPT ![u].pc = state]

ActiveItems(user) == {k \in Keys : Owner[k] = user /\ content[k] # 0}
QuotaReached_OffByOne(k) == Cardinality(ActiveItems(Owner[k])) > Quota
QuotaReached(k) == Cardinality(ActiveItems(Owner[k])) >= Quota

\* The jobs _enqueue_embedding deletes before it inserts a pending one.
ReplacedJobs_None(k) == {}
ReplacedJobs(k) == {n \in JobIds : jobKey[n] = k /\ jobStatus[n] = "pending"}

\* _enqueue_embedding, for the write that is committing.
EnqueueEmbedding_UnlessLive(k) ==
    /\ jobKey' = [jobKey EXCEPT ![writes + 1] = k]
    /\ IF \E n \in JobIds : jobKey[n] = k /\ jobStatus[n] \in {"pending", "running"}
       THEN UNCHANGED jobStatus
       ELSE jobStatus' = [jobStatus EXCEPT ![writes + 1] = "pending"]
EnqueueEmbedding(k) ==
    /\ jobKey' = [jobKey EXCEPT ![writes + 1] = k]
    /\ jobStatus' = [n \in JobIds |->
                        IF n = writes + 1 THEN "pending"
                        ELSE IF n \in ReplacedJobs(k) THEN "superseded"
                        ELSE jobStatus[n]]

\* The row gets the new text, its vector is cleared, its job is inserted: one commit.
WriteItem(k) ==
    /\ writes < MaxWrites
    /\ writes' = writes + 1
    /\ content' = [content EXCEPT ![k] = writes + 1]
    /\ vector' = [vector EXCEPT ![k] = 0]
    /\ EnqueueEmbedding(k)

\* The SELECT by identity key.
LookUp(u, k) ==
    /\ writer[u].pc = "idle"
    /\ calls < MaxWrites
    /\ calls' = calls + 1
    /\ WriteLockFree
    /\ writer' = [writer EXCEPT
                    ![u] = [pc |-> IF content[k] = 0 THEN "absent" ELSE "found", key |-> k]]
    /\ UNCHANGED <<items, writes, jobs, worker, faults>>

\* The UPDATE branch: "updated".  The row lock it takes is held to its commit.
UpdateItem(u) ==
    /\ writer[u].pc = "found"
    /\ WriteItem(writer[u].key)
    /\ Become(u, "idle")
    /\ UNCHANGED <<calls, worker, faults>>

\* The COUNT of active items: "active_memory_quota_reached", or on to the INSERT.
CountActive(u) ==
    /\ writer[u].pc = "absent"
    /\ Become(u, IF QuotaReached(writer[u].key) THEN "idle" ELSE "counted")
    /\ UNCHANGED <<calls, items, writes, jobs, worker, faults>>

\* The INSERT branch: "created".  A row of the same key that another transaction
\* committed since the SELECT violates UNIQUE and ends in "memory_write_failed".
InsertItem(u) ==
    /\ writer[u].pc = "counted"
    /\ IF content[writer[u].key] = 0
       THEN WriteItem(writer[u].key)
       ELSE UNCHANGED <<items, writes, jobs>>
    /\ Become(u, "idle")
    /\ UNCHANGED <<calls, worker, faults>>

\* An error or the end of the API process inside the transaction rolls it back.
RollBack(u) ==
    /\ writer[u].pc # "idle"
    /\ Become(u, "idle")
    /\ UNCHANGED <<calls, items, writes, jobs, worker, faults>>

\* _maybe_cleanup: finished jobs whose updated_at is past the event TTL.
PurgeFinishedJobs ==
    /\ WriteLockFree
    /\ \E old \in SUBSET {n \in JobIds : jobStatus[n] \in {"completed", "failed"}} :
          /\ old # {}
          /\ jobStatus' = [n \in JobIds |-> IF n \in old THEN "purged" ELSE jobStatus[n]]
    /\ UNCHANGED <<calls, items, writes, jobKey, writer, worker, faults>>

-----------------------------------------------------------------------------
(* MemoryWorker *)

Pending == {n \in JobIds : jobStatus[n] = "pending"}

\* The batches a claim may select.  Which pending rows come first depends on the
\* clocks of the writers (created_at), so any of them may.
Batches ==
    {S \in SUBSET Pending :
        /\ S # {}
        /\ Cardinality(S) <= ClaimLimit
        /\ Cardinality(S) < ClaimLimit => S = Pending}

SetStatus_Misspelt(S, status) ==
    LET written == IF status = "running" THEN "processing" ELSE status
    IN  jobStatus' = [n \in JobIds |-> IF n \in S THEN written ELSE jobStatus[n]]
SetStatus(S, status) ==
    jobStatus' = [n \in JobIds |-> IF n \in S THEN status ELSE jobStatus[n]]

\* PostgreSQL claims with one UPDATE ... RETURNING over FOR UPDATE SKIP LOCKED.
ClaimJobs(w) ==
    /\ Backend = "postgres"
    /\ worker[w].pc = "idle"
    /\ \E S \in Batches :
          /\ SetStatus(S, "running")
          /\ worker' = [worker EXCEPT ![w] = Poised("next", S)]
    /\ UNCHANGED <<calls, items, writes, jobKey, writer, faults>>

\* SQLite selects without a lock ...
SelectJobs(w) ==
    /\ Backend = "sqlite"
    /\ worker[w].pc = "idle"
    /\ \E S \in Batches :
          worker' = [worker EXCEPT ![w] = Poised("selected", S)]
    /\ UNCHANGED <<calls, items, writes, jobs, writer, faults>>

\* ... then updates the rows that are still pending, and returns every row it selected.
MarkJobs(w) ==
    /\ worker[w].pc = "selected"
    /\ WriteLockFree
    /\ SetStatus(worker[w].batch \cap Pending, "running")
    /\ worker' = [worker EXCEPT ![w].pc = "next"]
    /\ UNCHANGED <<calls, items, writes, jobKey, writer, faults>>

\* _run_job takes the next job of the batch and reads the text of its item.
ReadContent(w) ==
    /\ worker[w].pc = "next"
    /\ \E n \in worker[w].batch :
          worker' = [worker EXCEPT
                       ![w] = [pc |-> "read", batch |-> worker[w].batch \ {n},
                               job |-> n, text |-> content[jobKey[n]]]]
    /\ UNCHANGED <<calls, items, writes, jobs, writer, faults>>

\* store_memory_embedding finds the row by id alone, whatever text it holds by now.
StoreVector_IfAbsent(w) ==
    vector' = [vector EXCEPT ![jobKey[worker[w].job]] = IF @ = 0 THEN worker[w].text ELSE @]
StoreVector(w) == vector' = [vector EXCEPT ![jobKey[worker[w].job]] = worker[w].text]

StoreEmbedding(w) ==
    /\ worker[w].pc = "read"
    /\ WriteLockFree
    /\ StoreVector(w)
    /\ worker' = [worker EXCEPT ![w].pc = "stored"]
    /\ UNCHANGED <<calls, content, writes, jobs, writer, faults>>

\* embed_query or the store raised: run_once goes on to fail_memory_job.
JobRaises(w) ==
    /\ worker[w].pc = "read"
    /\ faults < MaxFaults
    /\ worker' = [worker EXCEPT ![w].pc = "failing"]
    /\ faults' = faults + 1
    /\ UNCHANGED <<calls, items, writes, jobs, writer>>

\* _finish_memory_job: an UPDATE by id that looks at nothing else.  run_once then
\* turns to the rest of the batch, or to its next poll.
FinishJob(w) ==
    /\ worker[w].pc \in {"stored", "failing"}
    /\ WriteLockFree
    /\ jobStatus' = [jobStatus EXCEPT
                        ![worker[w].job] =
                            IF @ \in {"superseded", "purged"} THEN @
                            ELSE IF worker[w].pc = "stored" THEN "completed" ELSE "failed"]
    /\ worker' = [worker EXCEPT
                    ![w] = Poised(IF worker[w].batch = {} THEN "idle" ELSE "next",
                                  worker[w].batch)]
    /\ UNCHANGED <<calls, items, writes, jobKey, writer, faults>>

\* The process ends (a deploy, a kill, a database error outside _run_job) and the
\* container restarts it; the jobs it had claimed stay 'running'.
CrashWorker(w) ==
    /\ worker[w].pc # "idle"
    /\ faults < MaxFaults
    /\ worker' = [worker EXCEPT ![w] = IdleWorker]
    /\ faults' = faults + 1
    /\ UNCHANGED <<calls, items, writes, jobs, writer>>

-----------------------------------------------------------------------------
WriterStep(u) == UpdateItem(u) \/ CountActive(u) \/ InsertItem(u)

WorkerStep(w) ==
    \/ ClaimJobs(w) \/ SelectJobs(w) \/ MarkJobs(w)
    \/ ReadContent(w) \/ StoreEmbedding(w) \/ FinishJob(w)

Next ==
    \/ \E u \in Writers :
          \/ \E k \in Keys : LookUp(u, k)
          \/ WriterStep(u)
          \/ RollBack(u)
    \/ PurgeFinishedJobs
    \/ \E w \in Workers : WorkerStep(w) \/ JobRaises(w) \/ CrashWorker(w)

Spec == Init /\ [][Next]_vars

\* run_forever polls without end, and an upsert that has started runs to its commit
\* or its rollback; nothing makes a caller write, or a job or a process fail.
FairSpec ==
    /\ Spec
    /\ \A u \in Writers : WF_vars(WriterStep(u))
    /\ \A w \in Workers : WF_vars(WorkerStep(w))

-----------------------------------------------------------------------------
\* At most one pending job per item: an item written again before the worker gets
\* to it is embedded once (_enqueue_embedding deletes the pending job it replaces).
OnePendingJob ==
    \A m, n \in JobIds :
        jobStatus[m] = "pending" /\ jobStatus[n] = "pending" /\ jobKey[m] = jobKey[n]
            => m = n

\* A job that says 'completed' tells the truth: when it is the job of the text an item
\* holds, the item's vector embeds that text, whatever was rewritten between the
\* worker's read and its store, and whatever crashed or failed.
CompletedMeansCurrent ==
    \A k \in Keys :
        content[k] # 0 /\ jobStatus[content[k]] = "completed" => vector[k] = content[k]

\* No account has more active items than its quota (docs/rag-two-layer-memory.md,
\* "Active long-term memories/user"), though upsert_memory counts before it inserts.
QuotaHolds == \A user \in Users : Cardinality(ActiveItems(user)) <= Quota

\* Every text an item gets is embedded unless a later text replaces it
\* (docs/rag-two-layer-memory.md: the worker "writes the vector later").
EveryWriteEmbedded ==
    \A k \in Keys, n \in JobIds :
        content[k] = n ~> (vector[k] = n \/ content[k] # n)

\* A worker that is going to embed the text of job n, or is doing it.
Embedding(w, n) == n \in worker[w].batch \/ (worker[w].pc = "read" /\ worker[w].job = n)

\* Nothing is forgotten as long as nothing fails: a text without its vector has a job that
\* waits or that a worker holds, whatever was rewritten, claimed or purged meanwhile.
NothingForgotten ==
    faults = 0 =>
        \A k \in Keys :
            content[k] # 0 /\ vector[k] # content[k] =>
                jobStatus[content[k]] = "pending" \/ \E w \in Workers : Embedding(w, content[k])

-----------------------------------------------------------------------------
(* What makes the invariants inductive (MemoryQueueProofs). *)

\* Jobs and texts are numbered in commit order; the pending job of an item is the
\* job of the text it holds.
QueueOrder ==
    /\ \A n \in JobIds :
          /\ n > writes => jobStatus[n] = "none"
          /\ n <= writes => n <= content[jobKey[n]]
          /\ jobStatus[n] = "pending" => n = content[jobKey[n]]
    /\ \A k \in Keys : content[k] # 0 => content[k] <= writes /\ jobKey[content[k]] = k

JobItem(w) == jobKey[worker[w].job]

\* A worker works only on jobs of committed writes.
ClaimedJobs ==
    \A w \in Workers :
        /\ worker[w].batch \subseteq 1..writes
        /\ worker[w].pc \in {"read", "stored", "failing"} => worker[w].job \in 1..writes

QueueInv == TypeOK /\ QueueOrder /\ ClaimedJobs

\* A worker takes up a job after the write that enqueued it; what it read is stale only
\* while the job of the newer text still waits for it.
ReadOrderOf(w) ==
    /\ worker[w].pc = "read" =>
          /\ worker[w].job <= worker[w].text
          /\ worker[w].text <= content[JobItem(w)]
          /\ worker[w].text # content[JobItem(w)] => jobStatus[content[JobItem(w)]] = "pending"
    /\ worker[w].pc = "stored" /\ worker[w].job = content[JobItem(w)]
          => vector[JobItem(w)] = worker[w].job
ReadOrder == \A w \in Workers : ReadOrderOf(w)

\* An idle worker holds no jobs, and a job only fails by a fault.
WorkerAtRest ==
    \A w \in Workers :
        /\ worker[w].pc = "idle" => worker[w].batch = {}
        /\ worker[w].pc = "failing" => faults # 0

SingleWorker == \A v, w \in Workers : v = w
VectorInv == QueueInv /\ ReadOrder /\ CompletedMeansCurrent

\* What a writer has read and counted still holds when it commits: no item is ever
\* removed, and under SQLite no other writer is inside a transaction.
ReadsHold ==
    \A u \in Writers :
        /\ writer[u].pc = "found" => content[writer[u].key] # 0
        /\ writer[u].pc = "counted" =>
              Cardinality(ActiveItems(Owner[writer[u].key])) < Quota
        /\ \A v \in Writers : writer[u].pc # "idle" /\ writer[v].pc # "idle" => u = v

QuotaInv ==
    /\ TypeOK
    /\ ReadsHold
    /\ \A user \in Users : IsFiniteSet(ActiveItems(user))
    /\ QuotaHolds
=============================================================================
