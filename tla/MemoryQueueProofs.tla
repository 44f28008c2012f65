------------------------- MODULE MemoryQueueProofs -------------------------
(***************************************************************************)
(* Proofs about MemoryQueue, for any keys, writers, quota and bounds.      *)
(* The text of an item and the job of that text have the same number, so   *)
(* the invariants order jobs and texts by it.                              *)
(***************************************************************************)
EXTENDS MemoryQueue, FiniteSetTheorems, TLAPS

LEMMA AnyKeyInKeys == AnyKey \in Keys
BY OwnerAssumption DEF AnyKey

\* What a claim may select is a set of pending jobs.
LEMMA BatchIsPending == ASSUME NEW S \in Batches PROVE S \subseteq Pending /\ S \subseteq JobIds
BY DEF Batches, Pending

LEMMA WriteItemTypes ==
    ASSUME TypeOK, NEW k \in Keys, WriteItem(k)
    PROVE  /\ content' \in [Keys -> 0..MaxWrites]
           /\ vector' \in [Keys -> 0..MaxWrites]
           /\ writes' \in 0..MaxWrites
           /\ jobKey' \in [JobIds -> Keys]
           /\ jobStatus' \in [JobIds -> JobStatuses]
           /\ writes + 1 \in JobIds
<1>1. writes + 1 \in JobIds
  BY BoundsAssumption DEF TypeOK, WriteItem, JobIds
<1>2. writes + 1 \in 0..MaxWrites
  BY <1>1, BoundsAssumption DEF JobIds, TypeOK
<1>3. jobStatus' \in [JobIds -> JobStatuses]
  BY DEF TypeOK, WriteItem, EnqueueEmbedding, JobStatuses
<1> QED
  BY <1>1, <1>2, <1>3, BoundsAssumption DEF TypeOK, WriteItem, EnqueueEmbedding

\* Type correctness: jobs, texts and vectors stay within the writes the bound allows.
THEOREM TypeCorrect == Spec => []TypeOK
<1>1. Init => TypeOK
  BY AnyKeyInKeys, BoundsAssumption
     DEF Init, TypeOK, WriterState, WorkerState, IdleWorker, Poised, JobStatuses, JobIds
<1>2. TypeOK /\ [Next]_vars => TypeOK'
  <2> SUFFICES ASSUME TypeOK, [Next]_vars PROVE TypeOK'
    OBVIOUS
  <2>1. ASSUME NEW u \in Writers, NEW k \in Keys, LookUp(u, k) PROVE TypeOK'
    <3>1. [pc |-> IF content[k] = 0 THEN "absent" ELSE "found", key |-> k] \in WriterState
      BY DEF WriterState
    <3>2. calls' \in 0..MaxWrites
      BY <2>1, BoundsAssumption DEF LookUp, TypeOK
    <3> QED BY <2>1, <3>1, <3>2 DEF LookUp, TypeOK, items, jobs
  <2>2. ASSUME NEW u \in Writers, WriterStep(u) \/ RollBack(u) PROVE TypeOK'
    <3>1. \A state \in {"idle", "found", "absent", "counted"} :
             [writer EXCEPT ![u].pc = state] \in [Writers -> WriterState]
      BY DEF TypeOK, WriterState
    <3>2. CASE UpdateItem(u)
      BY <3>1, <3>2, WriteItemTypes DEF UpdateItem, Become, TypeOK, WriterState
    <3>3. CASE CountActive(u)
      BY <3>1, <3>3 DEF CountActive, Become, TypeOK, items, jobs
    <3>4. CASE InsertItem(u)
      <4>1. CASE content[writer[u].key] = 0
        BY <3>1, <3>4, <4>1, WriteItemTypes DEF InsertItem, Become, TypeOK, WriterState
      <4>2. CASE content[writer[u].key] # 0
        BY <3>1, <3>4, <4>2 DEF InsertItem, Become, TypeOK, items, jobs
      <4> QED BY <4>1, <4>2
    <3>5. CASE RollBack(u)
      BY <3>1, <3>5 DEF RollBack, Become, TypeOK, items, jobs
    <3> QED BY <2>2, <3>2, <3>3, <3>4, <3>5 DEF WriterStep
  <2>3. ASSUME PurgeFinishedJobs PROVE TypeOK'
    BY <2>3 DEF PurgeFinishedJobs, TypeOK, items, JobStatuses
  <2>4. ASSUME NEW w \in Workers, WorkerStep(w) PROVE TypeOK'
    <3>1. CASE ClaimJobs(w)
      BY <3>1, BatchIsPending, BoundsAssumption
         DEF ClaimJobs, SetStatus, TypeOK, items, JobStatuses, IdleWorker, Poised, WorkerState
    <3>2. CASE SelectJobs(w)
      BY <3>2, BatchIsPending, BoundsAssumption
         DEF SelectJobs, TypeOK, items, jobs, Poised, WorkerState
    <3>3. CASE MarkJobs(w)
      BY <3>3 DEF MarkJobs, SetStatus, TypeOK, items, JobStatuses, WorkerState
    <3>4. CASE ReadContent(w)
      <4>1. PICK n \in worker[w].batch :
              worker' = [worker EXCEPT
                           ![w] = [pc |-> "read", batch |-> worker[w].batch \ {n},
                                   job |-> n, text |-> content[jobKey[n]]]]
        BY <3>4 DEF ReadContent
      <4>2. n \in JobIds /\ n \in 0..MaxWrites /\ content[jobKey[n]] \in 0..MaxWrites
        BY <4>1, BoundsAssumption DEF TypeOK, WorkerState, JobIds
      <4>3. worker' \in [Workers -> WorkerState]
        BY <4>1, <4>2 DEF TypeOK, WorkerState
      <4> QED BY <3>4, <4>3 DEF ReadContent, TypeOK, items, jobs
    <3>5. CASE StoreEmbedding(w)
      BY <3>5 DEF StoreEmbedding, StoreVector, TypeOK, jobs, WorkerState
    <3>6. CASE FinishJob(w)
      <4>1. jobStatus' \in [JobIds -> JobStatuses]
        BY <3>6 DEF FinishJob, TypeOK, JobStatuses
      <4>2. worker' \in [Workers -> WorkerState]
        <5>1. worker[w].batch \in SUBSET JobIds
          BY DEF TypeOK, WorkerState
        <5>2. \A pc \in {"idle", "next"} : Poised(pc, worker[w].batch) \in WorkerState
          BY <5>1, BoundsAssumption DEF Poised, WorkerState
        <5> QED BY <3>6, <5>2 DEF FinishJob, TypeOK
      <4> QED BY <3>6, <4>1, <4>2 DEF FinishJob, TypeOK, items
    <3> QED BY <2>4, <3>1, <3>2, <3>3, <3>4, <3>5, <3>6 DEF WorkerStep
  <2>5. ASSUME NEW w \in Workers, JobRaises(w) \/ CrashWorker(w) PROVE TypeOK'
    <3>1. faults' \in 0..MaxFaults
      BY <2>5, BoundsAssumption DEF JobRaises, CrashWorker, TypeOK
    <3> QED
      BY <2>5, <3>1, BoundsAssumption
         DEF JobRaises, CrashWorker, TypeOK, items, jobs, IdleWorker, Poised, WorkerState
  <2>6. CASE UNCHANGED vars
    BY <2>6 DEF vars, items, jobs, TypeOK
  <2> QED BY <2>1, <2>2, <2>3, <2>4, <2>5, <2>6 DEF Next
<1> QED BY <1>1, <1>2, PTL DEF Spec

-----------------------------------------------------------------------------
(* At most one pending job per item, for any number of workers. *)

LEMMA WriteItemQueueOrder ==
    ASSUME TypeOK, QueueOrder, NEW k \in Keys, WriteItem(k)
    PROVE  QueueOrder'
<1> DEFINE new == writes + 1
<1>1. /\ new \in JobIds /\ writes' = new /\ writes \in Nat
      /\ content' = [content EXCEPT ![k] = new]
      /\ jobKey' = [jobKey EXCEPT ![new] = k]
      /\ jobStatus' = [n \in JobIds |->
                         IF n = new THEN "pending"
                         ELSE IF n \in ReplacedJobs(k) THEN "superseded"
                         ELSE jobStatus[n]]
  <2>1. new \in JobIds
    BY WriteItemTypes
  <2>2. writes \in Nat
    BY BoundsAssumption DEF TypeOK
  <2> QED BY <2>1, <2>2 DEF WriteItem, EnqueueEmbedding
<1>2. ASSUME NEW n \in JobIds, n > writes' PROVE jobStatus'[n] = "none"
  <2>1. n > writes /\ n # new /\ n \in Nat
    BY <1>1, <1>2 DEF JobIds
  <2>2. jobStatus[n] = "none"
    BY <2>1 DEF QueueOrder
  <2> QED BY <1>1, <2>1, <2>2 DEF ReplacedJobs
<1>3. ASSUME NEW n \in JobIds, n <= writes' PROVE n <= content'[jobKey'[n]]
  <2>1. CASE n = new
    BY <1>1, <2>1 DEF TypeOK, JobIds
  <2>2. CASE n # new
    <3>1. n <= writes /\ n <= content[jobKey[n]] /\ jobKey[n] \in Keys /\ n \in Nat
      BY <1>1, <1>3, <2>2 DEF QueueOrder, TypeOK, JobIds
    <3> QED BY <1>1, <2>2, <3>1 DEF TypeOK
  <2> QED BY <2>1, <2>2
<1>4. ASSUME NEW n \in JobIds, jobStatus'[n] = "pending" PROVE n = content'[jobKey'[n]]
  <2>1. CASE n = new
    BY <1>1, <2>1 DEF TypeOK
  <2>2. CASE n # new
    <3>1. jobStatus[n] = "pending" /\ n \notin ReplacedJobs(k)
      BY <1>1, <1>4, <2>2
    <3>2. jobKey[n] # k /\ n = content[jobKey[n]]
      BY <3>1 DEF ReplacedJobs, QueueOrder
    <3> QED BY <1>1, <2>2, <3>2 DEF TypeOK
  <2> QED BY <2>1, <2>2
<1>5. ASSUME NEW j \in Keys, content'[j] # 0
      PROVE  content'[j] <= writes' /\ jobKey'[content'[j]] = j
  <2>1. CASE j = k
    BY <1>1, <2>1 DEF TypeOK, JobIds
  <2>2. CASE j # k
    <3>1. content'[j] = content[j] /\ content[j] <= writes /\ jobKey[content[j]] = j
      BY <1>1, <1>5, <2>2 DEF TypeOK, QueueOrder
    <3>2. content[j] # new /\ content[j] \in JobIds
      BY <1>1, <1>5, <3>1, BoundsAssumption DEF TypeOK, JobIds
    <3> QED BY <1>1, <3>1, <3>2 DEF TypeOK
  <2> QED BY <2>1, <2>2
<1> QED BY <1>2, <1>3, <1>4, <1>5 DEF QueueOrder

\* A step that leaves texts and job keys alone, and makes no job pending and no
\* unused job used, keeps the order.
LEMMA StatusStepQueueOrder ==
    ASSUME TypeOK, QueueOrder, content' = content, writes' = writes, jobKey' = jobKey,
           \A n \in JobIds : jobStatus'[n] = jobStatus[n]
                               \/ (n <= writes /\ jobStatus'[n] # "pending")
    PROVE  QueueOrder'
<1>1. \A n \in JobIds : n \in Nat /\ writes \in Nat
  BY BoundsAssumption DEF TypeOK, JobIds
<1> QED BY <1>1 DEF QueueOrder

LEMMA UsedJob ==
    ASSUME TypeOK, QueueOrder, NEW n \in JobIds, jobStatus[n] # "none"
    PROVE  n <= writes /\ n \in 1..writes
BY BoundsAssumption DEF TypeOK, QueueOrder, JobIds

LEMMA WriterStepQueueInv ==
    ASSUME QueueInv, NEW u \in Writers, WriterStep(u) PROVE QueueOrder' /\ ClaimedJobs'
<1>1. worker' = worker
  BY DEF WriterStep, UpdateItem, CountActive, InsertItem
<1>2. ASSUME WriteItem(writer[u].key) PROVE QueueOrder' /\ ClaimedJobs'
  <2>1. writer[u].key \in Keys
    BY DEF QueueInv, TypeOK, WriterState
  <2>2. QueueOrder'
    BY <1>2, <2>1, WriteItemQueueOrder DEF QueueInv
  <2>3. 1..writes \subseteq 1..writes'
    BY <1>2, BoundsAssumption DEF WriteItem, QueueInv, TypeOK
  <2> QED BY <1>1, <2>2, <2>3 DEF QueueInv, ClaimedJobs
<1>3. ASSUME UNCHANGED <<items, writes, jobs>> PROVE QueueOrder' /\ ClaimedJobs'
  BY <1>1, <1>3 DEF QueueInv, QueueOrder, ClaimedJobs, items, jobs
<1> QED BY <1>2, <1>3 DEF WriterStep, UpdateItem, CountActive, InsertItem

LEMMA WorkerStepQueueInv ==
    ASSUME QueueInv, NEW w \in Workers, WorkerStep(w) PROVE QueueOrder' /\ ClaimedJobs'
<1> USE DEF QueueInv
<1>0. \A S \in Batches : S \subseteq 1..writes /\ S \subseteq Pending
  BY BatchIsPending, UsedJob DEF Pending
<1>1. CASE ClaimJobs(w)
  <2>1. PICK S \in Batches : SetStatus(S, "running")
                             /\ worker' = [worker EXCEPT ![w] = Poised("next", S)]
    BY <1>1 DEF ClaimJobs
  <2>2. QueueOrder'
    BY <1>0, <1>1, <2>1, StatusStepQueueOrder DEF ClaimJobs, SetStatus, items
  <2>3. ClaimedJobs'
    BY <1>0, <1>1, <2>1 DEF ClaimJobs, ClaimedJobs, Poised, TypeOK
  <2> QED BY <2>2, <2>3
<1>2. CASE SelectJobs(w)
  <2>1. PICK S \in Batches : worker' = [worker EXCEPT ![w] = Poised("selected", S)]
    BY <1>2 DEF SelectJobs
  <2>2. ClaimedJobs'
    BY <1>0, <1>2, <2>1 DEF SelectJobs, ClaimedJobs, Poised, TypeOK
  <2> QED BY <1>2, <2>2 DEF SelectJobs, QueueOrder, items, jobs
<1>3. CASE MarkJobs(w)
  <2>1. \A n \in worker[w].batch \cap Pending : n <= writes
    BY UsedJob DEF Pending
  <2>2. QueueOrder'
    BY <1>3, <2>1, StatusStepQueueOrder DEF MarkJobs, SetStatus, items
  <2>3. ClaimedJobs'
    BY <1>3 DEF MarkJobs, ClaimedJobs, TypeOK, WorkerState
  <2> QED BY <2>2, <2>3
<1>4. CASE ReadContent(w)
  <2>1. PICK n \in worker[w].batch :
          worker' = [worker EXCEPT
                       ![w] = [pc |-> "read", batch |-> worker[w].batch \ {n},
                               job |-> n, text |-> content[jobKey[n]]]]
    BY <1>4 DEF ReadContent
  <2>2. ClaimedJobs'
    BY <1>4, <2>1 DEF ReadContent, ClaimedJobs, TypeOK
  <2> QED BY <1>4, <2>2 DEF ReadContent, QueueOrder, items, jobs
<1>5. CASE StoreEmbedding(w)
  <2>1. ClaimedJobs'
    BY <1>5 DEF StoreEmbedding, ClaimedJobs, TypeOK, WorkerState
  <2> QED BY <1>5, <2>1 DEF StoreEmbedding, QueueOrder, jobs
<1>6. CASE FinishJob(w)
  <2>1. worker[w].job \in JobIds /\ worker[w].job <= writes
    BY <1>6, BoundsAssumption DEF FinishJob, ClaimedJobs, TypeOK, JobIds
  <2>2. QueueOrder'
    BY <1>6, <2>1, StatusStepQueueOrder DEF FinishJob, TypeOK, items
  <2>3. ClaimedJobs'
    BY <1>6 DEF FinishJob, ClaimedJobs, Poised, TypeOK
  <2> QED BY <2>2, <2>3
<1> QED BY <1>1, <1>2, <1>3, <1>4, <1>5, <1>6 DEF WorkerStep

LEMMA QueueInvInductive == QueueInv /\ [Next]_vars => QueueOrder' /\ ClaimedJobs'
<1> SUFFICES ASSUME QueueInv, [Next]_vars PROVE QueueOrder' /\ ClaimedJobs'
  OBVIOUS
<1>1. ASSUME NEW u \in Writers, NEW k \in Keys, LookUp(u, k)
      PROVE  QueueOrder' /\ ClaimedJobs'
  BY <1>1 DEF LookUp, QueueInv, QueueOrder, ClaimedJobs, items, jobs
<1>2. ASSUME NEW u \in Writers, RollBack(u) PROVE QueueOrder' /\ ClaimedJobs'
  BY <1>2 DEF RollBack, QueueInv, QueueOrder, ClaimedJobs, items, jobs
<1>3. ASSUME PurgeFinishedJobs PROVE QueueOrder' /\ ClaimedJobs'
  <2>1. QueueOrder'
    BY <1>3, UsedJob, StatusStepQueueOrder DEF PurgeFinishedJobs, QueueInv, items
  <2> QED BY <1>3, <2>1 DEF PurgeFinishedJobs, QueueInv, ClaimedJobs
<1>4. ASSUME NEW w \in Workers, JobRaises(w) \/ CrashWorker(w)
      PROVE  QueueOrder' /\ ClaimedJobs'
  <2>1. ClaimedJobs'
    BY <1>4 DEF JobRaises, CrashWorker, IdleWorker, Poised, QueueInv, ClaimedJobs, TypeOK,
                WorkerState
  <2> QED BY <1>4, <2>1 DEF JobRaises, CrashWorker, QueueInv, QueueOrder, items, jobs
<1>5. CASE UNCHANGED vars
  BY <1>5 DEF vars, items, jobs, QueueInv, QueueOrder, ClaimedJobs
<1> QED BY <1>1, <1>2, <1>3, <1>4, <1>5, WriterStepQueueInv, WorkerStepQueueInv DEF Next

\* The queue is in order at all times: jobs and texts are numbered by commit, a pending job is the
\* job of the text its item holds, and workers hold committed jobs only.
THEOREM QueueInvCorrect == Spec => []QueueInv
<1>1. Init => QueueOrder /\ ClaimedJobs
  BY AnyKeyInKeys, BoundsAssumption
     DEF Init, QueueOrder, ClaimedJobs, IdleWorker, Poised, JobIds
<1> QED BY <1>1, TypeCorrect, QueueInvInductive, PTL DEF Spec, QueueInv

\* However upserts and workers interleave, and whatever fails, the queue holds at most
\* one pending job for an item.
THEOREM OnePendingJobCorrect == Spec => []OnePendingJob
<1>1. QueueInv => OnePendingJob
  BY DEF QueueInv, QueueOrder, OnePendingJob
<1> QED BY <1>1, QueueInvCorrect, PTL

-----------------------------------------------------------------------------
(* A completed job tells the truth, with one worker process. *)

LEMMA WorkerJob ==
    ASSUME QueueInv, NEW w \in Workers, worker[w].pc \in {"read", "stored", "failing"}
    PROVE  /\ worker[w].job \in JobIds
           /\ worker[w].job \in Nat
           /\ JobItem(w) \in Keys
           /\ worker[w].job <= content[JobItem(w)]
           /\ content[JobItem(w)] \in JobIds
<1>1. worker[w].job \in 1..writes /\ worker[w].job \in JobIds /\ worker[w].job \in Nat
      /\ worker[w].job <= writes
  BY BoundsAssumption DEF QueueInv, ClaimedJobs, TypeOK, JobIds
<1>2. JobItem(w) \in Keys /\ worker[w].job <= content[JobItem(w)]
  BY <1>1 DEF QueueInv, TypeOK, QueueOrder, JobItem
<1> QED BY <1>1, <1>2, BoundsAssumption DEF QueueInv, TypeOK, JobIds

\* A write makes the item's text a new one, whose job is pending.
LEMMA WriteItemVectorInv ==
    ASSUME VectorInv, NEW k \in Keys, WriteItem(k), worker' = worker
    PROVE  ReadOrder' /\ CompletedMeansCurrent'
<1> USE DEF VectorInv
<1> DEFINE new == writes + 1
<1>1. /\ new \in JobIds /\ new \in Nat /\ new > writes
      /\ content' = [content EXCEPT ![k] = new]
      /\ vector' = [vector EXCEPT ![k] = 0]
      /\ jobKey' = [jobKey EXCEPT ![new] = k]
      /\ jobStatus' = [n \in JobIds |->
                         IF n = new THEN "pending"
                         ELSE IF n \in ReplacedJobs(k) THEN "superseded"
                         ELSE jobStatus[n]]
  <2>1. new \in JobIds
    BY WriteItemTypes DEF QueueInv
  <2>2. writes \in Nat
    BY BoundsAssumption DEF TypeOK, QueueInv
  <2> QED BY <2>1, <2>2 DEF WriteItem, EnqueueEmbedding, JobIds
<1>2. ASSUME NEW w \in Workers, worker[w].pc \in {"read", "stored"} PROVE ReadOrderOf(w)'
  <2> DEFINE i == JobItem(w)
  <2>1. /\ worker[w].job \in JobIds /\ i \in Keys /\ worker[w].job \in Nat
        /\ worker[w].job <= content[i] /\ content[i] \in JobIds
    BY <1>2, WorkerJob
  <2>2. worker[w].job # new /\ worker[w].job <= writes
    BY <1>1, <1>2, BoundsAssumption DEF QueueInv, ClaimedJobs, TypeOK
  <2>3. JobItem(w)' = i
    BY <1>1, <2>1, <2>2 DEF JobItem, QueueInv, TypeOK
  <2>4. ReadOrderOf(w)
    BY DEF ReadOrder
  <2>5. CASE i = k
    <3>1. content'[i] = new /\ jobStatus'[new] = "pending"
      BY <1>1, <2>1, <2>5 DEF QueueInv, TypeOK
    <3>2. worker[w].pc = "read" => worker[w].text <= new
      <4>1. content[i] <= writes /\ content[i] \in Nat /\ worker[w].text \in Nat
            /\ writes \in Nat
        BY <2>1, BoundsAssumption DEF QueueInv, QueueOrder, TypeOK, JobIds, WorkerState
      <4> QED BY <1>1, <2>4, <4>1 DEF ReadOrderOf
    <3> QED BY <2>2, <2>3, <2>4, <3>1, <3>2 DEF ReadOrderOf
  <2>6. CASE i # k
    <3>1. content'[i] = content[i] /\ vector'[i] = vector[i]
      BY <1>1, <2>1, <2>6 DEF QueueInv, TypeOK
    <3>2. content[i] # new /\ jobKey[content[i]] = i
      BY <1>1, <2>1, BoundsAssumption DEF QueueInv, QueueOrder, TypeOK, JobIds
    <3>3. jobStatus'[content[i]] = jobStatus[content[i]]
      BY <1>1, <2>1, <2>6, <3>2 DEF ReplacedJobs
    <3> QED BY <2>3, <2>4, <3>1, <3>3 DEF ReadOrderOf
  <2> QED BY <2>5, <2>6
<1>3. ReadOrder'
  <2>1. \A w \in Workers : worker[w].pc \notin {"read", "stored"} => ReadOrderOf(w)'
    BY DEF ReadOrderOf
  <2> QED BY <1>2, <2>1 DEF ReadOrder
<1>4. ASSUME NEW j \in Keys, content'[j] # 0, jobStatus'[content'[j]] = "completed"
      PROVE  vector'[j] = content'[j]
  <2>1. j # k
    BY <1>1, <1>4 DEF QueueInv, TypeOK
  <2>2. content'[j] = content[j] /\ vector'[j] = vector[j] /\ content[j] \in JobIds
    BY <1>1, <1>4, <2>1, BoundsAssumption DEF QueueInv, TypeOK, JobIds
  <2>3. jobStatus[content[j]] = "completed"
    BY <1>1, <1>4, <2>2
  <2> QED BY <1>4, <2>2, <2>3 DEF CompletedMeansCurrent
<1> QED BY <1>3, <1>4 DEF CompletedMeansCurrent

\* A step that changes only statuses, and completes nothing.
LEMMA NoCompletionStep ==
    ASSUME CompletedMeansCurrent, UNCHANGED items, TypeOK,
           \A n \in JobIds : jobStatus'[n] = "completed" => jobStatus[n] = "completed"
    PROVE  CompletedMeansCurrent'
<1>1. \A k \in Keys : content[k] # 0 => content[k] \in JobIds
  BY BoundsAssumption DEF TypeOK, JobIds
<1> QED BY <1>1 DEF CompletedMeansCurrent, items

LEMMA WriterStepVectorInv ==
    ASSUME VectorInv, NEW u \in Writers, WriterStep(u)
    PROVE  ReadOrder' /\ CompletedMeansCurrent'
<1>1. worker' = worker /\ writer[u].key \in Keys
  BY DEF WriterStep, UpdateItem, CountActive, InsertItem, VectorInv, QueueInv, TypeOK,
         WriterState
<1>2. ASSUME UNCHANGED <<items, writes, jobs>> PROVE ReadOrder' /\ CompletedMeansCurrent'
  BY <1>1, <1>2
     DEF VectorInv, ReadOrder, ReadOrderOf, JobItem, CompletedMeansCurrent, items, jobs
<1>3. WriteItem(writer[u].key) \/ UNCHANGED <<items, writes, jobs>>
  BY DEF WriterStep, UpdateItem, CountActive, InsertItem
<1> QED BY <1>1, <1>2, <1>3, WriteItemVectorInv

LEMMA PurgeVectorInv ==
    ASSUME VectorInv, PurgeFinishedJobs PROVE ReadOrder' /\ CompletedMeansCurrent'
<1>1. /\ UNCHANGED items /\ UNCHANGED <<jobKey, worker>>
      /\ \A n \in JobIds : /\ jobStatus'[n] = "completed" => jobStatus[n] = "completed"
                           /\ jobStatus[n] = "pending" => jobStatus'[n] = "pending"
  BY DEF PurgeFinishedJobs
<1>2. CompletedMeansCurrent'
  BY <1>1, NoCompletionStep DEF VectorInv, QueueInv
<1>3. ASSUME NEW w \in Workers PROVE ReadOrderOf(w)'
  <2>1. ReadOrderOf(w) /\ JobItem(w)' = JobItem(w)
    BY <1>1 DEF VectorInv, ReadOrder, JobItem
  <2>2. worker[w].pc = "read" => content[JobItem(w)] \in JobIds
    BY WorkerJob DEF VectorInv
  <2> QED BY <1>1, <2>1, <2>2 DEF ReadOrderOf, items
<1> QED BY <1>2, <1>3 DEF ReadOrder

\* What is left of ReadOrder when there is one worker and it is between jobs.
LEMMA BetweenJobs ==
    ASSUME SingleWorker, NEW w \in Workers, worker'[w].pc \notin {"read", "stored"}
    PROVE  ReadOrder'
BY DEF SingleWorker, ReadOrder, ReadOrderOf

LEMMA WorkerStepVectorInv ==
    ASSUME SingleWorker, VectorInv, NEW w \in Workers, WorkerStep(w)
    PROVE  ReadOrder' /\ CompletedMeansCurrent'
<1> USE DEF VectorInv, QueueInv
<1>1. CASE ClaimJobs(w) \/ SelectJobs(w)
  <2>1. PICK pc \in {"next", "selected"}, S \in SUBSET JobIds :
          worker' = [worker EXCEPT ![w] = Poised(pc, S)]
    BY <1>1, BatchIsPending DEF ClaimJobs, SelectJobs
  <2>2. worker'[w].pc \notin {"read", "stored"}
    BY <2>1 DEF Poised, TypeOK
  <2>3. CompletedMeansCurrent'
    BY <1>1, NoCompletionStep DEF ClaimJobs, SelectJobs, SetStatus, jobs
  <2> QED BY <2>2, <2>3, BetweenJobs
<1>2. CASE MarkJobs(w)
  <2>1. worker'[w].pc = "next"
    BY <1>2 DEF MarkJobs, TypeOK, WorkerState
  <2>2. CompletedMeansCurrent'
    BY <1>2, NoCompletionStep DEF MarkJobs, SetStatus
  <2> QED BY <2>1, <2>2, BetweenJobs
<1>3. CASE ReadContent(w)
  <2>1. PICK n \in worker[w].batch :
          worker' = [worker EXCEPT
                       ![w] = [pc |-> "read", batch |-> worker[w].batch \ {n},
                               job |-> n, text |-> content[jobKey[n]]]]
    BY <1>3 DEF ReadContent
  <2>2. n \in JobIds /\ n <= writes /\ n \in Nat
    BY BoundsAssumption DEF ClaimedJobs, TypeOK, JobIds
  <2>3. n <= content[jobKey[n]] /\ content[jobKey[n]] \in Nat
    BY <2>2, BoundsAssumption DEF QueueOrder, TypeOK
  <2>4. ReadOrderOf(w)'
    BY <1>3, <2>1, <2>3 DEF ReadContent, ReadOrderOf, JobItem, TypeOK, items, jobs
  <2>5. ReadOrder'
    BY <2>4 DEF SingleWorker, ReadOrder
  <2>6. CompletedMeansCurrent'
    BY <1>3 DEF ReadContent, CompletedMeansCurrent, items, jobs
  <2> QED BY <2>5, <2>6
<1>4. CASE StoreEmbedding(w)
  <2> DEFINE i == JobItem(w)
  <2>1. /\ worker[w].pc = "read" /\ i \in Keys /\ UNCHANGED <<content, jobKey, jobStatus>>
        /\ vector' = [vector EXCEPT ![i] = worker[w].text]
        /\ worker' = [worker EXCEPT ![w].pc = "stored"]
    BY <1>4, WorkerJob DEF StoreEmbedding, StoreVector, JobItem, jobs
  <2>2. /\ worker[w].job <= worker[w].text /\ worker[w].text <= content[i]
        /\ worker[w].text # content[i] => jobStatus[content[i]] = "pending"
    BY <2>1 DEF ReadOrder, ReadOrderOf
  <2>3. worker'[w].job = worker[w].job /\ JobItem(w)' = i /\ worker'[w].pc = "stored"
    BY <2>1 DEF JobItem, TypeOK, WorkerState
  <2>4. worker[w].job = content[i] => worker[w].text = content[i]
    BY <2>2, BoundsAssumption, WorkerJob, <2>1 DEF TypeOK, WorkerState
  <2>5. ReadOrderOf(w)'
    BY <2>1, <2>3, <2>4 DEF ReadOrderOf, TypeOK
  <2>6. ReadOrder'
    BY <2>5 DEF SingleWorker, ReadOrder
  <2>7. CompletedMeansCurrent'
    BY <2>1, <2>2 DEF CompletedMeansCurrent, TypeOK
  <2> QED BY <2>6, <2>7
<1>5. CASE FinishJob(w)
  <2>1. worker'[w].pc \in {"idle", "next"}
    BY <1>5 DEF FinishJob, Poised, TypeOK
  <2>2. ASSUME NEW k \in Keys, content'[k] # 0, jobStatus'[content'[k]] = "completed"
        PROVE  vector'[k] = content'[k]
    <3>1. UNCHANGED <<content, vector>> /\ content[k] \in JobIds
      BY <1>5, <2>2, BoundsAssumption DEF FinishJob, items, TypeOK, JobIds
    <3>2. CASE jobStatus[content[k]] = "completed"
      BY <2>2, <3>1, <3>2 DEF CompletedMeansCurrent
    <3>3. CASE jobStatus[content[k]] # "completed"
      <4>1. worker[w].job = content[k] /\ worker[w].pc = "stored"
        BY <1>5, <2>2, <3>1, <3>3 DEF FinishJob, TypeOK
      <4>2. JobItem(w) = k
        BY <2>2, <3>1, <4>1 DEF JobItem, QueueOrder
      <4> QED BY <3>1, <4>1, <4>2 DEF ReadOrder, ReadOrderOf
    <3> QED BY <3>2, <3>3
  <2>3. ReadOrder'
    BY <2>1, BetweenJobs
  <2> QED BY <2>2, <2>3 DEF CompletedMeansCurrent
<1> QED BY <1>1, <1>2, <1>3, <1>4, <1>5 DEF WorkerStep

LEMMA VectorInvInductive ==
    SingleWorker => (VectorInv /\ [Next]_vars => ReadOrder' /\ CompletedMeansCurrent')
<1> SUFFICES ASSUME SingleWorker, VectorInv, [Next]_vars
             PROVE  ReadOrder' /\ CompletedMeansCurrent'
  OBVIOUS
<1>1. ASSUME UNCHANGED <<items, jobs, worker>> PROVE ReadOrder' /\ CompletedMeansCurrent'
  BY <1>1 DEF VectorInv, ReadOrder, ReadOrderOf, JobItem, CompletedMeansCurrent, items, jobs
<1>2. ASSUME NEW w \in Workers, JobRaises(w) \/ CrashWorker(w)
      PROVE  ReadOrder' /\ CompletedMeansCurrent'
  <2>1. worker'[w].pc \in {"failing", "idle"}
    BY <1>2 DEF JobRaises, CrashWorker, IdleWorker, Poised, VectorInv, QueueInv, TypeOK,
                WorkerState
  <2>2. CompletedMeansCurrent'
    BY <1>2 DEF JobRaises, CrashWorker, VectorInv, CompletedMeansCurrent, items, jobs
  <2> QED BY <2>1, <2>2, BetweenJobs
<1>3. ASSUME NEW u \in Writers, NEW k \in Keys, LookUp(u, k)
      PROVE  ReadOrder' /\ CompletedMeansCurrent'
  BY <1>1, <1>3 DEF LookUp
<1>4. ASSUME NEW u \in Writers, RollBack(u) PROVE ReadOrder' /\ CompletedMeansCurrent'
  BY <1>1, <1>4 DEF RollBack
<1>5. CASE UNCHANGED vars
  BY <1>1, <1>5 DEF vars
<1> QED
  BY <1>2, <1>3, <1>4, <1>5, WriterStepVectorInv, WorkerStepVectorInv, PurgeVectorInv
     DEF Next

\* With the one worker process the deployment runs, a completed job tells the truth
\* about the text its item holds, through rewrites, failures and crashes.
THEOREM CompletedMeansCurrentCorrect ==
    ASSUME SingleWorker PROVE Spec => []CompletedMeansCurrent
<1>1. Init => ReadOrder /\ CompletedMeansCurrent
  BY DEF Init, ReadOrder, ReadOrderOf, CompletedMeansCurrent, IdleWorker, Poised
<1>2. VectorInv /\ [Next]_vars => ReadOrder' /\ CompletedMeansCurrent'
  BY VectorInvInductive
<1> QED BY <1>1, <1>2, QueueInvCorrect, PTL DEF Spec, VectorInv

-----------------------------------------------------------------------------
(* Nothing is forgotten while nothing fails, with one worker process. *)

\* An idle worker stays without jobs, and a job fails by a fault only.
LEMMA WorkerAtRestStep == QueueInv /\ WorkerAtRest /\ [Next]_vars => WorkerAtRest'
<1> SUFFICES ASSUME QueueInv, WorkerAtRest, [Next]_vars PROVE WorkerAtRest'
  OBVIOUS
<1> USE DEF QueueInv, TypeOK, WorkerState, WorkerAtRest
<1>1. ASSUME UNCHANGED <<worker, faults>> PROVE WorkerAtRest'
  BY <1>1
<1>2. ASSUME NEW u \in Writers, WriterStep(u) \/ RollBack(u) \/ \E k \in Keys : LookUp(u, k)
      PROVE  UNCHANGED <<worker, faults>>
  BY <1>2 DEF WriterStep, UpdateItem, CountActive, InsertItem, RollBack, LookUp
<1>3. ASSUME NEW w \in Workers, WorkerStep(w) PROVE WorkerAtRest'
  <2>1. faults' = faults /\ \A v \in Workers : v # w => worker'[v] = worker[v]
    BY <1>3 DEF WorkerStep, ClaimJobs, SelectJobs, MarkJobs, ReadContent, StoreEmbedding, FinishJob
  <2>2. worker'[w].pc # "failing" /\ (worker'[w].pc = "idle" => worker'[w].batch = {})
    BY <1>3 DEF WorkerStep, ClaimJobs, SelectJobs, MarkJobs, ReadContent, StoreEmbedding,
                FinishJob, Poised
  <2> QED BY <2>1, <2>2
<1>4. ASSUME NEW w \in Workers, JobRaises(w) \/ CrashWorker(w) PROVE WorkerAtRest'
  <2>1. faults' # 0
    BY <1>4, BoundsAssumption DEF JobRaises, CrashWorker
  <2>2. \A v \in Workers : worker'[v].pc = "idle" => worker'[v].batch = {}
    <3>1. \A v \in Workers : v # w => worker'[v] = worker[v]
      BY <1>4 DEF JobRaises, CrashWorker
    <3>2. worker'[w].pc = "failing" \/ worker'[w] = IdleWorker
      BY <1>4 DEF JobRaises, CrashWorker
    <3> QED BY <3>1, <3>2 DEF IdleWorker, Poised
  <2> QED BY <2>1, <2>2
<1>5. PurgeFinishedJobs \/ UNCHANGED vars => UNCHANGED <<worker, faults>>
  BY DEF PurgeFinishedJobs, vars
<1> QED BY <1>1, <1>2, <1>3, <1>4, <1>5 DEF Next

\* The job of the text that an item holds, and that of no other.
LEMMA JobOfText ==
    ASSUME QueueInv, NEW k \in Keys, content[k] # 0
    PROVE  content[k] \in JobIds /\ content[k] <= writes /\ jobKey[content[k]] = k
BY BoundsAssumption DEF QueueInv, QueueOrder, TypeOK, JobIds

\* A step takes the job of a text from the queue to the worker, or ends with the vector in place.
LEMMA NothingForgottenStep ==
    SingleWorker =>
        (VectorInv /\ WorkerAtRest /\ NothingForgotten /\ [Next]_vars => NothingForgotten')
<1> SUFFICES ASSUME SingleWorker, VectorInv, WorkerAtRest, NothingForgotten, [Next]_vars,
                    faults' = 0, NEW k \in Keys, content'[k] # 0, vector'[k] # content'[k]
             PROVE  \/ jobStatus'[content'[k]] = "pending"
                    \/ \E w \in Workers : Embedding(w, content[k])'
  BY DEF NothingForgotten
<1>inv. QueueInv /\ TypeOK
  BY DEF VectorInv, QueueInv
<1>faults. faults = 0 \/ \E w \in Workers : JobRaises(w) \/ CrashWorker(w)
  BY DEF Next, LookUp, WriterStep, UpdateItem, CountActive, InsertItem, RollBack,
         PurgeFinishedJobs, WorkerStep, ClaimJobs, SelectJobs, MarkJobs, ReadContent,
         StoreEmbedding, FinishJob, vars
\* A step that leaves the text and its vector, and the job where it is.
<1>same. ASSUME content'[k] = content[k], vector'[k] = vector[k], faults = 0,
                jobStatus[content[k]] = "pending" => \/ jobStatus'[content[k]] = "pending"
                                                     \/ \E w \in Workers : Embedding(w, content[k])',
                \A w \in Workers : Embedding(w, content[k]) => Embedding(w, content[k])'
         PROVE  \/ jobStatus'[content'[k]] = "pending"
                \/ \E w \in Workers : Embedding(w, content[k])'
  BY <1>same DEF NothingForgotten
<1>1. ASSUME NEW j \in Keys, WriteItem(j), UNCHANGED <<worker, faults>>
      PROVE  \/ jobStatus'[content'[k]] = "pending"
             \/ \E w \in Workers : Embedding(w, content[k])'
  <2>1. /\ content' = [content EXCEPT ![j] = writes + 1]
        /\ vector' = [vector EXCEPT ![j] = 0]
        /\ jobStatus' = [n \in JobIds |-> IF n = writes + 1 THEN "pending"
                                          ELSE IF n \in ReplacedJobs(j) THEN "superseded"
                                          ELSE jobStatus[n]]
        /\ writes + 1 \in JobIds
    BY <1>1, <1>inv, WriteItemTypes DEF WriteItem, EnqueueEmbedding
  <2>2. CASE k = j
    BY <1>inv, <2>1, <2>2 DEF TypeOK
  <2>3. CASE k # j
    <3>1. content'[k] = content[k] /\ vector'[k] = vector[k]
      BY <1>inv, <2>1, <2>3 DEF TypeOK
    <3>2. content[k] \in JobIds /\ jobKey[content[k]] = k
      BY <1>inv, <3>1, JobOfText
    <3>3. jobStatus[content[k]] = "pending" => jobStatus'[content[k]] = "pending"
      BY <2>1, <2>3, <3>2 DEF ReplacedJobs
    <3> QED BY <1>1, <1>same, <3>1, <3>3 DEF Embedding
  <2> QED BY <2>2, <2>3
<1>2. ASSUME UNCHANGED <<items, jobStatus, worker, faults>>
      PROVE  \/ jobStatus'[content'[k]] = "pending"
             \/ \E w \in Workers : Embedding(w, content[k])'
  BY <1>2, <1>same DEF items, Embedding
<1>3. CASE PurgeFinishedJobs
  <2>1. UNCHANGED <<items, worker, faults>>
    BY <1>3 DEF PurgeFinishedJobs
  <2>2. content[k] \in JobIds
    BY <1>inv, <2>1, JobOfText DEF items
  <2>3. jobStatus[content[k]] = "pending" => jobStatus'[content[k]] = "pending"
    BY <1>3, <2>2 DEF PurgeFinishedJobs
  <2> QED BY <1>same, <2>1, <2>3 DEF items, Embedding
<1>4. ASSUME NEW w \in Workers, ClaimJobs(w) \/ SelectJobs(w)
      PROVE  \/ jobStatus'[content'[k]] = "pending"
             \/ \E v \in Workers : Embedding(v, content[k])'
  <2>1. PICK S \in Batches, pc \in {"next", "selected"} :
          /\ worker' = [worker EXCEPT ![w] = Poised(pc, S)]
          /\ jobStatus' = jobStatus \/ SetStatus(S, "running")
    BY <1>4 DEF ClaimJobs, SelectJobs, jobs
  <2>2. UNCHANGED <<items, faults>> /\ worker[w].pc = "idle" /\ worker[w].batch = {}
    BY <1>4 DEF ClaimJobs, SelectJobs, WorkerAtRest
  <2>3. content[k] \in JobIds
    BY <1>inv, <2>2, JobOfText DEF items
  <2>4. content[k] \in S => Embedding(w, content[k])'
    BY <1>inv, <2>1, <2>2 DEF Embedding, Poised, TypeOK, items
  <2>5. content[k] \notin S => jobStatus'[content[k]] = jobStatus[content[k]]
    BY <2>1, <2>3 DEF SetStatus
  <2>6. \A v \in Workers : ~Embedding(v, content[k])
    BY <2>2 DEF SingleWorker, Embedding
  <2> QED BY <1>same, <2>2, <2>4, <2>5, <2>6 DEF items
<1>5. ASSUME NEW w \in Workers, MarkJobs(w)
      PROVE  \/ jobStatus'[content'[k]] = "pending"
             \/ \E v \in Workers : Embedding(v, content[k])'
  <2>1. /\ UNCHANGED <<items, faults>> /\ worker[w].pc = "selected"
        /\ worker' = [worker EXCEPT ![w].pc = "next"]
        /\ SetStatus(worker[w].batch \cap Pending, "running")
    BY <1>5 DEF MarkJobs
  <2>2. content[k] \in JobIds
    BY <1>inv, <2>1, JobOfText DEF items
  <2>3. \A v \in Workers : Embedding(v, content[k]) => Embedding(v, content[k])'
    BY <1>inv, <2>1 DEF Embedding, TypeOK, WorkerState, items
  <2>4. content[k] \in worker[w].batch => Embedding(w, content[k])'
    BY <2>3 DEF Embedding
  <2>5. content[k] \notin worker[w].batch => jobStatus'[content[k]] = jobStatus[content[k]]
    BY <2>1, <2>2 DEF SetStatus
  <2> QED BY <1>same, <2>1, <2>3, <2>4, <2>5 DEF items
<1>6. ASSUME NEW w \in Workers, ReadContent(w)
      PROVE  \/ jobStatus'[content'[k]] = "pending"
             \/ \E v \in Workers : Embedding(v, content[k])'
  <2>1. PICK n \in worker[w].batch :
          worker' = [worker EXCEPT
                       ![w] = [pc |-> "read", batch |-> worker[w].batch \ {n},
                               job |-> n, text |-> content[jobKey[n]]]]
    BY <1>6 DEF ReadContent
  <2>2. UNCHANGED <<items, jobs, faults>> /\ worker[w].pc = "next"
    BY <1>6 DEF ReadContent
  <2>3. \A v \in Workers : Embedding(v, content[k]) => Embedding(v, content[k])'
    BY <1>inv, <2>1, <2>2 DEF Embedding, TypeOK, SingleWorker, items
  <2> QED BY <1>same, <2>2, <2>3 DEF items, jobs
\* What is stored for the text's own job is that text; for an older job of the item it may be
\* stale, but then the text's own job is pending.
<1>7. ASSUME NEW w \in Workers, StoreEmbedding(w)
      PROVE  \/ jobStatus'[content'[k]] = "pending"
             \/ \E v \in Workers : Embedding(v, content[k])'
  <2> DEFINE i == JobItem(w)
  <2>1. /\ worker[w].pc = "read" /\ UNCHANGED <<content, jobs, faults>>
        /\ vector' = [vector EXCEPT ![i] = worker[w].text]
        /\ worker' = [worker EXCEPT ![w].pc = "stored"]
    BY <1>7 DEF StoreEmbedding, StoreVector, JobItem
  <2>2. worker[w].text # content[i] => jobStatus[content[i]] = "pending"
    BY <2>1 DEF VectorInv, ReadOrder, ReadOrderOf
  <2>3. CASE k = i
    <3>1. vector'[k] = worker[w].text
      BY <1>inv, <2>1, <2>3 DEF TypeOK
    <3> QED BY <2>1, <2>2, <2>3, <3>1 DEF jobs
  <2>4. CASE k # i
    <3>1. vector'[k] = vector[k] /\ content[k] # 0
      BY <1>inv, <2>1, <2>4 DEF TypeOK
    <3>2. worker[w].job # content[k]
      BY <1>inv, <2>4, <3>1, JobOfText DEF JobItem
    <3>3. \A v \in Workers : Embedding(v, content[k]) => Embedding(v, content[k])'
      BY <1>inv, <2>1, <3>2 DEF Embedding, TypeOK, WorkerState, SingleWorker
    <3> QED BY <1>same, <2>1, <3>1, <3>3 DEF jobs
  <2> QED BY <2>3, <2>4
\* A job that is done and is that of the text has left its vector.
<1>8. ASSUME NEW w \in Workers, FinishJob(w)
      PROVE  \/ jobStatus'[content'[k]] = "pending"
             \/ \E v \in Workers : Embedding(v, content[k])'
  <2>1. /\ UNCHANGED <<items, faults>> /\ worker[w].pc \in {"stored", "failing"}
        /\ worker'[w].batch = worker[w].batch
        /\ \A v \in Workers : v = w
        /\ \A n \in JobIds : n # worker[w].job => jobStatus'[n] = jobStatus[n]
    BY <1>8, <1>inv DEF FinishJob, Poised, TypeOK, SingleWorker
  <2>2. worker[w].pc = "stored" /\ faults = 0
    BY <1>faults, <2>1 DEF WorkerAtRest
  <2>3. content[k] \in JobIds /\ jobKey[content[k]] = k
    BY <1>inv, <2>1, JobOfText DEF items
  <2>4. worker[w].job # content[k]
    <3>1. worker[w].job = content[k] => vector[k] = content[k]
      BY <2>2, <2>3 DEF VectorInv, ReadOrder, ReadOrderOf, JobItem
    <3> QED BY <2>1, <3>1 DEF items
  <2>5. \A v \in Workers : Embedding(v, content[k]) => Embedding(v, content[k])'
    BY <2>1, <2>2 DEF Embedding, items
  <2> QED BY <1>same, <2>1, <2>2, <2>3, <2>4, <2>5 DEF items
<1>9. ASSUME NEW w \in Workers, JobRaises(w) \/ CrashWorker(w) PROVE FALSE
  BY <1>9, <1>inv, BoundsAssumption DEF JobRaises, CrashWorker, TypeOK
<1>10. ASSUME NEW u \in Writers, WriterStep(u) \/ RollBack(u) \/ \E j \in Keys : LookUp(u, j)
       PROVE  \/ (\E j \in Keys : WriteItem(j)) /\ UNCHANGED <<worker, faults>>
              \/ UNCHANGED <<items, jobStatus, worker, faults>>
  <2>1. writer[u].key \in Keys
    BY <1>inv DEF TypeOK, WriterState
  <2> QED BY <1>10, <2>1 DEF WriterStep, UpdateItem, CountActive, InsertItem, RollBack, LookUp,
                              items, jobs
<1>11. UNCHANGED vars => UNCHANGED <<items, jobStatus, worker, faults>>
  BY DEF vars, jobs
<1> QED BY <1>1, <1>2, <1>3, <1>4, <1>5, <1>6, <1>7, <1>8, <1>9, <1>10, <1>11
        DEF Next, WorkerStep

\* With the one worker process the deployment runs, and as long as no job fails and no worker
\* stops, a text without its vector has a job that waits or that the worker holds: what remains
\* of EveryWriteEmbedded is that the worker goes on.
THEOREM NothingForgottenCorrect ==
    ASSUME SingleWorker PROVE Spec => []NothingForgotten
<1>1. Init => ReadOrder /\ CompletedMeansCurrent /\ WorkerAtRest /\ NothingForgotten
  BY DEF Init, ReadOrder, ReadOrderOf, CompletedMeansCurrent, WorkerAtRest, NothingForgotten,
         IdleWorker, Poised
<1>2. VectorInv /\ [Next]_vars => ReadOrder' /\ CompletedMeansCurrent'
  BY VectorInvInductive
<1>3. VectorInv /\ WorkerAtRest /\ NothingForgotten /\ [Next]_vars => NothingForgotten'
  BY NothingForgottenStep
<1> QED BY <1>1, <1>2, <1>3, WorkerAtRestStep, QueueInvCorrect, PTL DEF Spec, VectorInv

-----------------------------------------------------------------------------
(* The quota, under SQLite. *)

\* A write to an item that exists leaves the active items as they are; a write to a new
\* one adds it to those of its owner.
LEMMA WriteItemActive ==
    ASSUME TypeOK, NEW k \in Keys, WriteItem(k), NEW user \in Users
    PROVE  ActiveItems(user)' =
              IF Owner[k] = user THEN ActiveItems(user) \cup {k} ELSE ActiveItems(user)
<1>1. content' = [content EXCEPT ![k] = writes + 1] /\ writes + 1 # 0
  BY BoundsAssumption DEF WriteItem, TypeOK
<1> QED BY <1>1 DEF ActiveItems, TypeOK

\* The last key an account may add, when its writer has just counted.
LEMMA WriteItemQuota ==
    ASSUME QuotaInv, NEW k \in Keys, WriteItem(k),
           content[k] # 0 \/ Cardinality(ActiveItems(Owner[k])) < Quota
    PROVE  \A user \in Users :
              IsFiniteSet(ActiveItems(user)') /\ Cardinality(ActiveItems(user)') <= Quota
<1> SUFFICES ASSUME NEW user \in Users
             PROVE  IsFiniteSet(ActiveItems(user)') /\ Cardinality(ActiveItems(user)') <= Quota
  OBVIOUS
<1> DEFINE A == ActiveItems(user)
<1>1. IsFiniteSet(A) /\ Cardinality(A) \in Nat /\ Cardinality(A) <= Quota /\ Quota \in Nat
  BY FS_CardinalityType, BoundsAssumption DEF QuotaInv, QuotaHolds
<1>2. ActiveItems(user)' = IF Owner[k] = user THEN A \cup {k} ELSE A
  BY WriteItemActive DEF QuotaInv
<1>3. /\ IsFiniteSet(A \cup {k})
      /\ Cardinality(A \cup {k}) = IF k \in A THEN Cardinality(A) ELSE Cardinality(A) + 1
  BY <1>1, FS_AddElement
<1>4. Owner[k] = user => k \in A \/ Cardinality(A) < Quota
  BY DEF ActiveItems
<1>5. Owner[k] = user => Cardinality(A \cup {k}) <= Quota
  BY <1>1, <1>3, <1>4
<1>6. CASE Owner[k] = user
  BY <1>2, <1>3, <1>5, <1>6
<1>7. CASE Owner[k] # user
  BY <1>1, <1>2, <1>7
<1> QED BY <1>6, <1>7

\* A step that stores no text keeps every count.
LEMMA SameActive ==
    ASSUME QuotaInv, content' = content
    PROVE  /\ \A user : ActiveItems(user)' = ActiveItems(user)
           /\ \A user \in Users : IsFiniteSet(ActiveItems(user)')
           /\ QuotaHolds'
<1>1. \A user : ActiveItems(user)' = ActiveItems(user)
  BY DEF ActiveItems
<1> QED BY <1>1 DEF QuotaInv, QuotaHolds

LEMMA WriterStepQuotaInv ==
    ASSUME Backend = "sqlite", QuotaInv, NEW u \in Writers, WriterStep(u)
    PROVE  /\ ReadsHold'
           /\ \A user \in Users : IsFiniteSet(ActiveItems(user)')
           /\ QuotaHolds'
<1> DEFINE k == writer[u].key
<1>1. k \in Keys /\ Owner[k] \in Users
  BY OwnerAssumption DEF QuotaInv, TypeOK, WriterState
<1>2. \A v \in Writers : v # u => writer[v].pc = "idle"
  BY DEF QuotaInv, ReadsHold, WriterStep, UpdateItem, CountActive, InsertItem
<1>3. CASE CountActive(u)
  <2>1. content' = content
    BY <1>3 DEF CountActive, items
  <2>2. Cardinality(ActiveItems(Owner[k])) \in Nat /\ Quota \in Nat
    BY <1>1, FS_CardinalityType, BoundsAssumption DEF QuotaInv
  <2>3. /\ writer' = [writer EXCEPT ![u].pc = IF QuotaReached(k) THEN "idle" ELSE "counted"]
        /\ QuotaReached(k) <=> ~(Cardinality(ActiveItems(Owner[k])) < Quota)
    BY <1>3, <2>2 DEF CountActive, Become, QuotaReached
  <2>4. \A user : ActiveItems(user)' = ActiveItems(user)
    BY <2>1, SameActive
  <2>5. /\ writer'[u].key = k
        /\ writer'[u].pc = IF QuotaReached(k) THEN "idle" ELSE "counted"
        /\ \A v \in Writers : v # u => writer'[v].pc = "idle"
    BY <1>2, <2>3 DEF QuotaInv, TypeOK, WriterState
  <2>6. writer'[u].pc = "counted" => Cardinality(ActiveItems(Owner[writer'[u].key])) < Quota
    BY <2>3, <2>5
  <2>7. writer'[u].pc = "counted" => (Cardinality(ActiveItems(Owner[writer[u].key])) < Quota)'
    BY <2>4, <2>6
  <2>8. ReadsHold'
    BY <2>5, <2>7 DEF ReadsHold
  <2> QED BY <2>1, <2>8, SameActive
<1>4. CASE UpdateItem(u) \/ InsertItem(u)
  <2>1. \A v \in Writers : writer'[v].pc = "idle"
    BY <1>2, <1>4 DEF UpdateItem, InsertItem, Become, QuotaInv, TypeOK, WriterState
  <2>2. ReadsHold'
    BY <2>1 DEF ReadsHold
  <2>3. CASE WriteItem(k)
    <3>1. content[k] # 0 \/ Cardinality(ActiveItems(Owner[k])) < Quota
      BY <1>4 DEF UpdateItem, InsertItem, QuotaInv, ReadsHold
    <3> QED BY <1>1, <2>2, <2>3, <3>1, WriteItemQuota DEF QuotaHolds
  <2>4. CASE content' = content
    BY <2>2, <2>4, SameActive
  <2> QED BY <1>4, <2>3, <2>4 DEF UpdateItem, InsertItem, items
<1> QED BY <1>3, <1>4 DEF WriterStep

LEMMA QuotaInvInductive ==
    ASSUME Backend = "sqlite", QuotaInv, [Next]_vars
    PROVE  /\ ReadsHold'
           /\ \A user \in Users : IsFiniteSet(ActiveItems(user)')
           /\ QuotaHolds'
<1>1. ASSUME NEW u \in Writers, WriterStep(u)
      PROVE  ReadsHold' /\ (\A user \in Users : IsFiniteSet(ActiveItems(user)')) /\ QuotaHolds'
  BY <1>1, WriterStepQuotaInv
<1>2. ASSUME NEW u \in Writers, NEW k \in Keys, LookUp(u, k)
      PROVE  ReadsHold' /\ (\A user \in Users : IsFiniteSet(ActiveItems(user)')) /\ QuotaHolds'
  <2>1. /\ content' = content
        /\ \A v \in Writers : writer[v].pc = "idle"
        /\ writer' = [writer EXCEPT
                        ![u] = [pc |-> IF content[k] = 0 THEN "absent" ELSE "found", key |-> k]]
    BY <1>2 DEF LookUp, WriteLockFree, items
  <2>2. ReadsHold'
    BY <2>1 DEF ReadsHold, QuotaInv, TypeOK
  <2> QED BY <2>1, <2>2, SameActive
<1>3. ASSUME NEW u \in Writers, RollBack(u)
      PROVE  ReadsHold' /\ (\A user \in Users : IsFiniteSet(ActiveItems(user)')) /\ QuotaHolds'
  <2>1. /\ content' = content
        /\ writer'[u].pc = "idle"
        /\ \A v \in Writers : v # u => writer'[v] = writer[v]
    BY <1>3 DEF RollBack, Become, QuotaInv, TypeOK, WriterState, items
  <2>2. ReadsHold'
    BY <2>1 DEF ReadsHold, QuotaInv, ActiveItems
  <2> QED BY <2>1, <2>2, SameActive
<1>4. ASSUME content' = content, writer' = writer
      PROVE  ReadsHold' /\ (\A user \in Users : IsFiniteSet(ActiveItems(user)')) /\ QuotaHolds'
  <2>1. ReadsHold'
    BY <1>4 DEF ReadsHold, QuotaInv, ActiveItems
  <2> QED BY <1>4, <2>1, SameActive
<1>5. ASSUME NEW w \in Workers, WorkerStep(w) PROVE content' = content /\ writer' = writer
  BY <1>5 DEF WorkerStep, ClaimJobs, SelectJobs, MarkJobs, ReadContent, StoreEmbedding,
              FinishJob, items
<1>6. ASSUME NEW w \in Workers, JobRaises(w) \/ CrashWorker(w)
      PROVE  content' = content /\ writer' = writer
  BY <1>6 DEF JobRaises, CrashWorker, items
<1>7. ASSUME PurgeFinishedJobs \/ UNCHANGED vars PROVE content' = content /\ writer' = writer
  BY <1>7 DEF PurgeFinishedJobs, items, vars
<1> QED BY <1>1, <1>2, <1>3, <1>4, <1>5, <1>6, <1>7 DEF Next

\* Under SQLite no account ever has more active items than its quota, though the COUNT and
\* the INSERT are two statements: the write lock lasts from the one to the other.
THEOREM QuotaCorrect ==
    ASSUME Backend = "sqlite" PROVE Spec => []QuotaHolds
<1>1. Init => ReadsHold /\ (\A user \in Users : IsFiniteSet(ActiveItems(user))) /\ QuotaHolds
  <2> SUFFICES ASSUME Init PROVE ReadsHold /\ (\A user \in Users : IsFiniteSet(ActiveItems(user)))
                                 /\ QuotaHolds
    OBVIOUS
  <2>1. ReadsHold
    BY DEF Init, ReadsHold
  <2>2. \A user \in Users : ActiveItems(user) = {}
    BY DEF Init, ActiveItems
  <2> QED BY <2>1, <2>2, FS_EmptySet, BoundsAssumption DEF QuotaHolds
<1>2. QuotaInv /\ [Next]_vars
        => ReadsHold' /\ (\A user \in Users : IsFiniteSet(ActiveItems(user)))' /\ QuotaHolds'
  BY QuotaInvInductive
<1> QED BY <1>1, <1>2, TypeCorrect, PTL DEF Spec, QuotaInv
=============================================================================
