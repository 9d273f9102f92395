--------------------------- MODULE GCRequestProofs ---------------------------
(***************************************************************************)
(* Proofs about module GCRequest, for any number of requesters, any bounds *)
(* and any reasons: nothing is out of range, and, when no request comes    *)
(* before TaskQueue::Init(), a blocking request neither returns too early  *)
(* nor sleeps without a wake-up to come.                                   *)
(*                                                                         *)
(* The argument is about the order of sync indices.  What has finished is  *)
(* below what is being executed, which is below everything in the queue,   *)
(* in the order of the queue, and a request that has seen no collection    *)
(* start still has its task in the queue.                                  *)
(***************************************************************************)
EXTENDS GCRequest, WellFoundedInduction, TLAPS

-----------------------------------------------------------------------------
(* The inductive invariant.                                                *)

(* What is in the sync queue.                                              *)
QueueShape ==
  \A i \in 1 .. Len(syncTaskQueue) :
    /\ syncTaskQueue[i].index \in 0 .. MaxIndex
    /\ \/ syncTaskQueue[i].type = "InvokeGC"
       \/ syncTaskQueue[i].type = "Terminate"
            /\ syncTaskQueue[i].reason = kInvalidGCReason

TypeInv == TypeOK /\ QueueShape

AllIdle == \A r \in Requesters : pc[r] = "idle"

(* The positions of the requests for a collection in the queue.            *)
Requests ==
  {i \in 1 .. Len(syncTaskQueue) : syncTaskQueue[i].type = "InvokeGC"}

(* The flags, by the place of the GC thread.                               *)
LifeInv ==
  /\ gcThreadRunning <=> gcPc # "off"
  /\ isGcTriggered <=> gcPc = "collect"
  /\ gcPc \in {"off", "done"} => finishedGcIndex = kIndexExit
  /\ gcPc = "init" => finishedGcIndex = kSyncIndexStartValue
  /\ starts = 0 => gcPc = "off"
  /\ starts = 0 \/ forking \/ gcPc \in {"starting", "init"} => AllIdle

(* Terminate is enqueued once, and nothing is left behind for the thread   *)
(* that is started after a fork.                                           *)
TerminateInv ==
  /\ stopping => gcPc # "off"
  /\ forking => stopping \/ gcPc = "off"
  /\ gcPc \in {"exitNotify", "done"} => stopping
  /\ gcPc = "execute" /\ gcTask.type = "Terminate" => stopping
  /\ \A i \in 1 .. Len(syncTaskQueue) :
       syncTaskQueue[i].type = "Terminate" =>
         stopping /\ gcPc \notin {"exitNotify", "done"}
  /\ starts = 0 \/ gcPc \in {"starting", "init"} => Requests = {}
  /\ forking /\ gcPc \in {"exitNotify", "done", "off"} => Requests = {}

(* Sync indices: finished, queued and handed out.                          *)
IndexInv ==
  /\ gcPc \notin {"off", "starting", "init"} => finishedGcIndex <= queueSyncIndex
  /\ \A i \in Requests : /\ finishedGcIndex < syncTaskQueue[i].index
                         /\ syncTaskQueue[i].index <= queueSyncIndex
  /\ \A i, j \in Requests :
       i < j => syncTaskQueue[i].index < syncTaskQueue[j].index

(* The task the GC thread executes.                                        *)
ExecuteInv ==
  gcPc \in {"execute", "collect"} =>
    /\ gcTask.type = "Timeout" => gcTask.index = kAsyncIndex
    /\ gcPc = "collect" => gcTask.type # "Terminate"
    /\ gcTask.type = "InvokeGC" /\ gcTask.index # kAsyncIndex =>
         /\ finishedGcIndex < gcTask.index
         /\ gcTask.index <= queueSyncIndex
         /\ \A i \in Requests : gcTask.index < syncTaskQueue[i].index

(* The task of requester r is in the queue, or in execution.               *)
InQueue(r)     == \E i \in Requests : syncTaskQueue[i].index = idx[r]
InExecution(r) == /\ gcPc \in {"execute", "collect"}
                  /\ gcTask.type = "InvokeGC"
                  /\ gcTask.index = idx[r]

(* A blocking request, from Enqueue() to its return.                       *)
RequestInv(r) ==
  pc[r] \in {"check", "blocked"} =>
    /\ idx[r] >= 1
    /\ since[r] = "none" /\ gcPc = "collect" => InQueue(r)
    /\ since[r] = "started" => gcPc = "collect"
    /\ since[r] # "finished" => finishedGcIndex < idx[r]
    /\ \/ InQueue(r) \/ InExecution(r)
       \/ finishedGcIndex >= idx[r]
       \/ gcPc \in {"exitNotify", "done", "off"}

(* A sleeping requester.                                                   *)
SleepInv(r) ==
  /\ pc[r] = "blocked" => /\ finishedGcIndex < idx[r]
                          /\ gcPc \notin {"done", "off"}
  /\ pc[r] = "stopBlocked" => gcPc = "collect"

WaitInv == \A r \in Requesters : RequestInv(r) /\ SleepInv(r)

IInv ==
  /\ TypeInv
  /\ LifeInv /\ TerminateInv
  /\ IndexInv /\ ExecuteInv
  /\ WaitInv

USE ConstantsAssumption
    DEF queueVars, lifeVars, gcVars, reqVars, kIndexExit, kSyncIndexStartValue,
        kAsyncIndex, kInvalidGCReason, kPrioTimeout, kPrioInvokeGC, GcPcs, Pcs

-----------------------------------------------------------------------------
(* The operators of the model.                                             *)

(* A non-empty set of natural numbers has a least element.                 *)
LEMMA LeastExists ==
  ASSUME NEW S \in SUBSET Nat, S # {}
  PROVE  \E m \in S : \A n \in S : m <= n
<1>1. \E m \in S : \A n \in S : ~ (<<n, m>> \in OpToRel(<, Nat))
  BY NatLessThanWellFounded, WFMin
<1>2. PICK m \in S : \A n \in S : ~ (<<n, m>> \in OpToRel(<, Nat))
  BY <1>1
<1>3. ASSUME NEW n \in S
      PROVE  m <= n
  <2>1. m \in Nat /\ n \in Nat
    OBVIOUS
  <2>2. ~ (n < m)
    BY <1>2, <2>1 DEF OpToRel
  <2> QED
    BY <2>1, <2>2
<1> QED
  BY <1>3

(* A non-empty set of positions has a greatest element.                    *)
LEMMA GreatestExists ==
  ASSUME NEW k \in Nat, NEW S \in SUBSET (1 .. k), S # {}
  PROVE  \E m \in S : \A n \in S : n <= m
<1> DEFINE T == {k - n : n \in S}
<1>1. T \in SUBSET Nat /\ T # {}
  <2>1. \A n \in S : k - n \in Nat
    OBVIOUS
  <2>2. PICK n \in S : TRUE
    OBVIOUS
  <2> QED
    BY <2>1, <2>2
<1>2. PICK t \in T : \A u \in T : t <= u
  BY <1>1, LeastExists
<1>3. PICK m \in S : t = k - m
  BY <1>2
<1>4. ASSUME NEW n \in S
      PROVE  n <= m
  <2>1. k - n \in T
    OBVIOUS
  <2>2. t <= k - n
    BY <1>2, <2>1
  <2> QED
    BY <1>3, <2>2
<1> QED
  BY <1>4

(* Pop() takes a bit that is set.                                          *)
LEMMA PopTakesOne ==
  ASSUME TypeOK, tqWord # {}
  PROVE  FirstPrio \in tqWord
<1>1. tqWord \in SUBSET Nat
  BY DEF TypeOK
<1>2. \E p \in tqWord : \A q \in tqWord : p <= q
  BY <1>1, LeastExists
<1> QED
  BY <1>2 DEF FirstPrio

(* A merged request gets the index of a request in the queue.              *)
LEMMA MergedIsQueued ==
  ASSUME TypeInv, NEW reason \in 0 .. 8, SameReason(reason) # {}
  PROVE  (CHOOSE i \in SameReason(reason) :
            \A j \in SameReason(reason) : j <= i) \in Requests
<1> DEFINE same == SameReason(reason)
           last == CHOOSE i \in same : \A j \in same : j <= i
<1>1. Len(syncTaskQueue) \in Nat /\ same \in SUBSET (1 .. Len(syncTaskQueue))
  BY DEF TypeInv, TypeOK, SameReason
<1>2. \E i \in same : \A j \in same : j <= i
  BY <1>1, GreatestExists
<1>3. last \in same
  BY <1>2
<1>4. last \in 1 .. Len(syncTaskQueue) /\ syncTaskQueue[last].reason = reason
  BY <1>3 DEF SameReason
<1> QED
  BY <1>4 DEF TypeInv, QueueShape, Requests

(* A task is appended to the queue.                                        *)
LEMMA Appended ==
  ASSUME TypeInv, NEW t \in Tasks, t.index \in 0 .. MaxIndex,
         \/ t.type = "InvokeGC"
         \/ t.type = "Terminate" /\ t.reason = kInvalidGCReason,
         syncTaskQueue' = Append(syncTaskQueue, t)
  PROVE  /\ syncTaskQueue' \in Seq(Tasks)
         /\ QueueShape'
         /\ Len(syncTaskQueue) \in Nat
         /\ Len(syncTaskQueue') = Len(syncTaskQueue) + 1
         /\ \A i \in 1 .. Len(syncTaskQueue) :
              syncTaskQueue'[i] = syncTaskQueue[i]
         /\ syncTaskQueue'[Len(syncTaskQueue) + 1] = t
         /\ Requests' = IF t.type = "InvokeGC"
                        THEN Requests \cup {Len(syncTaskQueue) + 1}
                        ELSE Requests
<1>1. /\ syncTaskQueue' \in Seq(Tasks)
      /\ Len(syncTaskQueue) \in Nat
      /\ Len(syncTaskQueue') = Len(syncTaskQueue) + 1
      /\ \A i \in 1 .. Len(syncTaskQueue) : syncTaskQueue'[i] = syncTaskQueue[i]
      /\ syncTaskQueue'[Len(syncTaskQueue) + 1] = t
  BY DEF TypeInv, TypeOK
<1>2. QueueShape'
  BY <1>1 DEF TypeInv, QueueShape
<1>3. Requests' = IF t.type = "InvokeGC"
                  THEN Requests \cup {Len(syncTaskQueue) + 1} ELSE Requests
  BY <1>1 DEF Requests
<1> QED
  BY <1>1, <1>2, <1>3

(* The first task is taken from the queue.                                 *)
LEMMA Removed ==
  ASSUME TypeInv, syncTaskQueue # <<>>, syncTaskQueue' = Tail(syncTaskQueue)
  PROVE  /\ syncTaskQueue' \in Seq(Tasks)
         /\ QueueShape'
         /\ Len(syncTaskQueue) \in Nat \ {0}
         /\ Len(syncTaskQueue') = Len(syncTaskQueue) - 1
         /\ \A i \in 1 .. Len(syncTaskQueue') :
              syncTaskQueue'[i] = syncTaskQueue[i + 1]
         /\ Head(syncTaskQueue) = syncTaskQueue[1]
         /\ syncTaskQueue[1] \in Tasks
         /\ \A i : i \in Requests' =>
                     i \in Nat /\ i >= 1 /\ i + 1 \in Requests
         /\ \A i \in Requests : i = 1 \/ i - 1 \in Requests'
<1>1. /\ syncTaskQueue' \in Seq(Tasks)
      /\ Len(syncTaskQueue) \in Nat \ {0}
      /\ Len(syncTaskQueue') = Len(syncTaskQueue) - 1
      /\ \A i \in 1 .. Len(syncTaskQueue') :
           syncTaskQueue'[i] = syncTaskQueue[i + 1]
      /\ Head(syncTaskQueue) = syncTaskQueue[1]
      /\ syncTaskQueue[1] \in Tasks
  BY DEF TypeInv, TypeOK
<1>2. \A i \in 1 .. Len(syncTaskQueue') : i + 1 \in 1 .. Len(syncTaskQueue)
  BY <1>1
<1>3. QueueShape'
  BY <1>1, <1>2 DEF TypeInv, QueueShape
<1>4. ASSUME NEW i \in Requests'
      PROVE  i \in Nat /\ i >= 1 /\ i + 1 \in Requests
  BY <1>1, <1>2 DEF Requests
<1>5. ASSUME NEW i \in Requests, i # 1
      PROVE  i - 1 \in Requests'
  <2>1. i \in 1 .. Len(syncTaskQueue) /\ i - 1 \in 1 .. Len(syncTaskQueue')
    BY <1>1, <1>5 DEF Requests
  <2>2. syncTaskQueue'[i - 1] = syncTaskQueue[i]
    BY <1>1, <2>1
  <2> QED
    BY <2>1, <2>2 DEF Requests
<1> QED
  BY <1>1, <1>3, <1>4, <1>5

(* Tasks of the two kinds that are enqueued, and of the async queue.       *)
LEMMA TaskTypes ==
  /\ \A reason \in 0 .. 8, index \in 0 .. MaxIndex + 1 :
       Task("InvokeGC", reason, index) \in Tasks
  /\ \A index \in 0 .. MaxIndex + 1 :
       /\ Task("Terminate", -1, index) \in Tasks
       /\ Task("Timeout", -1, index) \in Tasks
  /\ \A prio \in 1 .. 10 :
       /\ FromPrio(prio) \in Tasks
       /\ FromPrio(prio).index = MaxIndex + 1
       /\ FromPrio(prio).type \in {"InvokeGC", "Timeout"}
<1>1. \A reason \in 0 .. 8, index \in 0 .. MaxIndex + 1 :
        Task("InvokeGC", reason, index) \in Tasks
  BY DEF Task, Tasks
<1>2. \A index \in 0 .. MaxIndex + 1 :
        /\ Task("Terminate", -1, index) \in Tasks
        /\ Task("Timeout", -1, index) \in Tasks
  BY DEF Task, Tasks
<1>3. ASSUME NEW prio \in 1 .. 10
      PROVE  /\ FromPrio(prio) \in Tasks
             /\ FromPrio(prio).index = MaxIndex + 1
             /\ FromPrio(prio).type \in {"InvokeGC", "Timeout"}
  <2>1. CASE prio = 1
    <3>1. FromPrio(prio) = Task("Timeout", -1, MaxIndex + 1)
      BY <2>1 DEF FromPrio
    <3>2. MaxIndex + 1 \in 0 .. MaxIndex + 1
      OBVIOUS
    <3>3. FromPrio(prio) \in Tasks
      BY <1>2, <3>1, <3>2
    <3> QED
      BY <3>1, <3>3 DEF Task
  <2>2. CASE prio # 1
    <3>1. prio - 2 \in 0 .. 8 /\ MaxIndex + 1 \in 0 .. MaxIndex + 1
      BY <2>2
    <3> QED
      BY <2>2, <3>1, <1>1 DEF FromPrio, Task
  <2> QED
    BY <2>1, <2>2
<1> QED
  BY <1>1, <1>2, <1>3

-----------------------------------------------------------------------------
(* Types are preserved by every action, early requests included.           *)

(* Push() sets bits of the word.                                           *)
LEMMA PushTypes ==
  ASSUME TypeOK, NEW task, GetPrio(task) \in 1 .. 10, Push(task)
  PROVE  tqWord' \in SUBSET (1 .. 10)
<1>1. \A p \in tqWord : p \in 1 .. 10
  BY DEF TypeOK
<1>2. \A p \in tqWord' : p = GetPrio(task) \/ p \in tqWord
  BY DEF Push
<1> QED
  BY <1>1, <1>2

LEMMA RequestTypes ==
  ASSUME TypeInv, NEW r \in Requesters, NEW reason \in Reasons,
         Request(r, reason)
  PROVE  TypeInv'
<1>0. reason \in 0 .. 8
  OBVIOUS
<1>1. CASE EnqueueAsync(r, reason)
  <2>1. GetPrio(Task("InvokeGC", reason, kAsyncIndex)) \in 1 .. 10
    BY <1>0 DEF GetPrio, Task
  <2>2. tqWord' \in SUBSET (1 .. 10)
    BY <1>1, <2>1, PushTypes DEF EnqueueAsync, TypeInv
  <2>3. /\ pc' = [pc EXCEPT ![r] = "notify"]
        /\ owed' = owed \cup {reason}
        /\ UNCHANGED <<syncTaskQueue, queueSyncIndex, lifeVars, gcVars,
                       isGcTriggered, finishedGcIndex, idx, since>>
    BY <1>1 DEF EnqueueAsync
  <2>4. TypeOK'
    BY <1>0, <2>2, <2>3 DEF TypeInv, TypeOK
  <2>5. QueueShape'
    BY <2>3 DEF TypeInv, QueueShape
  <2> QED
    BY <2>4, <2>5 DEF TypeInv
<1>2. CASE Enqueue(r, reason)
  <2> DEFINE same  == SameReason(reason)
             index == IF same = {} THEN queueSyncIndex + 1
                      ELSE syncTaskQueue[CHOOSE i \in same :
                                           \A j \in same : j <= i].index
             l == IF IsLiteBlockingGC(reason) THEN "lite" ELSE "check"
  <2>1. /\ same = {} =>
             /\ queueSyncIndex + 1 < MaxIndex
             /\ queueSyncIndex' = index
             /\ syncTaskQueue' =
                  Append(syncTaskQueue, Task("InvokeGC", reason, index))
             /\ NotifyQueue
        /\ same # {} => UNCHANGED <<queueSyncIndex, syncTaskQueue, gcVars>>
        /\ idx' = [idx EXCEPT ![r] = index]
        /\ since' = [since EXCEPT ![r] = "none"]
        /\ pc' = [pc EXCEPT ![r] = l]
        /\ UNCHANGED <<tqWord, lifeVars, isGcTriggered, finishedGcIndex, owed>>
    BY <1>2 DEF Enqueue
  <2>2. /\ index \in 0 .. MaxIndex
        /\ same = {} => index = queueSyncIndex + 1
    <3>1. CASE same = {}
      BY <2>1, <3>1 DEF TypeInv, TypeOK
    <3>2. CASE same # {}
      BY <1>0, <3>2, MergedIsQueued DEF Requests, TypeInv, QueueShape
    <3> QED
      BY <3>1, <3>2
  <2> HIDE DEF index
  <2>3. /\ syncTaskQueue' \in Seq(Tasks)
        /\ QueueShape'
        /\ queueSyncIndex' \in 0 .. MaxIndex
        /\ gcPc' \in GcPcs /\ timedOut' \in BOOLEAN /\ UNCHANGED gcTask
    <3>1. CASE same = {}
      <4>1. /\ Task("InvokeGC", reason, index) \in Tasks
            /\ Task("InvokeGC", reason, index).index = index
            /\ Task("InvokeGC", reason, index).type = "InvokeGC"
        BY <1>0, <2>2 DEF Task, Tasks
      <4>2. syncTaskQueue' \in Seq(Tasks) /\ QueueShape'
        BY <2>1, <2>2, <3>1, <4>1, Appended
      <4>3. gcPc' \in GcPcs /\ timedOut' \in BOOLEAN /\ UNCHANGED gcTask
        BY <2>1, <3>1 DEF NotifyQueue, TypeInv, TypeOK
      <4> QED
        BY <2>1, <2>2, <3>1, <4>2, <4>3
    <3>2. CASE same # {}
      BY <2>1, <3>2 DEF TypeInv, TypeOK, QueueShape
    <3> QED
      BY <3>1, <3>2
  <2>4. /\ pc' \in [Requesters -> Pcs]
        /\ idx' \in [Requesters -> 0 .. MaxIndex]
        /\ since' \in [Requesters -> {"none", "started", "finished"}]
    BY <2>1, <2>2 DEF TypeInv, TypeOK
  <2>5. TypeOK'
    BY <2>1, <2>3, <2>4 DEF TypeInv, TypeOK
  <2> QED
    BY <2>3, <2>5 DEF TypeInv
<1> QED
  BY <1>1, <1>2 DEF Request

LEMMA RequesterTypes ==
  ASSUME TypeInv, NEW r \in Requesters, RequesterStep(r) \/ WaitGCStopped(r)
  PROVE  TypeInv'
<1>1. UNCHANGED <<queueVars, lifeVars, isGcTriggered, finishedGcIndex, owed,
                  gcTask>>
  BY DEF RequesterStep, NotifyAsync, NotifyQueue, CheckFinished,
         WaitGCStoppedLite, CheckStopped, WaitGCStopped
<1>2. gcPc' \in GcPcs /\ timedOut' \in BOOLEAN
  BY DEF RequesterStep, NotifyAsync, NotifyQueue, CheckFinished,
         WaitGCStoppedLite, CheckStopped, WaitGCStopped, TypeInv, TypeOK
<1>3. /\ pc' \in [Requesters -> Pcs]
      /\ idx' \in [Requesters -> 0 .. MaxIndex]
      /\ since' \in [Requesters -> {"none", "started", "finished"}]
  <2>1. /\ pc \in [Requesters -> Pcs]
        /\ idx \in [Requesters -> 0 .. MaxIndex]
        /\ since \in [Requesters -> {"none", "started", "finished"}]
        /\ finishedGcIndex \in 0 .. MaxIndex /\ 0 \in 0 .. MaxIndex
    BY DEF TypeInv, TypeOK
  <2>2. CASE NotifyAsync(r)
    BY <2>1, <2>2 DEF NotifyAsync
  <2>3. CASE CheckFinished(r)
    BY <2>1, <2>3 DEF CheckFinished, Return
  <2>4. CASE WaitGCStoppedLite(r)
    BY <2>1, <2>4 DEF WaitGCStoppedLite, Return
  <2>5. CASE CheckStopped(r)
    BY <2>1, <2>5 DEF CheckStopped, Return
  <2>6. CASE WaitGCStopped(r)
    BY <2>1, <2>6 DEF WaitGCStopped
  <2> QED
    BY <2>2, <2>3, <2>4, <2>5, <2>6 DEF RequesterStep
<1>4. TypeOK'
  BY <1>1, <1>2, <1>3 DEF TypeInv, TypeOK
<1> QED
  BY <1>1, <1>4 DEF TypeInv, QueueShape

LEMMA LifeTypes ==
  ASSUME TypeInv,
         StartThread \/ JoinThread \/ \E fork \in BOOLEAN : StopThread(fork)
  PROVE  TypeInv'
<1>1. CASE StartThread \/ JoinThread
  <2>1. TypeOK'
    <3>1. CASE StartThread
      <4>1. starts' \in 0 .. MaxStarts
        BY <3>1 DEF StartThread, TypeInv, TypeOK
      <4> QED
        BY <3>1, <4>1 DEF StartThread, TypeInv, TypeOK
    <3>2. CASE JoinThread
      BY <3>2 DEF JoinThread, TypeInv, TypeOK
    <3> QED
      BY <1>1, <3>1, <3>2
  <2>2. QueueShape'
    BY <1>1 DEF StartThread, JoinThread, TypeInv, QueueShape
  <2> QED
    BY <2>1, <2>2 DEF TypeInv
<1>2. ASSUME NEW fork \in BOOLEAN, StopThread(fork)
      PROVE  TypeInv'
  <2>1. /\ queueSyncIndex < MaxIndex /\ queueSyncIndex' = queueSyncIndex + 1
        /\ syncTaskQueue' = Append(syncTaskQueue,
             Task("Terminate", kInvalidGCReason, queueSyncIndex + 1))
        /\ NotifyQueue
        /\ stopping' = TRUE
        /\ forking' = fork
        /\ UNCHANGED <<tqWord, gcThreadRunning, starts, isGcTriggered,
                       finishedGcIndex, reqVars, owed>>
    BY <1>2 DEF StopThread
  <2>2. queueSyncIndex' \in 0 .. MaxIndex
    BY <2>1 DEF TypeInv, TypeOK
  <2>3. /\ Task("Terminate", kInvalidGCReason, queueSyncIndex + 1) \in Tasks
        /\ Task("Terminate", kInvalidGCReason, queueSyncIndex + 1).index
             = queueSyncIndex + 1
        /\ Task("Terminate", kInvalidGCReason, queueSyncIndex + 1).type
             = "Terminate"
        /\ Task("Terminate", kInvalidGCReason, queueSyncIndex + 1).reason
             = kInvalidGCReason
    BY <2>1, <2>2 DEF Task, Tasks
  <2>4. syncTaskQueue' \in Seq(Tasks) /\ QueueShape'
    BY <2>1, <2>2, <2>3, Appended
  <2>5. gcPc' \in GcPcs /\ timedOut' \in BOOLEAN /\ gcTask' \in Tasks
    BY <2>1 DEF NotifyQueue, TypeInv, TypeOK
  <2>6. TypeOK'
    BY <2>1, <2>2, <2>4, <2>5 DEF TypeInv, TypeOK
  <2> QED
    BY <2>4, <2>6 DEF TypeInv
<1> QED
  BY <1>1, <1>2

LEMMA DequeueTypes ==
  ASSUME TypeInv,
         \/ DequeueSync \/ DequeuePushTimeout \/ DequeueAsync \/ DequeueWait
         \/ DequeueTimedOut \/ RunTaskLoop \/ TaskQueueInit
  PROVE  TypeInv'
<1>1. CASE DequeueSync
  <2>1. CASE syncTaskQueue # <<>>
    <3>1. /\ gcTask' = Head(syncTaskQueue)
          /\ syncTaskQueue' = Tail(syncTaskQueue)
          /\ gcPc' = "execute" /\ timedOut' = FALSE
          /\ UNCHANGED <<tqWord, queueSyncIndex, lifeVars, isGcTriggered,
                         finishedGcIndex, reqVars, owed>>
      BY <1>1, <2>1 DEF DequeueSync
    <3>2. /\ syncTaskQueue' \in Seq(Tasks) /\ QueueShape'
          /\ gcTask' \in Tasks
      BY <2>1, <3>1, Removed
    <3>3. TypeOK'
      BY <3>1, <3>2 DEF TypeInv, TypeOK
    <3> QED
      BY <3>2, <3>3 DEF TypeInv
  <2>2. CASE syncTaskQueue = <<>>
    <3>1. TypeOK'
      BY <1>1, <2>2 DEF DequeueSync, TypeInv, TypeOK
    <3>2. QueueShape'
      BY <1>1, <2>2 DEF DequeueSync, TypeInv, QueueShape
    <3> QED
      BY <3>1, <3>2 DEF TypeInv
  <2> QED
    BY <2>1, <2>2
<1>2. CASE DequeuePushTimeout
  <2>1. GetPrio(Task("Timeout", kInvalidGCReason, kAsyncIndex)) \in 1 .. 10
    BY DEF GetPrio, Task
  <2>2. tqWord' \in SUBSET (1 .. 10)
    BY <1>2, <2>1, PushTypes DEF DequeuePushTimeout, TypeInv
  <2>3. TypeOK'
    BY <1>2, <2>2 DEF DequeuePushTimeout, TypeInv, TypeOK
  <2> QED
    BY <1>2, <2>3 DEF DequeuePushTimeout, TypeInv, QueueShape
<1>3. CASE DequeueAsync
  <2>1. /\ tqWord' \in SUBSET (1 .. 10) /\ gcTask' \in Tasks
        /\ gcPc' \in GcPcs /\ timedOut' \in BOOLEAN
    <3>1. CASE tqWord = {}
      BY <1>3, <3>1 DEF DequeueAsync, TypeInv, TypeOK
    <3>2. CASE tqWord # {}
      <4>0. \A p \in tqWord : p \in 1 .. 10
        BY DEF TypeInv, TypeOK
      <4>1. FirstPrio \in 1 .. 10
        BY <3>2, <4>0, PopTakesOne DEF TypeInv
      <4>2. /\ gcTask' = FromPrio(FirstPrio) /\ tqWord' = tqWord \ {FirstPrio}
            /\ gcPc' = "execute" /\ timedOut' = FALSE
        BY <1>3, <3>2 DEF DequeueAsync
      <4> QED
        BY <4>0, <4>1, <4>2, TaskTypes
    <3> QED
      BY <3>1, <3>2
  <2>2. UNCHANGED <<syncTaskQueue, queueSyncIndex, lifeVars, isGcTriggered,
                    finishedGcIndex, reqVars, owed>>
    BY <1>3 DEF DequeueAsync
  <2>3. TypeOK'
    BY <2>1, <2>2 DEF TypeInv, TypeOK
  <2> QED
    BY <2>2, <2>3 DEF TypeInv, QueueShape
<1>4. CASE DequeueWait \/ DequeueTimedOut \/ RunTaskLoop \/ TaskQueueInit
  <2>0. 1 \in 0 .. MaxIndex
    OBVIOUS
  <2>1. TypeOK'
    <3>1. CASE DequeueWait \/ DequeueTimedOut
      BY <3>1 DEF DequeueWait, DequeueTimedOut, TypeInv, TypeOK
    <3>2. CASE RunTaskLoop
      BY <2>0, <3>2 DEF RunTaskLoop, TypeInv, TypeOK
    <3>3. CASE TaskQueueInit
      BY <2>0, <3>3 DEF TaskQueueInit, TypeInv, TypeOK
    <3> QED
      BY <1>4, <3>1, <3>2, <3>3
  <2> QED
    BY <1>4, <2>1
    DEF DequeueWait, DequeueTimedOut, RunTaskLoop, TaskQueueInit, TypeInv,
        QueueShape
<1> QED
  BY <1>1, <1>2, <1>3, <1>4

LEMMA ExecuteTypes ==
  ASSUME TypeInv,
         \/ ExecuteInvokeGC \/ ExecuteTimeoutGC \/ ExecuteTimeout
         \/ ExecuteTerminate \/ FinishGC \/ ExitNotify
  PROVE  TypeInv'
<1>1. CASE ExecuteInvokeGC \/ ExecuteTimeoutGC
  <2>1. TypeOK'
    BY <1>1 DEF ExecuteInvokeGC, ExecuteTimeoutGC, StartGC, TypeInv, TypeOK
  <2> QED
    BY <1>1, <2>1
    DEF ExecuteInvokeGC, ExecuteTimeoutGC, StartGC, TypeInv, QueueShape
<1>2. CASE ExecuteTimeout
  <2>1. TypeOK'
    BY <1>2 DEF ExecuteTimeout, TypeInv, TypeOK
  <2> QED
    BY <1>2, <2>1 DEF ExecuteTimeout, TypeInv, QueueShape
<1>3. CASE ExecuteTerminate
  <2>1. /\ tqWord' = {} /\ syncTaskQueue' = <<>> /\ gcPc' = "exitNotify"
        /\ UNCHANGED <<queueSyncIndex, lifeVars, gcTask, timedOut,
                       isGcTriggered, finishedGcIndex, reqVars, owed>>
    BY <1>3 DEF ExecuteTerminate
  <2>2. tqWord' \in SUBSET (1 .. 10) /\ syncTaskQueue' \in Seq(Tasks)
    BY <2>1
  <2>3. TypeOK'
    BY <2>1, <2>2 DEF TypeInv, TypeOK
  <2>4. QueueShape'
    BY <2>1 DEF QueueShape
  <2> QED
    BY <2>3, <2>4 DEF TypeInv
<1>4. CASE FinishGC \/ ExitNotify
  <2>1. /\ isGcTriggered' = FALSE
        /\ finishedGcIndex' \in {0, gcTask.index, finishedGcIndex}
        /\ finishedGcIndex' # MaxIndex + 1
        /\ gcPc' \in {"deqSync", "done"}
        /\ UNCHANGED <<queueVars, lifeVars, gcTask, timedOut, idx, owed>>
    BY <1>4 DEF FinishGC, ExitNotify, NotifyGCFinished, TypeInv, TypeOK
  <2>2. pc' \in [Requesters -> Pcs]
    BY <1>4 DEF FinishGC, ExitNotify, NotifyGCFinished, TypeInv, TypeOK
  <2>3. since' \in [Requesters -> {"none", "started", "finished"}]
    BY <1>4 DEF FinishGC, ExitNotify, NotifyGCFinished, TypeInv, TypeOK
  <2>4. finishedGcIndex' \in 0 .. MaxIndex
    <3>1. gcTask.index \in 0 .. MaxIndex + 1
      BY DEF TypeInv, TypeOK, Tasks
    <3> QED
      BY <2>1, <3>1 DEF TypeInv, TypeOK
  <2>5. TypeOK'
    BY <2>1, <2>2, <2>3, <2>4 DEF TypeInv, TypeOK
  <2> QED
    BY <2>1, <2>5 DEF TypeInv, QueueShape
<1> QED
  BY <1>1, <1>2, <1>3, <1>4

LEMMA NextTypes ==
  ASSUME TypeInv, Next
  PROVE  TypeInv'
BY RequestTypes, RequesterTypes, LifeTypes, DequeueTypes, ExecuteTypes
DEF Next, GCStep

LEMMA InitTypes ==
  ASSUME Init
  PROVE  TypeInv
<1>1. /\ tqWord \in SUBSET (1 .. 10) /\ syncTaskQueue \in Seq(Tasks)
      /\ owed \in SUBSET (0 .. 8)
  BY DEF Init
<1>2. gcTask \in Tasks
  <2>1. MaxIndex + 1 \in 0 .. MaxIndex + 1
    OBVIOUS
  <2> QED
    BY <2>1, TaskTypes DEF Init, NoTask
<1>3. /\ pc \in [Requesters -> Pcs]
      /\ idx \in [Requesters -> 0 .. MaxIndex]
      /\ since \in [Requesters -> {"none", "started", "finished"}]
  BY DEF Init
<1>4. /\ queueSyncIndex \in 0 .. MaxIndex /\ finishedGcIndex \in 0 .. MaxIndex
      /\ starts \in 0 .. MaxStarts
  BY DEF Init
<1>5. /\ gcThreadRunning \in BOOLEAN /\ stopping \in BOOLEAN
      /\ forking \in BOOLEAN /\ timedOut \in BOOLEAN
      /\ isGcTriggered \in BOOLEAN /\ gcPc \in GcPcs
  BY DEF Init
<1>6. TypeOK
  BY <1>1, <1>2, <1>3, <1>4, <1>5 DEF TypeOK
<1>7. QueueShape
  BY DEF Init, QueueShape
<1> QED
  BY <1>6, <1>7 DEF TypeInv

-----------------------------------------------------------------------------
(* The other parts of IInv, action by action.  The actions that leave the  *)
(* queue, the indices and the life cycle alone are of two kinds.           *)

Rest == LifeInv /\ TerminateInv /\ IndexInv /\ ExecuteInv /\ WaitInv

(* One requester moves, and perhaps wakes the GC thread.                   *)
LEMMA RequesterMoves ==
  ASSUME IInv, NEW r \in Requesters, NEW l \in Pcs,
         pc' = [pc EXCEPT ![r] = l],
         \A q \in Requesters : q # r => idx'[q] = idx[q] /\ since'[q] = since[q],
         UNCHANGED <<syncTaskQueue, queueSyncIndex, lifeVars, isGcTriggered,
                     finishedGcIndex, gcTask>>,
         gcPc' = gcPc \/ (gcPc = "waiting" /\ gcPc' = "deqSync"),
         pc[r] = "idle" => /\ ~forking
                           /\ gcPc \notin {"off", "starting", "init"},
         RequestInv(r)', SleepInv(r)'
  PROVE  Rest'
<1>1. Requests' = Requests
  BY DEF Requests
<1>2. LifeInv'
  <2>1. AllIdle => pc[r] = "idle"
    BY DEF AllIdle
  <2> QED
    BY <2>1 DEF IInv, LifeInv
<1>3. TerminateInv'
  BY <1>1 DEF IInv, TerminateInv
<1>4. IndexInv'
  BY <1>1 DEF IInv, IndexInv
<1>5. ExecuteInv'
  BY <1>1 DEF IInv, ExecuteInv
<1>6. WaitInv'
  <2> SUFFICES ASSUME NEW q \in Requesters, q # r
               PROVE  RequestInv(q)' /\ SleepInv(q)'
    BY DEF WaitInv
  <2>1. RequestInv(q) /\ SleepInv(q) /\ pc'[q] = pc[q]
    BY DEF IInv, WaitInv, TypeInv, TypeOK
  <2> QED
    BY <1>1, <2>1 DEF RequestInv, SleepInv, InQueue, InExecution
<1> QED
  BY <1>2, <1>3, <1>4, <1>5, <1>6 DEF Rest

(* The GC thread moves, between tasks or to an asynchronous one.           *)
LEMMA GcMoves ==
  ASSUME IInv,
         UNCHANGED <<syncTaskQueue, queueSyncIndex, lifeVars, isGcTriggered,
                     finishedGcIndex, reqVars>>,
         {gcPc, gcPc'} \subseteq {"deqSync", "deqTimeout", "deqPop", "deqWait",
                                  "waiting", "execute"},
         gcPc = "execute" => gcTask.type = "Timeout",
         gcPc' = "execute" => /\ gcTask'.type \in {"InvokeGC", "Timeout"}
                              /\ gcTask'.index = kAsyncIndex
  PROVE  Rest'
<1>1. Requests' = Requests
  BY DEF Requests
<1>2. LifeInv'
  BY DEF IInv, LifeInv, AllIdle
<1>3. TerminateInv'
  BY <1>1 DEF IInv, TerminateInv
<1>4. IndexInv'
  BY <1>1 DEF IInv, IndexInv
<1>5. ExecuteInv'
  BY DEF ExecuteInv
<1>6. WaitInv'
  <2> SUFFICES ASSUME NEW q \in Requesters
               PROVE  RequestInv(q)' /\ SleepInv(q)'
    BY DEF WaitInv
  <2>1. RequestInv(q) /\ SleepInv(q)
    BY DEF IInv, WaitInv
  <2>2. InQueue(q)' <=> InQueue(q)
    BY <1>1 DEF InQueue
  <2> QED
    BY <2>1, <2>2 DEF RequestInv, SleepInv, InExecution
<1> QED
  BY <1>2, <1>3, <1>4, <1>5, <1>6 DEF Rest

LEMMA EnqueueAsyncStep ==
  ASSUME IInv, ~EarlyRequests, NEW r \in Requesters, NEW reason \in Reasons,
         EnqueueAsync(r, reason)
  PROVE  Rest'
<1>1. /\ pc' = [pc EXCEPT ![r] = "notify"] /\ pc'[r] = "notify"
      /\ ~forking /\ gcPc \notin {"off", "starting", "init"}
      /\ UNCHANGED <<syncTaskQueue, queueSyncIndex, lifeVars, gcVars,
                     isGcTriggered, finishedGcIndex, idx, since>>
  BY DEF EnqueueAsync, MayRequest, IInv, TypeInv, TypeOK
<1>2. RequestInv(r)' /\ SleepInv(r)'
  BY <1>1 DEF RequestInv, SleepInv
<1> QED
  BY <1>1, <1>2, RequesterMoves

LEMMA NotifyAsyncStep ==
  ASSUME IInv, NEW r \in Requesters, NotifyAsync(r)
  PROVE  Rest'
<1>1. /\ pc[r] = "notify"
      /\ pc' = [pc EXCEPT ![r] = "idle"] /\ pc'[r] = "idle"
      /\ gcPc' = gcPc \/ (gcPc = "waiting" /\ gcPc' = "deqSync")
      /\ UNCHANGED <<syncTaskQueue, queueSyncIndex, lifeVars, gcTask,
                     isGcTriggered, finishedGcIndex, idx, since>>
  BY DEF NotifyAsync, NotifyQueue, IInv, TypeInv, TypeOK
<1>2. RequestInv(r)' /\ SleepInv(r)'
  BY <1>1 DEF RequestInv, SleepInv
<1> QED
  BY <1>1, <1>2, RequesterMoves

(* A requester goes back to idle.                                          *)
LEMMA ReturnStep ==
  ASSUME IInv, NEW r \in Requesters, Return(r), pc[r] # "idle",
         UNCHANGED <<queueVars, lifeVars, gcVars, isGcTriggered,
                     finishedGcIndex>>
  PROVE  Rest'
<1>1. /\ pc' = [pc EXCEPT ![r] = "idle"] /\ pc'[r] = "idle"
      /\ \A q \in Requesters : q # r => idx'[q] = idx[q] /\ since'[q] = since[q]
  BY DEF Return, IInv, TypeInv, TypeOK
<1>2. RequestInv(r)' /\ SleepInv(r)'
  BY <1>1 DEF RequestInv, SleepInv
<1> QED
  BY <1>1, <1>2, RequesterMoves

LEMMA CheckFinishedStep ==
  ASSUME IInv, NEW r \in Requesters, CheckFinished(r)
  PROVE  Rest'
<1>1. /\ pc[r] = "check"
      /\ UNCHANGED <<queueVars, lifeVars, gcVars, isGcTriggered,
                     finishedGcIndex, owed>>
  BY DEF CheckFinished
<1>2. CASE Finished(r)
  BY <1>1, <1>2, ReturnStep DEF CheckFinished
<1>3. CASE ~Finished(r)
  <2>1. /\ pc' = [pc EXCEPT ![r] = "blocked"] /\ pc'[r] = "blocked"
        /\ UNCHANGED <<idx, since>>
    BY <1>3 DEF CheckFinished, IInv, TypeInv, TypeOK
  <2>2. finishedGcIndex < idx[r] /\ finishedGcIndex # 0
    BY <1>3 DEF Finished, IInv, TypeInv, TypeOK
  <2>3. RequestInv(r) /\ Requests' = Requests
    BY <1>1 DEF IInv, WaitInv, Requests
  <2>4. RequestInv(r)'
    BY <1>1, <2>1, <2>3 DEF RequestInv, InQueue, InExecution
  <2>5. SleepInv(r)'
    BY <1>1, <2>1, <2>2 DEF IInv, LifeInv, SleepInv
  <2> QED
    BY <1>1, <2>1, <2>4, <2>5, RequesterMoves
<1> QED
  BY <1>2, <1>3

LEMMA WaitGCStoppedStep ==
  ASSUME IInv, NEW r \in Requesters, WaitGCStopped(r)
  PROVE  Rest'
<1>1. /\ pc[r] = "idle" /\ ~forking /\ isGcTriggered
      /\ pc' = [pc EXCEPT ![r] = "stopBlocked"] /\ pc'[r] = "stopBlocked"
      /\ \A q \in Requesters : q # r => idx'[q] = idx[q] /\ since'[q] = since[q]
      /\ UNCHANGED <<queueVars, lifeVars, gcVars, isGcTriggered,
                     finishedGcIndex, since>>
  BY DEF WaitGCStopped, Stopped, IInv, TypeInv, TypeOK
<1>2. gcPc = "collect"
  BY <1>1 DEF IInv, LifeInv
<1>3. RequestInv(r)' /\ SleepInv(r)'
  BY <1>1, <1>2 DEF RequestInv, SleepInv
<1> QED
  BY <1>1, <1>2, <1>3, RequesterMoves

LEMMA CheckStoppedStep ==
  ASSUME IInv, NEW r \in Requesters, CheckStopped(r)
  PROVE  Rest'
<1>1. /\ pc[r] = "stopCheck"
      /\ UNCHANGED <<queueVars, lifeVars, gcVars, isGcTriggered,
                     finishedGcIndex, owed>>
  BY DEF CheckStopped
<1>2. CASE Stopped(idx[r])
  BY <1>1, <1>2, ReturnStep DEF CheckStopped
<1>3. CASE ~Stopped(idx[r])
  <2>1. /\ pc' = [pc EXCEPT ![r] = "stopBlocked"] /\ pc'[r] = "stopBlocked"
        /\ UNCHANGED <<idx, since>> /\ isGcTriggered
    BY <1>3 DEF CheckStopped, Stopped, IInv, TypeInv, TypeOK
  <2>2. RequestInv(r)' /\ SleepInv(r)'
    BY <1>1, <2>1 DEF IInv, LifeInv, RequestInv, SleepInv
  <2> QED
    BY <1>1, <2>1, <2>2, RequesterMoves
<1> QED
  BY <1>2, <1>3

LEMMA WaitGCStoppedLiteStep ==
  ASSUME IInv, NEW r \in Requesters, WaitGCStoppedLite(r)
  PROVE  Rest'
BY ReturnStep DEF WaitGCStoppedLite

(* Enqueue<true>() merges the request with one in the queue.               *)
LEMMA MergeStep ==
  ASSUME IInv, ~EarlyRequests, NEW r \in Requesters, NEW reason \in Reasons,
         Enqueue(r, reason), SameReason(reason) # {}
  PROVE  Rest'
<1> DEFINE same == SameReason(reason)
           last == CHOOSE i \in same : \A j \in same : j <= i
           l == IF IsLiteBlockingGC(reason) THEN "lite" ELSE "check"
<1>1. /\ ~forking /\ gcPc \notin {"off", "starting", "init"}
      /\ idx' = [idx EXCEPT ![r] = syncTaskQueue[last].index]
      /\ since' = [since EXCEPT ![r] = "none"]
      /\ pc' = [pc EXCEPT ![r] = l] /\ l \in Pcs
      /\ UNCHANGED <<queueVars, lifeVars, gcVars, isGcTriggered,
                     finishedGcIndex>>
  BY DEF Enqueue, MayRequest
<1>2. last \in Requests
  BY MergedIsQueued DEF IInv
<1> HIDE DEF last, l
<1>3. /\ idx'[r] = syncTaskQueue[last].index /\ since'[r] = "none"
      /\ pc'[r] \in {"lite", "check"}
      /\ \A q \in Requesters : q # r => idx'[q] = idx[q] /\ since'[q] = since[q]
  BY <1>1 DEF IInv, TypeInv, TypeOK, l
<1>4. Requests' = Requests /\ InQueue(r)'
  BY <1>1, <1>2, <1>3 DEF Requests, InQueue
<1>5. finishedGcIndex < syncTaskQueue[last].index
  BY <1>2 DEF IInv, IndexInv
<1>6. syncTaskQueue[last].index >= 1
  BY <1>2, <1>5 DEF IInv, TypeInv, TypeOK, QueueShape, Requests
<1>7. RequestInv(r)' /\ SleepInv(r)'
  BY <1>1, <1>3, <1>4, <1>5, <1>6 DEF RequestInv, SleepInv
<1> QED
  BY <1>1, <1>3, <1>7, RequesterMoves

(* What appending a task changes for those who wait: nothing.              *)
LEMMA AppendKeeps ==
  ASSUME IInv, NEW t \in Tasks, t.index = queueSyncIndex + 1,
         queueSyncIndex + 1 \in 0 .. MaxIndex,
         \/ t.type = "InvokeGC"
         \/ t.type = "Terminate" /\ t.reason = kInvalidGCReason,
         t.type = "InvokeGC" => gcPc \notin {"off", "starting", "init"},
         syncTaskQueue' = Append(syncTaskQueue, t),
         queueSyncIndex' = queueSyncIndex + 1,
         NotifyQueue, UNCHANGED finishedGcIndex
  PROVE  /\ IndexInv' /\ ExecuteInv'
         /\ \A q \in Requesters :
              /\ UNCHANGED <<pc[q], idx[q], since[q]>>
              /\ RequestInv(q) /\ SleepInv(q)
              => RequestInv(q)' /\ SleepInv(q)'
         /\ Requests \subseteq Requests'
<1>1. /\ gcPc' = gcPc \/ (gcPc = "waiting" /\ gcPc' = "deqSync")
      /\ gcTask' = gcTask
  BY DEF NotifyQueue
<1> DEFINE n == Len(syncTaskQueue) + 1
<1>2. /\ \A i \in 1 .. Len(syncTaskQueue) : syncTaskQueue'[i] = syncTaskQueue[i]
      /\ syncTaskQueue'[n] = t
      /\ Requests' = IF t.type = "InvokeGC" THEN Requests \cup {n} ELSE Requests
      /\ n \in Nat /\ \A i \in Requests : i \in 1 .. Len(syncTaskQueue) /\ i < n
  <2>1. TypeInv
    BY DEF IInv
  <2>2. t.index \in 0 .. MaxIndex
    OBVIOUS
  <2>3. /\ \A i \in 1 .. Len(syncTaskQueue) :
             syncTaskQueue'[i] = syncTaskQueue[i]
        /\ syncTaskQueue'[n] = t /\ Len(syncTaskQueue) \in Nat
        /\ Requests' = IF t.type = "InvokeGC" THEN Requests \cup {n}
                                              ELSE Requests
    BY <2>1, <2>2, Appended
  <2> QED
    BY <2>3 DEF Requests
<1> HIDE DEF n
<1>3. /\ queueSyncIndex \in Nat /\ finishedGcIndex \in Nat
      /\ \A i \in Requests : syncTaskQueue[i].index \in Nat
      /\ gcTask.index \in Nat
  BY DEF IInv, TypeInv, TypeOK, QueueShape, Requests, Tasks
<1>4. /\ \A i \in Requests' : \/ i \in Requests /\ i < n
                              \/ i = n /\ t.type = "InvokeGC"
      /\ \A i \in Requests : i # n /\ syncTaskQueue'[i] = syncTaskQueue[i]
  BY <1>2
<1>5. IndexInv'
  <2>1. gcPc' \notin {"off", "starting", "init"}
          => finishedGcIndex <= queueSyncIndex + 1
    BY <1>1, <1>3 DEF IInv, IndexInv
  <2>2. ASSUME NEW i \in Requests'
        PROVE  /\ finishedGcIndex < syncTaskQueue'[i].index
               /\ syncTaskQueue'[i].index <= queueSyncIndex + 1
    <3>1. CASE i = n
      <4>1. syncTaskQueue'[i].index = queueSyncIndex + 1
        BY <1>2, <3>1
      <4>2. finishedGcIndex <= queueSyncIndex
        BY <1>4, <3>1 DEF IInv, IndexInv
      <4> QED
        BY <1>3, <4>1, <4>2
    <3>2. CASE i # n
      <4>1. i \in Requests /\ syncTaskQueue'[i] = syncTaskQueue[i]
        BY <1>4, <3>2
      <4> QED
        BY <1>3, <4>1 DEF IInv, IndexInv
    <3> QED
      BY <3>1, <3>2
  <2>3. ASSUME NEW i \in Requests', NEW j \in Requests', i < j
        PROVE  syncTaskQueue'[i].index < syncTaskQueue'[j].index
    <3>1. i \in Requests /\ i # n
      BY <1>2, <1>4, <2>3
    <3>2. CASE j = n
      <4>1. /\ syncTaskQueue'[j].index = queueSyncIndex + 1
            /\ syncTaskQueue'[i] = syncTaskQueue[i]
        BY <1>2, <1>4, <3>1, <3>2
      <4>2. syncTaskQueue[i].index <= queueSyncIndex
        BY <3>1 DEF IInv, IndexInv
      <4> QED
        BY <1>3, <3>1, <4>1, <4>2
    <3>3. CASE j # n
      BY <1>4, <2>3, <3>1, <3>3 DEF IInv, IndexInv
    <3> QED
      BY <3>2, <3>3
  <2> QED
    BY <2>1, <2>2, <2>3 DEF IndexInv
<1>6. ExecuteInv'
  <2> SUFFICES ASSUME gcPc' \in {"execute", "collect"}
               PROVE  ExecuteInv'
    BY DEF ExecuteInv
  <2>1. gcPc \in {"execute", "collect"} /\ gcPc' = gcPc /\ ExecuteInv
    BY <1>1 DEF IInv
  <2>2. ASSUME gcTask.type = "InvokeGC", gcTask.index # kAsyncIndex
        PROVE  /\ finishedGcIndex < gcTask.index
               /\ gcTask.index <= queueSyncIndex + 1
               /\ \A i \in Requests' : gcTask.index < syncTaskQueue'[i].index
    <3>1. /\ finishedGcIndex < gcTask.index
          /\ gcTask.index <= queueSyncIndex
          /\ \A i \in Requests : gcTask.index < syncTaskQueue[i].index
      BY <2>1, <2>2 DEF ExecuteInv
    <3>2. gcTask.index < queueSyncIndex + 1
      BY <1>3, <3>1
    <3>3. ASSUME NEW i \in Requests'
          PROVE  gcTask.index < syncTaskQueue'[i].index
      BY <1>2, <1>4, <3>1, <3>2
    <3>4. gcTask.index <= queueSyncIndex + 1
      BY <1>3, <3>2
    <3> QED
      BY <3>1, <3>3, <3>4
  <2> QED
    BY <1>1, <2>1, <2>2 DEF ExecuteInv
<1>7. ASSUME NEW q \in Requesters, UNCHANGED <<pc[q], idx[q], since[q]>>,
             RequestInv(q), SleepInv(q)
      PROVE  RequestInv(q)' /\ SleepInv(q)'
  <2>1. InQueue(q) => InQueue(q)'
    BY <1>2, <1>4, <1>7 DEF InQueue
  <2> QED
    BY <1>1, <1>7, <2>1 DEF RequestInv, SleepInv, InExecution
<1> QED
  BY <1>2, <1>5, <1>6, <1>7

(* Enqueue<true>() appends a task.                                         *)
LEMMA AppendStep ==
  ASSUME IInv, ~EarlyRequests, NEW r \in Requesters, NEW reason \in Reasons,
         Enqueue(r, reason), SameReason(reason) = {}
  PROVE  Rest'
<1> DEFINE l == IF IsLiteBlockingGC(reason) THEN "lite" ELSE "check"
           t == Task("InvokeGC", reason, queueSyncIndex + 1)
<1>1. /\ ~forking /\ gcPc \notin {"off", "starting", "init"}
      /\ queueSyncIndex + 1 < MaxIndex /\ queueSyncIndex' = queueSyncIndex + 1
      /\ syncTaskQueue' = Append(syncTaskQueue, t)
      /\ NotifyQueue
      /\ idx' = [idx EXCEPT ![r] = queueSyncIndex + 1]
      /\ since' = [since EXCEPT ![r] = "none"]
      /\ pc' = [pc EXCEPT ![r] = l] /\ l \in {"lite", "check"}
      /\ UNCHANGED <<lifeVars, isGcTriggered, finishedGcIndex>>
  BY DEF Enqueue, MayRequest
<1>2. queueSyncIndex + 1 \in 1 .. MaxIndex
  BY <1>1 DEF IInv, TypeInv, TypeOK
<1>3. /\ t \in Tasks /\ t.index = queueSyncIndex + 1 /\ t.type = "InvokeGC"
  <2>1. reason \in 0 .. 8 /\ queueSyncIndex + 1 \in 0 .. MaxIndex + 1
    BY <1>2
  <2> QED
    BY <2>1 DEF Task, Tasks
<1> HIDE DEF l, t
<1>4. /\ IndexInv' /\ ExecuteInv'
      /\ \A q \in Requesters :
           /\ UNCHANGED <<pc[q], idx[q], since[q]>>
           /\ RequestInv(q) /\ SleepInv(q)
           => RequestInv(q)' /\ SleepInv(q)'
  BY <1>1, <1>2, <1>3, AppendKeeps
<1>5. /\ \A i \in 1 .. Len(syncTaskQueue) : syncTaskQueue'[i] = syncTaskQueue[i]
      /\ Len(syncTaskQueue) \in Nat
      /\ Len(syncTaskQueue') = Len(syncTaskQueue) + 1
      /\ syncTaskQueue'[Len(syncTaskQueue) + 1] = t
      /\ Len(syncTaskQueue) + 1 \in Requests'
  BY <1>1, <1>2, <1>3, Appended DEF IInv
<1>6. /\ gcPc' = gcPc \/ (gcPc = "waiting" /\ gcPc' = "deqSync")
      /\ gcTask' = gcTask
  BY <1>1 DEF NotifyQueue
<1>7. LifeInv'
  BY <1>1, <1>6 DEF IInv, LifeInv
<1>8. TerminateInv'
  <2>1. ASSUME NEW i \in 1 .. Len(syncTaskQueue'),
               syncTaskQueue'[i].type = "Terminate"
        PROVE  i \in 1 .. Len(syncTaskQueue)
    BY <1>3, <1>5, <2>1
  <2> QED
    BY <1>1, <1>5, <1>6, <2>1 DEF IInv, TerminateInv, LifeInv
<1>9. WaitInv'
  <2>1. /\ idx'[r] = queueSyncIndex + 1 /\ since'[r] = "none"
        /\ pc'[r] \in {"lite", "check"}
        /\ \A q \in Requesters : q # r => UNCHANGED <<pc[q], idx[q], since[q]>>
    BY <1>1 DEF IInv, TypeInv, TypeOK
  <2>2. InQueue(r)'
    BY <1>3, <1>5, <2>1 DEF InQueue
  <2>3. finishedGcIndex < queueSyncIndex + 1
    BY <1>1 DEF IInv, IndexInv, TypeInv, TypeOK
  <2>4. RequestInv(r)' /\ SleepInv(r)'
    BY <1>1, <1>2, <2>1, <2>2, <2>3 DEF RequestInv, SleepInv
  <2> QED
    BY <1>4, <2>1, <2>4 DEF IInv, WaitInv
<1> QED
  BY <1>4, <1>7, <1>8, <1>9 DEF Rest

LEMMA StopThreadStep ==
  ASSUME IInv, NEW fork \in BOOLEAN, StopThread(fork)
  PROVE  Rest'
<1> DEFINE t == Task("Terminate", kInvalidGCReason, queueSyncIndex + 1)
<1>1. /\ gcThreadRunning /\ ~stopping
      /\ fork => \A r \in Requesters : pc[r] = "idle"
      /\ queueSyncIndex < MaxIndex /\ queueSyncIndex' = queueSyncIndex + 1
      /\ syncTaskQueue' = Append(syncTaskQueue, t)
      /\ NotifyQueue
      /\ stopping' = TRUE /\ forking' = fork
      /\ UNCHANGED <<gcThreadRunning, starts, isGcTriggered, finishedGcIndex,
                     reqVars>>
  BY DEF StopThread
<1>2. queueSyncIndex + 1 \in 0 .. MaxIndex
  BY <1>1 DEF IInv, TypeInv, TypeOK
<1>3. /\ t \in Tasks /\ t.index = queueSyncIndex + 1 /\ t.type = "Terminate"
      /\ t.reason = kInvalidGCReason
  <2>1. queueSyncIndex + 1 \in 0 .. MaxIndex + 1
    BY <1>2
  <2> QED
    BY <2>1 DEF Task, Tasks
<1> HIDE DEF t
<1>4. /\ IndexInv' /\ ExecuteInv'
      /\ \A q \in Requesters :
           /\ UNCHANGED <<pc[q], idx[q], since[q]>>
           /\ RequestInv(q) /\ SleepInv(q)
           => RequestInv(q)' /\ SleepInv(q)'
  BY <1>1, <1>2, <1>3, AppendKeeps
<1>5. Requests' = Requests
  BY <1>1, <1>2, <1>3, Appended DEF IInv
<1>6. /\ gcPc' = gcPc \/ (gcPc = "waiting" /\ gcPc' = "deqSync")
      /\ gcTask' = gcTask
  BY <1>1 DEF NotifyQueue
<1>7. gcPc \notin {"exitNotify", "done", "off"}
  BY <1>1 DEF IInv, TerminateInv, LifeInv
<1>8. LifeInv'
  BY <1>1, <1>6 DEF IInv, LifeInv, AllIdle
<1>9. TerminateInv'
  BY <1>1, <1>5, <1>6, <1>7 DEF IInv, TerminateInv
<1>10. WaitInv'
  BY <1>1, <1>4 DEF IInv, WaitInv
<1> QED
  BY <1>4, <1>8, <1>9, <1>10 DEF Rest

LEMMA StartThreadStep ==
  ASSUME IInv, StartThread
  PROVE  Rest'
<1>1. /\ gcPc = "off" /\ gcPc' = "starting"
      /\ starts = 0 \/ forking
      /\ gcThreadRunning' = TRUE /\ forking' = FALSE
      /\ starts' = starts + 1 /\ starts \in Nat
      /\ UNCHANGED <<queueVars, stopping, gcTask, isGcTriggered,
                     finishedGcIndex, reqVars>>
  BY DEF StartThread, IInv, LifeInv, TypeInv, TypeOK
<1>2. AllIdle /\ Requests = {}
  BY <1>1 DEF IInv, LifeInv, TerminateInv
<1>3. AllIdle' /\ Requests' = {}
  BY <1>1, <1>2 DEF AllIdle, Requests
<1>4. LifeInv'
  BY <1>1, <1>3 DEF IInv, LifeInv
<1>5. TerminateInv'
  BY <1>1, <1>3 DEF IInv, TerminateInv
<1>6. IndexInv' /\ ExecuteInv'
  BY <1>1, <1>3 DEF IndexInv, ExecuteInv
<1>7. WaitInv'
  BY <1>3 DEF WaitInv, RequestInv, SleepInv, AllIdle
<1> QED
  BY <1>4, <1>5, <1>6, <1>7 DEF Rest

LEMMA JoinThreadStep ==
  ASSUME IInv, JoinThread
  PROVE  Rest'
<1>1. /\ gcPc = "done" /\ gcPc' = "off" /\ gcThreadRunning' = FALSE
      /\ stopping' = FALSE
      /\ UNCHANGED <<queueVars, forking, starts, gcTask, isGcTriggered,
                     finishedGcIndex, reqVars>>
  BY DEF JoinThread
<1>2. Requests' = Requests
  BY <1>1 DEF Requests
<1>3. LifeInv'
  BY <1>1 DEF IInv, LifeInv, AllIdle
<1>4. TerminateInv'
  BY <1>1, <1>2 DEF IInv, TerminateInv, LifeInv
<1>5. IndexInv' /\ ExecuteInv'
  BY <1>1, <1>2 DEF IInv, IndexInv, ExecuteInv
<1>6. WaitInv'
  BY <1>1 DEF IInv, WaitInv, RequestInv, SleepInv
<1> QED
  BY <1>3, <1>4, <1>5, <1>6 DEF Rest

LEMMA StartingStep ==
  ASSUME IInv, RunTaskLoop \/ TaskQueueInit
  PROVE  Rest'
<1>1. /\ \/ gcPc = "starting" /\ gcPc' = "init" /\ finishedGcIndex' = 1
         \/ /\ gcPc = "init" /\ gcPc' = "deqSync"
            /\ UNCHANGED finishedGcIndex /\ queueSyncIndex' = 1
      /\ UNCHANGED <<syncTaskQueue, lifeVars, gcTask, isGcTriggered, reqVars>>
  BY DEF RunTaskLoop, TaskQueueInit
<1>2. AllIdle /\ Requests = {}
  BY <1>1 DEF IInv, LifeInv, TerminateInv
<1>3. AllIdle' /\ Requests' = {}
  BY <1>1, <1>2 DEF AllIdle, Requests
<1>4. LifeInv'
  BY <1>1, <1>3 DEF IInv, LifeInv
<1>5. TerminateInv'
  BY <1>1, <1>3 DEF IInv, TerminateInv
<1>6. IndexInv' /\ ExecuteInv'
  BY <1>1, <1>3 DEF IInv, LifeInv, IndexInv, ExecuteInv
<1>7. WaitInv'
  BY <1>3 DEF WaitInv, RequestInv, SleepInv, AllIdle
<1> QED
  BY <1>4, <1>5, <1>6, <1>7 DEF Rest

(* Dequeue() takes the first task: it is below all that are left.          *)
LEMMA DequeueSyncStep ==
  ASSUME IInv, DequeueSync
  PROVE  Rest'
<1>1. CASE syncTaskQueue = <<>>
  BY <1>1, GcMoves DEF DequeueSync
<1>2. CASE syncTaskQueue # <<>>
  <2>1. /\ gcPc = "deqSync" /\ gcPc' = "execute"
        /\ gcTask' = Head(syncTaskQueue)
        /\ syncTaskQueue' = Tail(syncTaskQueue)
        /\ UNCHANGED <<queueSyncIndex, lifeVars, isGcTriggered,
                       finishedGcIndex, reqVars>>
    BY <1>2 DEF DequeueSync
  <2>2. /\ Len(syncTaskQueue) \in Nat \ {0}
        /\ Len(syncTaskQueue') = Len(syncTaskQueue) - 1
        /\ \A i \in 1 .. Len(syncTaskQueue') :
             syncTaskQueue'[i] = syncTaskQueue[i + 1]
        /\ gcTask' = syncTaskQueue[1]
        /\ \A i : i \in Requests' => i \in Nat /\ i >= 1 /\ i + 1 \in Requests
        /\ \A i \in Requests : i = 1 \/ i - 1 \in Requests'
    BY <1>2, <2>1, Removed DEF IInv
  <2>3. \A i \in Requests' : /\ i \in Nat /\ 1 < i + 1 /\ i + 1 \in Requests
                             /\ syncTaskQueue'[i] = syncTaskQueue[i + 1]
    BY <2>2 DEF Requests
  <2>4. syncTaskQueue[1].type # "InvokeGC" \/ 1 \in Requests
    BY <2>2 DEF Requests
  <2>5. LifeInv'
    BY <2>1 DEF IInv, LifeInv, AllIdle
  <2>6. TerminateInv'
    <3>1. \A i \in 1 .. Len(syncTaskQueue') : i + 1 \in 1 .. Len(syncTaskQueue)
      BY <2>2
    <3>2. 1 \in 1 .. Len(syncTaskQueue)
      BY <2>2
    <3> QED
      BY <2>1, <2>2, <3>1, <3>2 DEF IInv, TerminateInv, LifeInv
  <2>7. IndexInv'
    <3>1. ASSUME NEW i \in Requests', NEW j \in Requests', i < j
          PROVE  syncTaskQueue'[i].index < syncTaskQueue'[j].index
      <4>1. i + 1 < j + 1
        BY <2>3, <3>1
      <4> QED
        BY <2>3, <4>1 DEF IInv, IndexInv
    <3> QED
      BY <2>1, <2>3, <3>1 DEF IInv, IndexInv
  <2>8. ExecuteInv'
    <3>1. gcTask'.type \in {"InvokeGC", "Terminate"}
      BY <2>2 DEF IInv, TypeInv, QueueShape
    <3>2. ASSUME gcTask'.type = "InvokeGC"
          PROVE  /\ finishedGcIndex < gcTask'.index
                 /\ gcTask'.index <= queueSyncIndex
                 /\ \A i \in Requests' : gcTask'.index < syncTaskQueue'[i].index
      BY <2>2, <2>3, <2>4, <3>2 DEF IInv, IndexInv
    <3> QED
      BY <2>1, <3>1, <3>2 DEF ExecuteInv
  <2>9. WaitInv'
    <3> SUFFICES ASSUME NEW q \in Requesters
                 PROVE  RequestInv(q)' /\ SleepInv(q)'
      BY DEF WaitInv
    <3>1. RequestInv(q) /\ SleepInv(q)
      BY DEF IInv, WaitInv
    <3>2. InQueue(q) => InQueue(q)' \/ InExecution(q)'
      <4>1. ASSUME NEW i \in Requests, syncTaskQueue[i].index = idx[q]
            PROVE  InQueue(q)' \/ InExecution(q)'
        <5>1. CASE i = 1
          BY <2>1, <2>2, <4>1, <5>1 DEF InExecution, Requests
        <5>2. CASE i # 1
          <6>1. /\ i - 1 \in Requests'
                /\ syncTaskQueue'[i - 1] = syncTaskQueue[i]
            BY <2>2, <2>3, <5>2 DEF Requests
          <6> QED
            BY <2>1, <4>1, <6>1 DEF InQueue
        <5> QED
          BY <5>1, <5>2
      <4> QED
        BY <4>1 DEF InQueue
    <3>3. ~InExecution(q)
      BY <2>1 DEF InExecution
    <3> QED
      BY <2>1, <3>1, <3>2, <3>3 DEF RequestInv, SleepInv
  <2> QED
    BY <2>5, <2>6, <2>7, <2>8, <2>9 DEF Rest
<1> QED
  BY <1>1, <1>2

LEMMA DequeueAsyncStep ==
  ASSUME IInv, DequeueAsync
  PROVE  Rest'
<1>1. CASE tqWord = {}
  BY <1>1, GcMoves DEF DequeueAsync
<1>2. CASE tqWord # {}
  <2>0. \A p \in tqWord : p \in 1 .. 10
    BY DEF IInv, TypeInv, TypeOK
  <2>1. FirstPrio \in 1 .. 10
    BY <1>2, <2>0, PopTakesOne DEF IInv, TypeInv
  <2>2. /\ gcPc = "deqPop" /\ gcPc' = "execute"
        /\ gcTask' = FromPrio(FirstPrio)
        /\ UNCHANGED <<syncTaskQueue, queueSyncIndex, lifeVars, isGcTriggered,
                       finishedGcIndex, reqVars>>
    BY <1>2 DEF DequeueAsync
  <2>3. /\ gcTask'.type \in {"InvokeGC", "Timeout"}
        /\ gcTask'.index = kAsyncIndex
    BY <2>1, <2>2, TaskTypes
  <2> QED
    BY <2>2, <2>3, GcMoves
<1> QED
  BY <1>1, <1>2

LEMMA DequeueOtherStep ==
  ASSUME IInv,
         DequeuePushTimeout \/ DequeueWait \/ DequeueTimedOut \/ ExecuteTimeout
  PROVE  Rest'
BY GcMoves DEF DequeuePushTimeout, DequeueWait, DequeueTimedOut, ExecuteTimeout

(* A collection starts: every request waiting has seen one start.          *)
LEMMA StartGCStep ==
  ASSUME IInv, ExecuteInvokeGC \/ ExecuteTimeoutGC
  PROVE  Rest'
<1>1. /\ gcPc = "execute" /\ gcPc' = "collect" /\ isGcTriggered' = TRUE
      /\ gcTask.type # "Terminate"
      /\ since' = [r \in Requesters |->
                     IF pc[r] \in {"check", "blocked"} /\ since[r] = "none"
                     THEN "started" ELSE since[r]]
      /\ UNCHANGED <<queueVars, lifeVars, gcTask, finishedGcIndex, pc, idx>>
  BY DEF ExecuteInvokeGC, ExecuteTimeoutGC, StartGC
<1>2. Requests' = Requests
  BY <1>1 DEF Requests
<1>3. LifeInv'
  BY <1>1 DEF IInv, LifeInv, AllIdle
<1>4. TerminateInv'
  BY <1>1, <1>2 DEF IInv, TerminateInv
<1>5. IndexInv' /\ ExecuteInv'
  BY <1>1, <1>2 DEF IInv, IndexInv, ExecuteInv
<1>6. WaitInv'
  <2> SUFFICES ASSUME NEW q \in Requesters
               PROVE  RequestInv(q)' /\ SleepInv(q)'
    BY DEF WaitInv
  <2>1. RequestInv(q) /\ SleepInv(q)
    BY DEF IInv, WaitInv
  <2>2. (InQueue(q)' <=> InQueue(q)) /\ (InExecution(q)' <=> InExecution(q))
    BY <1>1, <1>2 DEF InQueue, InExecution
  <2>3. /\ pc[q] \in {"check", "blocked"} => since'[q] # "none"
        /\ since'[q] # "finished" => since[q] # "finished"
        /\ pc[q] \in {"check", "blocked"} /\ since'[q] = "finished"
             => since[q] = "finished"
    BY <1>1
  <2> QED
    BY <1>1, <2>1, <2>2, <2>3 DEF RequestInv, SleepInv
<1> QED
  BY <1>3, <1>4, <1>5, <1>6 DEF Rest

LEMMA ExecuteTerminateStep ==
  ASSUME IInv, ExecuteTerminate
  PROVE  Rest'
<1>1. /\ gcPc = "execute" /\ gcTask.type = "Terminate"
      /\ gcPc' = "exitNotify" /\ syncTaskQueue' = <<>>
      /\ UNCHANGED <<queueSyncIndex, lifeVars, gcTask, isGcTriggered,
                     finishedGcIndex, reqVars>>
  BY DEF ExecuteTerminate
<1>2. Requests' = {} /\ Len(syncTaskQueue') = 0
  BY <1>1 DEF Requests
<1>3. LifeInv'
  BY <1>1 DEF IInv, LifeInv, AllIdle
<1>4. TerminateInv'
  BY <1>1, <1>2 DEF IInv, TerminateInv
<1>5. IndexInv' /\ ExecuteInv'
  BY <1>1, <1>2 DEF IInv, IndexInv, ExecuteInv
<1>6. WaitInv'
  BY <1>1 DEF IInv, WaitInv, RequestInv, SleepInv
<1> QED
  BY <1>3, <1>4, <1>5, <1>6 DEF Rest

(* A collection is over.  Its index is below that of every request that    *)
(* did not see it start.                                                   *)
LEMMA FinishGCStep ==
  ASSUME IInv, FinishGC
  PROVE  Rest'
<1>1. /\ gcPc = "collect" /\ gcPc' = "deqSync" /\ isGcTriggered' = FALSE
      /\ finishedGcIndex' = IF gcTask.index # kAsyncIndex THEN gcTask.index
                                                          ELSE finishedGcIndex
      /\ pc' = [r \in Requesters |->
                  CASE pc[r] = "blocked" -> "check"
                    [] pc[r] = "stopBlocked" -> "stopCheck"
                    [] OTHER -> pc[r]]
      /\ since' = [r \in Requesters |->
                     IF since[r] = "started" THEN "finished" ELSE since[r]]
      /\ UNCHANGED <<queueVars, lifeVars, gcTask, idx>>
  BY DEF FinishGC, NotifyGCFinished
<1>2. Requests' = Requests
  BY <1>1 DEF Requests
<1>3. /\ gcTask.index # kAsyncIndex => gcTask.type = "InvokeGC"
      /\ gcTask.index \in Nat /\ finishedGcIndex \in Nat
      /\ finishedGcIndex' \in Nat /\ finishedGcIndex' >= finishedGcIndex
  <2>1. /\ gcTask.index \in Nat /\ finishedGcIndex \in Nat
        /\ gcTask.type \in {"InvokeGC", "Timeout", "Terminate"}
    BY DEF IInv, TypeInv, TypeOK, Tasks
  <2>2. gcTask.index # kAsyncIndex =>
          gcTask.type = "InvokeGC" /\ finishedGcIndex < gcTask.index
    BY <1>1, <2>1 DEF IInv, ExecuteInv
  <2> QED
    BY <1>1, <2>1, <2>2
<1>4. LifeInv'
  <2>1. AllIdle => AllIdle'
    BY <1>1 DEF AllIdle
  <2> QED
    BY <1>1, <2>1 DEF IInv, LifeInv
<1>5. TerminateInv'
  BY <1>1, <1>2 DEF IInv, TerminateInv
<1>6. IndexInv' /\ ExecuteInv'
  <2>1. CASE gcTask.index # kAsyncIndex
    BY <1>1, <1>2, <1>3, <2>1 DEF IInv, IndexInv, ExecuteInv
  <2>2. CASE gcTask.index = kAsyncIndex
    BY <1>1, <1>2, <2>2 DEF IInv, IndexInv, ExecuteInv
  <2> QED
    BY <2>1, <2>2
<1>7. WaitInv'
  <2> SUFFICES ASSUME NEW q \in Requesters
               PROVE  RequestInv(q)' /\ SleepInv(q)'
    BY DEF WaitInv
  <2>1. RequestInv(q) /\ SleepInv(q) /\ idx[q] \in Nat
    BY DEF IInv, WaitInv, TypeInv, TypeOK
  <2>2. /\ pc'[q] \notin {"blocked", "stopBlocked"}
        /\ pc'[q] = "check" => pc[q] \in {"check", "blocked"}
        /\ since'[q] # "started"
        /\ since'[q] # "finished" => since[q] # "finished" /\ since[q] # "started"
    BY <1>1 DEF IInv, TypeInv, TypeOK
  <2> SUFFICES ASSUME pc'[q] = "check"
               PROVE  RequestInv(q)'
    BY <2>2 DEF RequestInv, SleepInv
  <2>3. InQueue(q)' <=> InQueue(q)
    BY <1>1, <1>2 DEF InQueue
  <2>4. InExecution(q) => finishedGcIndex' = idx[q]
    BY <1>1 DEF InExecution, IInv, TypeInv, TypeOK
  <2>5. since'[q] # "finished" => finishedGcIndex' < idx[q]
    <3> SUFFICES ASSUME since'[q] # "finished"
                 PROVE  finishedGcIndex' < idx[q]
      OBVIOUS
    <3>1. since[q] = "none"
      BY <2>2 DEF IInv, TypeInv, TypeOK
    <3>2. InQueue(q) /\ finishedGcIndex < idx[q]
      BY <1>1, <2>1, <2>2, <3>1 DEF RequestInv
    <3>3. PICK i \in Requests : syncTaskQueue[i].index = idx[q]
      BY <3>2 DEF InQueue
    <3>4. gcTask.index # kAsyncIndex => gcTask.index < idx[q]
      BY <1>1, <1>3, <3>3 DEF IInv, ExecuteInv
    <3> QED
      BY <1>1, <3>2, <3>4
  <2>6. \/ InQueue(q) \/ finishedGcIndex' >= idx[q]
    BY <1>1, <1>3, <2>1, <2>2, <2>4 DEF RequestInv
  <2> QED
    BY <1>1, <2>1, <2>2, <2>3, <2>5, <2>6 DEF RequestInv
<1> QED
  BY <1>4, <1>5, <1>6, <1>7 DEF Rest

LEMMA ExitNotifyStep ==
  ASSUME IInv, ExitNotify
  PROVE  Rest'
<1>1. /\ gcPc = "exitNotify" /\ gcPc' = "done" /\ isGcTriggered' = FALSE
      /\ finishedGcIndex' = 0
      /\ pc' = [r \in Requesters |->
                  CASE pc[r] = "blocked" -> "check"
                    [] pc[r] = "stopBlocked" -> "stopCheck"
                    [] OTHER -> pc[r]]
      /\ UNCHANGED <<queueVars, lifeVars, gcTask, idx, since>>
  BY DEF ExitNotify, NotifyGCFinished
<1>2. Requests' = Requests
  BY <1>1 DEF Requests
<1>3. LifeInv'
  <2>1. AllIdle => AllIdle'
    BY <1>1 DEF AllIdle
  <2> QED
    BY <1>1, <2>1 DEF IInv, LifeInv
<1>4. TerminateInv'
  BY <1>1, <1>2 DEF IInv, TerminateInv
<1>5. IndexInv' /\ ExecuteInv'
  <2>1. /\ finishedGcIndex \in Nat /\ queueSyncIndex \in Nat
        /\ \A i \in Requests : syncTaskQueue[i].index \in Nat
    BY DEF IInv, TypeInv, TypeOK, QueueShape, Requests
  <2> QED
    BY <1>1, <1>2, <2>1 DEF IInv, IndexInv, ExecuteInv
<1>6. WaitInv'
  <2> SUFFICES ASSUME NEW q \in Requesters
               PROVE  RequestInv(q)' /\ SleepInv(q)'
    BY DEF WaitInv
  <2>1. RequestInv(q) /\ SleepInv(q) /\ idx[q] \in Nat
    BY DEF IInv, WaitInv, TypeInv, TypeOK
  <2>2. /\ pc'[q] \notin {"blocked", "stopBlocked"}
        /\ pc'[q] = "check" => pc[q] \in {"check", "blocked"}
    BY <1>1 DEF IInv, TypeInv, TypeOK
  <2> QED
    BY <1>1, <2>1, <2>2 DEF RequestInv, SleepInv
<1> QED
  BY <1>3, <1>4, <1>5, <1>6 DEF Rest

-----------------------------------------------------------------------------
(* The theorems.                                                           *)

LEMMA NextRest ==
  ASSUME IInv, ~EarlyRequests, Next
  PROVE  Rest'
<1>1. ASSUME NEW r \in Requesters, NEW reason \in Reasons, Request(r, reason)
      PROVE  Rest'
  BY <1>1, EnqueueAsyncStep, MergeStep, AppendStep DEF Request
<1>2. ASSUME NEW r \in Requesters, RequesterStep(r) \/ WaitGCStopped(r)
      PROVE  Rest'
  BY <1>2, NotifyAsyncStep, CheckFinishedStep, WaitGCStoppedLiteStep,
     CheckStoppedStep, WaitGCStoppedStep DEF RequesterStep
<1>3. ASSUME NEW fork \in BOOLEAN, StopThread(fork)
      PROVE  Rest'
  BY <1>3, StopThreadStep
<1>4. CASE StartThread \/ JoinThread
  BY <1>4, StartThreadStep, JoinThreadStep
<1>5. CASE GCStep \/ DequeueTimedOut
  BY <1>5, StartingStep, DequeueSyncStep, DequeueAsyncStep, DequeueOtherStep,
     StartGCStep, ExecuteTerminateStep, FinishGCStep, ExitNotifyStep DEF GCStep
<1> QED
  BY <1>1, <1>2, <1>3, <1>4, <1>5 DEF Next

LEMMA InitRest ==
  ASSUME Init
  PROVE  Rest
<1>1. Requests = {} /\ AllIdle
  BY DEF Init, Requests, AllIdle
<1>2. LifeInv /\ WaitInv
  BY <1>1 DEF Init, LifeInv, WaitInv, RequestInv, SleepInv
<1>3. TerminateInv
  BY <1>1 DEF Init, TerminateInv
<1>4. IndexInv /\ ExecuteInv
  BY <1>1 DEF Init, IndexInv, ExecuteInv
<1> QED
  BY <1>2, <1>3, <1>4 DEF Rest

LEMMA TypesStutter ==
  ASSUME TypeInv, UNCHANGED vars
  PROVE  TypeInv'
BY DEF vars, TypeInv, TypeOK, QueueShape

LEMMA RestStutters ==
  ASSUME IInv, UNCHANGED vars
  PROVE  Rest'
<1>1. Requests' = Requests
  BY DEF vars, Requests
<1>2. LifeInv' /\ TerminateInv'
  BY <1>1 DEF vars, IInv, LifeInv, TerminateInv, AllIdle
<1>3. IndexInv' /\ ExecuteInv'
  BY <1>1 DEF vars, IInv, IndexInv, ExecuteInv
<1>4. WaitInv'
  BY <1>1
  DEF vars, IInv, WaitInv, RequestInv, SleepInv, InQueue, InExecution
<1> QED
  BY <1>2, <1>3, <1>4 DEF Rest

(* Indices, tasks and bits stay in their ranges, whoever asks for a        *)
(* collection and when: no sync index reaches kAsyncIndex, so the task of  *)
(* a blocking request is never taken for an asynchronous one.              *)
THEOREM TypeCorrect == Spec => []TypeOK
<1>1. Init => TypeInv
  BY InitTypes
<1>2. TypeInv /\ [Next]_vars => TypeInv'
  BY NextTypes, TypesStutter
<1>3. TypeInv => TypeOK
  BY DEF TypeInv
<1> QED
  BY <1>1, <1>2, <1>3, PTL DEF Spec

(* If no request precedes TaskQueue::Init(), the indices are in the order  *)
(* that IInv describes, over any number of requests and restarts.          *)
THEOREM InductiveInvariant ==
  ASSUME ~EarlyRequests
  PROVE  Spec => []IInv
<1>1. Init => IInv
  BY InitTypes, InitRest DEF IInv, Rest
<1>2. IInv /\ [Next]_vars => IInv'
  <2> SUFFICES ASSUME IInv, [Next]_vars
               PROVE  TypeInv' /\ Rest'
    BY DEF IInv, Rest
  <2>1. TypeInv'
    BY NextTypes, TypesStutter DEF IInv
  <2>2. Rest'
    BY NextRest, RestStutters
  <2> QED
    BY <2>1, <2>2
<1> QED
  BY <1>1, <1>2, PTL DEF Spec

(* RequestGCAndWait() returns on finishedGcIndex only after a collection   *)
(* that started after the request, if no request precedes                  *)
(* TaskQueue::Init().                                                      *)
THEOREM BlockingIsServed ==
  ASSUME ~EarlyRequests
  PROVE  Spec => []BlockingServed
<1>1. IInv => BlockingServed
  <2> SUFFICES ASSUME IInv, NEW r \in Requesters,
                      pc[r] \in {"check", "blocked"}, finishedGcIndex >= idx[r]
               PROVE  since[r] = "finished"
    BY DEF BlockingServed
  <2>1. RequestInv(r) /\ idx[r] \in Nat /\ finishedGcIndex \in Nat
    BY DEF IInv, WaitInv, TypeInv, TypeOK
  <2> QED
    BY <2>1 DEF RequestInv
<1> QED
  BY <1>1, InductiveInvariant, PTL

(* Every sleeper has a wake-up to come: its task in the queue or in        *)
(* execution, a collection under way, or the exit of the GC thread.        *)
THEOREM NobodyIsStranded ==
  ASSUME ~EarlyRequests
  PROVE  Spec => []NoWaiterStranded
<1>1. IInv => NoWaiterStranded
  <2> SUFFICES ASSUME IInv, NEW r \in Requesters
               PROVE  /\ pc[r] = "blocked" =>
                           \/ \E i \in 1 .. Len(syncTaskQueue) :
                                syncTaskQueue[i].index = idx[r]
                           \/ /\ gcPc \in {"execute", "collect"}
                              /\ gcTask.index = idx[r]
                           \/ gcPc = "exitNotify"
                      /\ pc[r] = "stopBlocked" => gcPc = "collect"
    BY DEF NoWaiterStranded
  <2>1. /\ RequestInv(r) /\ SleepInv(r)
        /\ idx[r] \in Nat /\ finishedGcIndex \in Nat
    BY DEF IInv, WaitInv, TypeInv, TypeOK
  <2>2. ASSUME pc[r] = "blocked"
        PROVE  InQueue(r) \/ InExecution(r) \/ gcPc = "exitNotify"
    BY <2>1, <2>2 DEF RequestInv, SleepInv
  <2> QED
    BY <2>1, <2>2 DEF SleepInv, InQueue, InExecution, Requests
<1> QED
  BY <1>1, InductiveInvariant, PTL

=============================================================================
