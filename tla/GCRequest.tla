----------------------------- MODULE GCRequest -----------------------------
(***************************************************************************)
(* Requests for a garbage collection, the task queue of the GC thread and  *)
(* the thread's life cycle (task_queue.h, collector_tracing.h,             *)
(* collector_tracing.cpp, gc_reason.cpp, the hooks of collector_ms.cpp).   *)
(*                                                                         *)
(* Blocking requests go through syncTaskQueue, a FIFO protected by         *)
(* taskQueueLock, and wait until finishedGcIndex reaches the index of      *)
(* their task.  Non-blocking requests set a bit of tqWord without a lock.  *)
(* The GC thread serves syncTaskQueue first, then the lowest bit of tqWord *)
(* and otherwise waits on taskQueueCondVar for at most a second.           *)
(*                                                                         *)
(* One step is a critical section of taskQueueLock or gcFinishedCondMutex, *)
(* one atomic operation on tqWord, or a notification made without a lock.  *)
(* Dequeue() holds taskQueueLock over several operations on tqWord, which  *)
(* are steps of their own.                                                 *)
(***************************************************************************)
EXTENDS Naturals, Integers, Sequences, FiniteSets

CONSTANTS
  Requesters,        \* threads that ask for a collection or wait for one
  Reasons,           \* the GCReasons they use
  MaxIndex,          \* bound: the largest sync index handed out
  MaxStarts,         \* bound: how often the GC thread is started
  EarlyRequests      \* may a request precede TaskQueue::Init()?

(* GCReason and its blocking modes, from reasonCfgs.                       *)
kGCReasonForceGC == 3
kGCReasonHeu     == 5
IsNonBlockingGC(reason)  == reason \in {5, 6}
IsLiteBlockingGC(reason) == reason \in {7, 8}

ASSUME ConstantsAssumption ==
  /\ IsFiniteSet(Requesters)
  /\ Reasons \subseteq 0 .. 8
  /\ MaxIndex \in Nat /\ MaxIndex >= 2
  /\ MaxStarts \in Nat \ {0}
  /\ EarlyRequests \in BOOLEAN

kIndexExit           == 0
kSyncIndexStartValue == 1
kAsyncIndex          == MaxIndex + 1    \* ULONG_MAX: above every sync index
kInvalidGCReason     == -1

VARIABLES
  tqWord,            \* LocklessTaskQueue: the set of priorities whose bit is 1
  syncTaskQueue,     \* tasks of blocking requests, in order
  queueSyncIndex,    \* the last sync index handed out
  gcThreadRunning,   \* the flag of that name
  stopping,          \* StopThread() has enqueued Terminate
  forking,           \* between MRT_GCPreFork() and the restart
  starts,            \* bound counter: calls of StartThread()
  gcPc, gcTask,      \* the GC thread: where it is, the task it executes
  timedOut,          \* local of Dequeue(): cvResult = timeout
  isGcTriggered,     \* a collection is under way
  finishedGcIndex,   \* index of the last finished sync collection
  pc,                \* where each requester is
  idx,               \* its curThreadSyncIndex or curWaitGcIndex
  since,             \* history: what collections did since its request
  owed               \* history: async requests not yet followed by a GC

queueVars == <<tqWord, syncTaskQueue, queueSyncIndex>>
lifeVars  == <<gcThreadRunning, stopping, forking, starts>>
gcVars    == <<gcPc, gcTask, timedOut>>
reqVars   == <<pc, idx, since>>
vars      == <<queueVars, lifeVars, gcVars, isGcTriggered, finishedGcIndex,
               reqVars, owed>>

-----------------------------------------------------------------------------
(* Tasks and their priorities in tqWord.                                   *)

Task(type, reason, index) ==
  [type |-> type, reason |-> reason, index |-> index]
Tasks == [type : {"InvokeGC", "Timeout", "Terminate"},
          reason : {kInvalidGCReason} \cup 0 .. 8, index : 0 .. kAsyncIndex]
NoTask == Task("Timeout", kInvalidGCReason, kAsyncIndex)

kPrioTimeout  == 1
kPrioInvokeGC == 2

GetPrio(task) ==
  IF task.type = "Timeout" THEN kPrioTimeout ELSE kPrioInvokeGC + task.reason

FromPrio(prio) ==
  IF prio = kPrioTimeout
  THEN Task("Timeout", kInvalidGCReason, kAsyncIndex)
  ELSE Task("InvokeGC", prio - kPrioInvokeGC, kAsyncIndex)

(* Every task that is not a request for a collection overrides.            *)
IsOverriding(task) == task.type # "InvokeGC"

(* LocklessTaskQueue::Push(): an overriding task erases the bits above it. *)
Push(task) ==
  tqWord' = {GetPrio(task)} \cup
            (IF IsOverriding(task) THEN {p \in tqWord : p < GetPrio(task)}
                                   ELSE tqWord)

(* LocklessTaskQueue::Pop() takes the lowest bit.                          *)
FirstPrio == CHOOSE p \in tqWord : \A q \in tqWord : p <= q

(* The GC thread holds taskQueueLock.                                      *)
QueueLocked == gcPc \in {"deqTimeout", "deqPop", "deqWait"}

(* taskQueueCondVar.notify_all(): only the GC thread ever waits there.     *)
NotifyQueue ==
  /\ gcPc' = IF gcPc = "waiting" THEN "deqSync" ELSE gcPc
  /\ timedOut' = (timedOut /\ gcPc # "waiting")
  /\ UNCHANGED gcTask

Init ==
  /\ tqWord = {}
  /\ syncTaskQueue = <<>>
  /\ queueSyncIndex \in 0 .. 2     \* uninitialised until TaskQueue::Init()
  /\ gcThreadRunning = FALSE
  /\ stopping = FALSE
  /\ forking = FALSE
  /\ starts = 0
  /\ gcPc = "off"
  /\ gcTask = NoTask
  /\ timedOut = FALSE
  /\ isGcTriggered = FALSE
  /\ finishedGcIndex = 0
  /\ pc = [r \in Requesters |-> "idle"]
  /\ idx = [r \in Requesters |-> 0]
  /\ since = [r \in Requesters |-> "none"]
  /\ owed = {}

-----------------------------------------------------------------------------
(* Requesters: InvokeGC().  A request that ShouldIgnore() rejects, or that *)
(* is made with the thread list or mutator list locked by the caller,      *)
(* changes nothing.  OnUnsuccessfulInvoke() would let an ignored blocking  *)
(* request wait as in WaitGCStopped().                                     *)

(* Nobody asks for a collection between MRT_GCPreFork(), when all other    *)
(* threads have been stopped, and the restart of the GC thread.            *)
MayRequest ==
  /\ ~forking
  /\ gcPc # "off"
  /\ EarlyRequests \/ gcPc \notin {"starting", "init"}

(* A non-blocking request, from RequestGCUnsafe() or RequestGCAndWait():   *)
(* EnqueueAsync() pushes the task, then notifies.                          *)
EnqueueAsync(r, reason) ==
  /\ pc[r] = "idle"
  /\ MayRequest
  /\ IsNonBlockingGC(reason)
  /\ Push(Task("InvokeGC", reason, kAsyncIndex))
  /\ owed' = owed \cup {reason}
  /\ pc' = [pc EXCEPT ![r] = "notify"]
  /\ UNCHANGED <<syncTaskQueue, queueSyncIndex, lifeVars, gcVars,
                 isGcTriggered, finishedGcIndex, idx, since>>

NotifyAsync(r) ==
  /\ pc[r] = "notify"
  /\ NotifyQueue
  /\ pc' = [pc EXCEPT ![r] = "idle"]
  /\ UNCHANGED <<queueVars, lifeVars, isGcTriggered, finishedGcIndex, idx,
                 since, owed>>

(* The filter of RequestGCAndWait(): queued tasks with the same reason.    *)
SameReason(reason) ==
  {i \in 1 .. Len(syncTaskQueue) : syncTaskQueue[i].reason = reason}

(* Mutant: the index is taken before it is incremented.                    *)
EnqueuePostIncrement(r, reason) ==
  /\ pc[r] = "idle"
  /\ MayRequest
  /\ ~IsNonBlockingGC(reason)
  /\ ~QueueLocked
  /\ queueSyncIndex + 1 < MaxIndex
  /\ queueSyncIndex' = queueSyncIndex + 1
  /\ syncTaskQueue' =
       Append(syncTaskQueue, Task("InvokeGC", reason, queueSyncIndex))
  /\ NotifyQueue
  /\ idx' = [idx EXCEPT ![r] = queueSyncIndex]
  /\ since' = [since EXCEPT ![r] = "none"]
  /\ pc' = [pc EXCEPT ![r] = IF IsLiteBlockingGC(reason) THEN "lite"
                                                         ELSE "check"]
  /\ UNCHANGED <<tqWord, lifeVars, isGcTriggered, finishedGcIndex, owed>>

(* A blocking or lite-blocking request: Enqueue<true>() finds a queued     *)
(* task with the same reason, or appends one and notifies.                 *)
Enqueue(r, reason) ==
  LET same  == SameReason(reason)
      index == IF same = {} THEN queueSyncIndex + 1
               ELSE syncTaskQueue[CHOOSE i \in same :
                                    \A j \in same : j <= i].index IN
  /\ pc[r] = "idle"
  /\ MayRequest
  /\ ~IsNonBlockingGC(reason)
  /\ ~QueueLocked
  /\ same = {} => queueSyncIndex + 1 < MaxIndex
  /\ IF same = {}
     THEN /\ queueSyncIndex' = index
          /\ syncTaskQueue' =
               Append(syncTaskQueue, Task("InvokeGC", reason, index))
          /\ NotifyQueue
     ELSE UNCHANGED <<queueSyncIndex, syncTaskQueue, gcVars>>
  /\ idx' = [idx EXCEPT ![r] = index]
  /\ since' = [since EXCEPT ![r] = "none"]
  /\ pc' = [pc EXCEPT ![r] = IF IsLiteBlockingGC(reason) THEN "lite"
                                                         ELSE "check"]
  /\ UNCHANGED <<tqWord, lifeVars, isGcTriggered, finishedGcIndex, owed>>

(* Mutant: the exit of the GC thread is forgotten.                         *)
FinishedOnly(r) == finishedGcIndex >= idx[r]

(* The condition RequestGCAndWait() waits for.                             *)
Finished(r) == finishedGcIndex >= idx[r] \/ finishedGcIndex = kIndexExit

Return(r) ==
  /\ pc' = [pc EXCEPT ![r] = "idle"]
  /\ idx' = [idx EXCEPT ![r] = 0]
  /\ since' = [since EXCEPT ![r] = "none"]

(* gcFinishedCondVar.wait(lock, pred): return, or sleep until notified.    *)
CheckFinished(r) ==
  /\ pc[r] = "check"
  /\ IF Finished(r)
     THEN Return(r)
     ELSE pc' = [pc EXCEPT ![r] = "blocked"] /\ UNCHANGED <<idx, since>>
  /\ UNCHANGED <<queueVars, lifeVars, gcVars, isGcTriggered,
                 finishedGcIndex, owed>>

(* WaitGCStoppedLite(): returns at a notification or after 500 ms.         *)
WaitGCStoppedLite(r) ==
  /\ pc[r] = "lite"
  /\ Return(r)
  /\ UNCHANGED <<queueVars, lifeVars, gcVars, isGcTriggered,
                 finishedGcIndex, owed>>

(* The condition WaitGCStopped() waits for.                                *)
Stopped(index) ==
  \/ ~isGcTriggered
  \/ index # finishedGcIndex
  \/ finishedGcIndex = kIndexExit

(* WaitGCStopped(), also from OnUnsuccessfulInvoke(): the index is read    *)
(* and the condition checked first in one critical section.                *)
WaitGCStopped(r) ==
  /\ pc[r] = "idle"
  /\ ~forking
  /\ ~Stopped(finishedGcIndex)
  /\ idx' = [idx EXCEPT ![r] = finishedGcIndex]
  /\ pc' = [pc EXCEPT ![r] = "stopBlocked"]
  /\ UNCHANGED <<queueVars, lifeVars, gcVars, isGcTriggered,
                 finishedGcIndex, since, owed>>

(* Notified, WaitGCStopped() checks its condition again.                   *)
CheckStopped(r) ==
  /\ pc[r] = "stopCheck"
  /\ IF Stopped(idx[r])
     THEN Return(r)
     ELSE pc' = [pc EXCEPT ![r] = "stopBlocked"] /\ UNCHANGED <<idx, since>>
  /\ UNCHANGED <<queueVars, lifeVars, gcVars, isGcTriggered,
                 finishedGcIndex, owed>>

-----------------------------------------------------------------------------
(* The life cycle of the GC thread.                                        *)

(* StartThread(), at start-up and after a fork.                            *)
StartThread ==
  /\ ~gcThreadRunning
  /\ starts < MaxStarts
  /\ starts = 0 \/ forking
  /\ gcThreadRunning' = TRUE
  /\ starts' = starts + 1
  /\ forking' = FALSE
  /\ gcPc' = "starting"
  /\ UNCHANGED <<queueVars, stopping, gcTask, timedOut, isGcTriggered,
                 finishedGcIndex, reqVars, owed>>

(* StopThread() enqueues Terminate, whatever is in the queue.  It is       *)
(* called before a fork, when no other thread runs, or by Fini().          *)
StopThread(fork) ==
  /\ gcThreadRunning
  /\ ~stopping
  /\ fork => \A r \in Requesters : pc[r] = "idle"
  /\ ~QueueLocked
  /\ queueSyncIndex < MaxIndex
  /\ queueSyncIndex' = queueSyncIndex + 1
  /\ syncTaskQueue' = Append(syncTaskQueue,
       Task("Terminate", kInvalidGCReason, queueSyncIndex + 1))
  /\ NotifyQueue
  /\ stopping' = TRUE
  /\ forking' = fork
  /\ UNCHANGED <<tqWord, gcThreadRunning, starts, isGcTriggered,
                 finishedGcIndex, reqVars, owed>>

(* JoinThread() returns once the GC thread has ended.                      *)
JoinThread ==
  /\ gcThreadRunning
  /\ stopping
  /\ gcPc = "done"
  /\ gcThreadRunning' = FALSE
  /\ stopping' = FALSE
  /\ gcPc' = "off"
  /\ UNCHANGED <<queueVars, forking, starts, gcTask, timedOut, isGcTriggered,
                 finishedGcIndex, reqVars, owed>>

-----------------------------------------------------------------------------
(* The GC thread: RunTaskLoop().                                           *)

RunTaskLoop ==
  /\ gcPc = "starting"
  /\ finishedGcIndex' = kSyncIndexStartValue
  /\ gcPc' = "init"
  /\ UNCHANGED <<queueVars, lifeVars, gcTask, timedOut, isGcTriggered,
                 reqVars, owed>>

(* TaskQueue::Init(), without the lock.                                    *)
TaskQueueInit ==
  /\ gcPc = "init"
  /\ queueSyncIndex' = kSyncIndexStartValue
  /\ gcPc' = "deqSync"
  /\ UNCHANGED <<tqWord, syncTaskQueue, lifeVars, gcTask, timedOut,
                 isGcTriggered, finishedGcIndex, reqVars, owed>>

(* Dequeue() takes taskQueueLock and looks at the sync queue.              *)
DequeueSync ==
  /\ gcPc = "deqSync"
  /\ IF syncTaskQueue # <<>>
     THEN /\ gcTask' = Head(syncTaskQueue)
          /\ syncTaskQueue' = Tail(syncTaskQueue)
          /\ gcPc' = "execute"
          /\ timedOut' = FALSE
     ELSE /\ gcPc' = IF timedOut THEN "deqTimeout" ELSE "deqPop"
          /\ UNCHANGED <<gcTask, syncTaskQueue, timedOut>>
  /\ UNCHANGED <<tqWord, queueSyncIndex, lifeVars, isGcTriggered,
                 finishedGcIndex, reqVars, owed>>

(* After a time-out it pushes a Timeout task.                              *)
DequeuePushTimeout ==
  /\ gcPc = "deqTimeout"
  /\ Push(Task("Timeout", kInvalidGCReason, kAsyncIndex))
  /\ gcPc' = "deqPop"
  /\ UNCHANGED <<syncTaskQueue, queueSyncIndex, lifeVars, gcTask, timedOut,
                 isGcTriggered, finishedGcIndex, reqVars, owed>>

(* It pops the async queue; if there is nothing it goes on to wait.        *)
DequeueAsync ==
  /\ gcPc = "deqPop"
  /\ IF tqWord = {}
     THEN gcPc' = "deqWait" /\ UNCHANGED <<tqWord, gcTask, timedOut>>
     ELSE /\ gcTask' = FromPrio(FirstPrio)
          /\ tqWord' = tqWord \ {FirstPrio}
          /\ gcPc' = "execute"
          /\ timedOut' = FALSE
  /\ UNCHANGED <<syncTaskQueue, queueSyncIndex, lifeVars, isGcTriggered,
                 finishedGcIndex, reqVars, owed>>

(* taskQueueCondVar.wait_for() releases the lock and sleeps.               *)
DequeueWait ==
  /\ gcPc = "deqWait"
  /\ gcPc' = "waiting"
  /\ UNCHANGED <<queueVars, lifeVars, gcTask, timedOut, isGcTriggered,
                 finishedGcIndex, reqVars, owed>>

(* The second is over.                                                     *)
DequeueTimedOut ==
  /\ gcPc = "waiting"
  /\ gcPc' = "deqSync"
  /\ timedOut' = TRUE
  /\ UNCHANGED <<queueVars, lifeVars, gcTask, isGcTriggered,
                 finishedGcIndex, reqVars, owed>>

-----------------------------------------------------------------------------
(* GCTask::Execute().                                                      *)

(* A collection starts: isGcTriggered is set, RunFullCollection() runs.    *)
StartGC ==
  /\ isGcTriggered' = TRUE
  /\ gcPc' = "collect"
  /\ since' = [r \in Requesters |->
                 IF pc[r] \in {"check", "blocked"} /\ since[r] = "none"
                 THEN "started" ELSE since[r]]
  /\ owed' = {}
  /\ UNCHANGED <<queueVars, lifeVars, gcTask, timedOut, finishedGcIndex, pc,
                 idx>>

ExecuteInvokeGC ==
  /\ gcPc = "execute"
  /\ gcTask.type = "InvokeGC"
  /\ StartGC

(* With native epoch statistics, a Timeout runs a collection if the last   *)
(* one was triggered more than four minutes ago.                           *)
ExecuteTimeoutGC ==
  /\ gcPc = "execute"
  /\ gcTask.type = "Timeout"
  /\ StartGC

(* Otherwise it does nothing.                                              *)
ExecuteTimeout ==
  /\ gcPc = "execute"
  /\ gcTask.type = "Timeout"
  /\ gcPc' = "deqSync"
  /\ UNCHANGED <<queueVars, lifeVars, gcTask, timedOut, isGcTriggered,
                 finishedGcIndex, reqVars, owed>>

(* Terminate ends LoopDrainTaskQueue(): DeInit() clears both queues.       *)
ExecuteTerminate ==
  /\ gcPc = "execute"
  /\ gcTask.type = "Terminate"
  /\ tqWord' = {}
  /\ syncTaskQueue' = <<>>
  /\ gcPc' = "exitNotify"
  /\ UNCHANGED <<queueSyncIndex, lifeVars, gcTask, timedOut, isGcTriggered,
                 finishedGcIndex, reqVars, owed>>

(* Mutant: the index of a non-blocking collection is stored too.           *)
NotifyStoresAsync(gcIndex) ==
  /\ isGcTriggered' = FALSE
  /\ finishedGcIndex' = gcIndex
  /\ pc' = [r \in Requesters |->
              CASE pc[r] = "blocked" -> "check"
                [] pc[r] = "stopBlocked" -> "stopCheck"
                [] OTHER -> pc[r]]

(* Mutant: notify_one().                                                   *)
NotifyOne(gcIndex) ==
  LET asleep == {r \in Requesters : pc[r] \in {"blocked", "stopBlocked"}} IN
  /\ isGcTriggered' = FALSE
  /\ finishedGcIndex' = IF gcIndex # kAsyncIndex THEN gcIndex
                                                 ELSE finishedGcIndex
  /\ IF asleep = {}
     THEN UNCHANGED pc
     ELSE \E r \in asleep :
            pc' = [pc EXCEPT ![r] =
                     IF pc[r] = "blocked" THEN "check" ELSE "stopCheck"]

(* Mutant: nobody is told of non-blocking collections.                     *)
NotifySyncOnly(gcIndex) ==
  /\ isGcTriggered' = FALSE
  /\ finishedGcIndex' = IF gcIndex # kAsyncIndex THEN gcIndex
                                                 ELSE finishedGcIndex
  /\ pc' = [r \in Requesters |->
              CASE pc[r] = "blocked" -> "check"
                [] pc[r] = "stopBlocked" /\ gcIndex # kAsyncIndex -> "stopCheck"
                [] OTHER -> pc[r]]

(* NotifyGCFinished(), under gcFinishedCondMutex: every waiter checks its  *)
(* condition again.                                                        *)
NotifyGCFinished(gcIndex) ==
  /\ isGcTriggered' = FALSE
  /\ finishedGcIndex' = IF gcIndex # kAsyncIndex THEN gcIndex
                                                 ELSE finishedGcIndex
  /\ pc' = [r \in Requesters |->
              CASE pc[r] = "blocked" -> "check"
                [] pc[r] = "stopBlocked" -> "stopCheck"
                [] OTHER -> pc[r]]

(* PostMSHook(): the collection is over.                                   *)
FinishGC ==
  /\ gcPc = "collect"
  /\ NotifyGCFinished(gcTask.index)
  /\ gcPc' = "deqSync"
  /\ since' = [r \in Requesters |->
                 IF since[r] = "started" THEN "finished" ELSE since[r]]
  /\ UNCHANGED <<queueVars, lifeVars, gcTask, timedOut, idx, owed>>

(* RunTaskLoop() returns and the GC thread ends.                           *)
ExitNotify ==
  /\ gcPc = "exitNotify"
  /\ NotifyGCFinished(kIndexExit)
  /\ gcPc' = "done"
  /\ UNCHANGED <<queueVars, lifeVars, gcTask, timedOut, idx, since, owed>>

-----------------------------------------------------------------------------
RequesterStep(r) ==
  \/ NotifyAsync(r) \/ CheckFinished(r) \/ WaitGCStoppedLite(r)
  \/ CheckStopped(r)

GCStep ==
  \/ RunTaskLoop \/ TaskQueueInit \/ DequeueSync \/ DequeuePushTimeout
  \/ DequeueAsync \/ DequeueWait \/ ExecuteInvokeGC \/ ExecuteTimeoutGC
  \/ ExecuteTimeout \/ ExecuteTerminate \/ FinishGC \/ ExitNotify

(* InvokeGC(), for a request that is not rejected.                         *)
Request(r, reason) == EnqueueAsync(r, reason) \/ Enqueue(r, reason)

Next ==
  \/ \E r \in Requesters, reason \in Reasons : Request(r, reason)
  \/ \E r \in Requesters : RequesterStep(r) \/ WaitGCStopped(r)
  \/ \E fork \in BOOLEAN : StopThread(fork)
  \/ StartThread \/ JoinThread
  \/ GCStep
  \/ DequeueTimedOut

Spec == Init /\ [][Next]_vars

(* Threads that can go on are scheduled; collections end; the GC thread    *)
(* waits at most a second.  Nothing is assumed of requests and life cycle. *)
Fairness ==
  /\ \A r \in Requesters : WF_vars(RequesterStep(r))
  /\ WF_vars(GCStep)
  /\ WF_vars(DequeueTimedOut)

FairSpec == Spec /\ Fairness

-----------------------------------------------------------------------------
(* Properties.                                                             *)

GcPcs == {"off", "starting", "init", "deqSync", "deqTimeout", "deqPop",
          "deqWait", "waiting", "execute", "collect", "exitNotify", "done"}
Pcs   == {"idle", "notify", "check", "blocked", "lite", "stopCheck",
          "stopBlocked"}

TypeOK ==
  /\ tqWord \in SUBSET (kPrioTimeout .. kPrioInvokeGC + 8)
  /\ syncTaskQueue \in Seq(Tasks)
  /\ queueSyncIndex \in 0 .. MaxIndex
  /\ gcThreadRunning \in BOOLEAN
  /\ stopping \in BOOLEAN
  /\ forking \in BOOLEAN
  /\ starts \in 0 .. MaxStarts
  /\ gcPc \in GcPcs
  /\ gcTask \in Tasks
  /\ timedOut \in BOOLEAN
  /\ isGcTriggered \in BOOLEAN
  /\ finishedGcIndex \in 0 .. MaxIndex
  /\ pc \in [Requesters -> Pcs]
  /\ idx \in [Requesters -> 0 .. MaxIndex]
  /\ since \in [Requesters -> {"none", "started", "finished"}]
  /\ owed \in SUBSET (0 .. 8)

(* A blocking request returns on finishedGcIndex only after a collection   *)
(* that started after the request has finished: neither the collection     *)
(* under way at the time of the request nor the merging of requests with   *)
(* the same reason lets it return early.                                   *)
BlockingServed ==
  \A r \in Requesters :
    pc[r] \in {"check", "blocked"} /\ finishedGcIndex >= idx[r]
      => since[r] = "finished"

(* Nobody sleeps without a wake-up to come: a sleeping request has its     *)
(* task in the queue or in execution, or the GC thread is about to exit;   *)
(* WaitGCStopped() sleeps only while a collection is under way.            *)
NoWaiterStranded ==
  \A r \in Requesters :
    /\ pc[r] = "blocked" =>
         \/ \E i \in 1 .. Len(syncTaskQueue) : syncTaskQueue[i].index = idx[r]
         \/ gcPc \in {"execute", "collect"} /\ gcTask.index = idx[r]
         \/ gcPc = "exitNotify"
    /\ pc[r] = "stopBlocked" => gcPc = "collect"

(* Every blocking request returns, also when the GC thread is told to      *)
(* terminate meanwhile and however many non-blocking requests there are.   *)
BlockingReturns ==
  \A r \in Requesters : pc[r] \in {"check", "blocked"} ~> pc[r] = "idle"

(* Collections cease to start.                                             *)
CollectionsCease == <>[][isGcTriggered' => isGcTriggered]_vars

(* WaitGCStopped() returns when collections cease.  It need not before:    *)
(* non-blocking collections do not change finishedGcIndex, and the next    *)
(* one may start before the woken thread looks at isGcTriggered.           *)
WaitStoppedReturns ==
  CollectionsCease =>
    \A r \in Requesters : pc[r] = "stopBlocked" ~> pc[r] = "idle"

(* "On timeout, the force gc removes all other gcs": an asynchronous       *)
(* request is followed by a collection, its own or the one that removes it,*)
(* unless the GC thread is told to stop.                                   *)
AsyncServed ==
  owed # {} ~> (owed = {} \/ stopping \/ ~gcThreadRunning)

=============================================================================
