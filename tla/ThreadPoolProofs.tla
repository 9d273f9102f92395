-------------------------- MODULE ThreadPoolProofs --------------------------
(***************************************************************************)
(* Proofs about module ThreadPool, for any number of workers and tasks.    *)
(*                                                                         *)
(* IInv is inductive.  It has three parts: what the flags say while the    *)
(* GC thread is at each place (PhaseInv), the counters (CountersExact and  *)
(* LimitInv), and where each task of the round is (TaskInv).               *)
(***************************************************************************)
EXTENDS ThreadPool, FiniteSetTheorems, TLAPS

-----------------------------------------------------------------------------
(* The inductive invariant.                                                *)

(* The GC thread is past Stop().                                           *)
StoppedPcs == {"drain", "drainExecute", "idle", "join", "deleted"}

(* The three sets of workers that CountersExact counts.                    *)
Active    == {w \in Workers : pc[w] \notin {"asleep", "resumeSleep", "gone"}}
Waiting   == {w \in Workers : pc[w] \in {"waiting", "resumeWait"}}
Executing == {w \in Workers : pc[w] = "execute"}

(* After Stop() the pool is not running and no worker executes a task;     *)
(* without Exit() no worker is active either.                              *)
PhaseInv ==
  /\ mainPc \in StoppedPcs \cup {"stopCheck", "stopping"} => ~running
  /\ mainPc \in StoppedPcs =>
       /\ Executing = {}
       /\ exit \/ currActiveThreadNum = 0

(* In a running pool no more workers are active than allowed, until Exit() *)
(* wakes them all.                                                         *)
LimitInv == running /\ ~exit => currActiveThreadNum <= maxActiveThreadNum

(* A thread has a task while it executes one.                              *)
OwnTaskInv ==
  /\ \A w \in Workers : task[w] # 0 <=> pc[w] = "execute"
  /\ task[Main] # 0 <=> mainPc \in {"takeExecute", "drainExecute"}

(* Every task added in this round is executed, in the queue, or with the   *)
(* thread that executes it.                                                *)
TaskInv ==
  mainPc # "deleted" =>
    \A n \in 1 .. MaxTasks :
      n <= added <=> \/ n \in executed
                     \/ \E i \in 1 .. Len(taskQueue) : taskQueue[i] = n
                     \/ \E t \in Threads : task[t] = n

IInv ==
  /\ TypeOK
  /\ PhaseInv /\ LimitInv
  /\ OwnTaskInv /\ TaskInv
  /\ CountersExact

USE PoolAssumption
    DEF Threads, flags, counts, taskVars, WorkerPcs, MainPcs, StoppedPcs,
        NotifyAllStopped, NotifyAllWorkDone

-----------------------------------------------------------------------------
(* The counters.                                                           *)

(* The pool has a number of threads, and every set of them fewer or equal. *)
LEMMA PoolSize ==
  /\ maxThreadNum \in Nat /\ maxThreadNum >= 1
  /\ \A S \in SUBSET Workers : Cardinality(S) \in 0 .. maxThreadNum
<1>1. Cardinality(Workers) \in Nat /\ Cardinality(Workers) # 0
  BY FS_CardinalityType, FS_EmptySet
<1>2. ASSUME NEW S \in SUBSET Workers
      PROVE  Cardinality(S) \in Nat /\ Cardinality(S) <= Cardinality(Workers)
  BY FS_Subset, FS_CardinalityType
<1> QED
  BY <1>1, <1>2 DEF maxThreadNum

(* One worker enters or leaves a set of workers.                           *)
LEMMA OneMoves ==
  ASSUME NEW S \in SUBSET Workers, NEW w \in Workers
  PROVE  /\ Cardinality(S \cup {w}) =
              IF w \in S THEN Cardinality(S) ELSE Cardinality(S) + 1
         /\ Cardinality(S \ {w}) =
              IF w \in S THEN Cardinality(S) - 1 ELSE Cardinality(S)
<1>1. IsFiniteSet(S)
  BY FS_Subset
<1> QED
  BY <1>1, FS_AddElement, FS_RemoveElement

(* What CountersExact says, by the names of the sets.                      *)
LEMMA Counters ==
  CountersExact <=> /\ currActiveThreadNum = Cardinality(Active)
                    /\ currWaittingThreadNum = Cardinality(Waiting)
                    /\ Cardinality(Executing) <= maxActiveThreadNum
BY DEF CountersExact, Active, Waiting, Executing

(* A worker w goes from pc[w] to l and the counters are changed by what    *)
(* that means for them.                                                    *)
LEMMA CountStep ==
  ASSUME TypeOK, CountersExact, NEW w \in Workers, NEW l \in WorkerPcs,
         pc' = [pc EXCEPT ![w] = l], UNCHANGED maxActiveThreadNum,
         currActiveThreadNum' = currActiveThreadNum
           + (IF l \in {"asleep", "resumeSleep", "gone"} THEN 0 ELSE 1)
           - (IF pc[w] \in {"asleep", "resumeSleep", "gone"} THEN 0 ELSE 1),
         currWaittingThreadNum' = currWaittingThreadNum
           + (IF l \in {"waiting", "resumeWait"} THEN 1 ELSE 0)
           - (IF pc[w] \in {"waiting", "resumeWait"} THEN 1 ELSE 0),
         l = "execute" => currActiveThreadNum' <= maxActiveThreadNum
  PROVE  /\ CountersExact'
         /\ currActiveThreadNum' \in 0 .. maxThreadNum
         /\ currWaittingThreadNum' \in 0 .. maxThreadNum
<1>1. /\ Active \in SUBSET Workers /\ Active' \in SUBSET Workers
      /\ Waiting \in SUBSET Workers /\ Waiting' \in SUBSET Workers
      /\ Executing \in SUBSET Workers /\ Executing' \in SUBSET Active'
  BY DEF Active, Waiting, Executing
<1>2. Active' = IF l \in {"asleep", "resumeSleep", "gone"} THEN Active \ {w}
                                                          ELSE Active \cup {w}
  BY DEF Active, TypeOK
<1>3. Waiting' = IF l \in {"waiting", "resumeWait"} THEN Waiting \cup {w}
                                                    ELSE Waiting \ {w}
  BY DEF Waiting, TypeOK
<1>4. /\ w \in Active <=> pc[w] \notin {"asleep", "resumeSleep", "gone"}
      /\ w \in Waiting <=> pc[w] \in {"waiting", "resumeWait"}
  BY DEF Active, Waiting
<1>0. /\ Cardinality(Active) \in Nat /\ Cardinality(Active') \in Nat
      /\ Cardinality(Waiting) \in Nat /\ Cardinality(Waiting') \in Nat
      /\ Cardinality(Executing) \in Nat /\ Cardinality(Executing') \in Nat
  BY <1>1, FS_Subset, FS_CardinalityType
<1>5. currActiveThreadNum' = Cardinality(Active')
  <2>1. /\ Cardinality(Active \cup {w}) =
             IF w \in Active THEN Cardinality(Active) ELSE Cardinality(Active) + 1
        /\ Cardinality(Active \ {w}) =
             IF w \in Active THEN Cardinality(Active) - 1 ELSE Cardinality(Active)
    BY <1>1, OneMoves
  <2> QED
    BY <1>2, <1>4, <1>0, <2>1, Counters
<1>6. currWaittingThreadNum' = Cardinality(Waiting')
  <2>1. /\ Cardinality(Waiting \cup {w}) =
             IF w \in Waiting THEN Cardinality(Waiting)
                              ELSE Cardinality(Waiting) + 1
        /\ Cardinality(Waiting \ {w}) =
             IF w \in Waiting THEN Cardinality(Waiting) - 1
                              ELSE Cardinality(Waiting)
    BY <1>1, OneMoves
  <2> QED
    BY <1>3, <1>4, <1>0, <2>1, Counters
<1>7. Cardinality(Executing') <= maxActiveThreadNum
  <2>1. CASE l = "execute"
    <3>1. Cardinality(Executing') <= Cardinality(Active')
      BY <1>1, FS_Subset
    <3> QED
      BY <2>1, <3>1, <1>0, <1>5, PoolSize DEF TypeOK
  <2>2. CASE l # "execute"
    <3>1. Executing' \in SUBSET Executing
      BY <2>2 DEF Executing, TypeOK
    <3>2. Cardinality(Executing') <= Cardinality(Executing)
      BY <1>1, <3>1, FS_Subset
    <3> QED
      BY <1>0, <3>2, Counters, PoolSize DEF TypeOK
  <2> QED
    BY <2>1, <2>2
<1>8. CountersExact'
  BY <1>5, <1>6, <1>7 DEF CountersExact, Active, Waiting, Executing
<1> QED
  BY <1>1, <1>5, <1>6, <1>8, PoolSize

(* No worker executes a task when none is active.                          *)
LEMMA NoneActive ==
  ASSUME CountersExact, currActiveThreadNum = 0
  PROVE  Executing = {}
<1>1. Cardinality(Active) = 0 /\ Active \in SUBSET Workers
  BY Counters DEF Active
<1>2. Active = {}
  BY <1>1, FS_Subset, FS_EmptySet
<1> QED
  BY <1>2 DEF Active, Executing

(* Notified workers stay where the counters count them.                    *)
LEMMA CountKept ==
  ASSUME CountersExact, UNCHANGED <<counts, maxActiveThreadNum>>,
         UNCHANGED <<Active, Waiting, Executing>>
  PROVE  CountersExact'
BY DEF CountersExact, Active, Waiting, Executing

(* A notification takes workers from a wait to its resumption.             *)
LEMMA ResumedKeeps ==
  ASSUME TypeOK, NEW from \in SUBSET {"asleep", "waiting"},
         pc' = Resumed(from)
  PROVE  /\ pc' \in [Workers -> WorkerPcs]
         /\ UNCHANGED <<Active, Waiting, Executing>>
         /\ \A w \in Workers : pc'[w] = "execute" <=> pc[w] = "execute"
BY DEF TypeOK, Resumed, Active, Waiting, Executing

-----------------------------------------------------------------------------
(* The tasks.                                                              *)

(* A thread takes the first task of the queue.                             *)
LEMMA TakeTaskStep ==
  ASSUME TypeOK, TaskInv, NEW t \in Threads, task[t] = 0, taskQueue # <<>>,
         TakeTask(t), mainPc # "deleted"
  PROVE  /\ TaskInv'
         /\ taskQueue' \in Seq(1 .. MaxTasks)
         /\ task' \in [Threads -> 0 .. MaxTasks]
         /\ task'[t] # 0
<1>1. /\ Len(taskQueue) \in Nat \ {0}
      /\ Head(taskQueue) = taskQueue[1] /\ taskQueue[1] \in 1 .. MaxTasks
      /\ taskQueue' \in Seq(1 .. MaxTasks)
      /\ Len(taskQueue') = Len(taskQueue) - 1
      /\ \A i \in 1 .. Len(taskQueue') : taskQueue'[i] = taskQueue[i + 1]
  BY DEF TypeOK, TakeTask
<1>2. /\ task' = [task EXCEPT ![t] = taskQueue[1]]
      /\ UNCHANGED <<added, executed>>
  BY <1>1 DEF TakeTask
<1>3. ASSUME NEW n \in 1 .. MaxTasks
      PROVE  (\E i \in 1 .. Len(taskQueue) : taskQueue[i] = n) <=>
               (taskQueue[1] = n
                  \/ \E i \in 1 .. Len(taskQueue') : taskQueue'[i] = n)
  <2>1. ASSUME NEW i \in 1 .. Len(taskQueue), taskQueue[i] = n, i # 1
        PROVE  i - 1 \in 1 .. Len(taskQueue') /\ taskQueue'[i - 1] = n
    BY <1>1, <2>1
  <2>2. ASSUME NEW i \in 1 .. Len(taskQueue'), taskQueue'[i] = n
        PROVE  i + 1 \in 1 .. Len(taskQueue) /\ taskQueue[i + 1] = n
    BY <1>1, <2>2
  <2> QED
    BY <1>1, <2>1, <2>2
<1>4. ASSUME NEW n \in 1 .. MaxTasks
      PROVE  (\E u \in Threads : task'[u] = n) <=>
               (taskQueue[1] = n \/ \E u \in Threads : task[u] = n)
  BY <1>2 DEF TypeOK
<1>5. TaskInv'
  <2> SUFFICES ASSUME NEW n \in 1 .. MaxTasks
               PROVE  n <= added' <=>
                        \/ n \in executed'
                        \/ \E i \in 1 .. Len(taskQueue') : taskQueue'[i] = n
                        \/ \E u \in Threads : task'[u] = n
    BY DEF TaskInv
  <2>1. n <= added <=> \/ n \in executed
                       \/ \E i \in 1 .. Len(taskQueue) : taskQueue[i] = n
                       \/ \E u \in Threads : task[u] = n
    BY DEF TaskInv
  <2> QED
    BY <1>2, <1>3, <1>4, <2>1
<1> QED
  BY <1>1, <1>2, <1>5 DEF TypeOK

(* A thread has executed its task.                                         *)
LEMMA TaskDoneStep ==
  ASSUME TypeOK, TaskInv, NEW t \in Threads, task[t] # 0, TaskDone(t),
         mainPc' # "deleted" => mainPc # "deleted"
  PROVE  /\ TaskInv'
         /\ task' \in [Threads -> 0 .. MaxTasks]
         /\ executed' \in SUBSET (1 .. MaxTasks)
<1>1. task[t] \in 1 .. MaxTasks
  BY DEF TypeOK
<1>2. ASSUME NEW n \in 1 .. MaxTasks
      PROVE  (n \in executed' \/ \E u \in Threads : task'[u] = n) <=>
               (n \in executed \/ \E u \in Threads : task[u] = n)
  BY <1>1 DEF TypeOK, TaskDone
<1>3. TaskInv'
  <2> SUFFICES ASSUME mainPc' # "deleted", NEW n \in 1 .. MaxTasks
               PROVE  n <= added' <=>
                        \/ n \in executed'
                        \/ \E i \in 1 .. Len(taskQueue') : taskQueue'[i] = n
                        \/ \E u \in Threads : task'[u] = n
    BY DEF TaskInv
  <2>1. n <= added <=> \/ n \in executed
                       \/ \E i \in 1 .. Len(taskQueue) : taskQueue[i] = n
                       \/ \E u \in Threads : task[u] = n
    BY DEF TaskInv
  <2>2. UNCHANGED <<taskQueue, added>>
    BY DEF TaskDone
  <2> QED
    BY <1>2, <2>1, <2>2
<1>4. /\ executed' = executed \cup {task[t]}
      /\ task' = [task EXCEPT ![t] = 0]
  BY DEF TaskDone
<1>5. executed' \in SUBSET (1 .. MaxTasks)
  BY <1>1, <1>4 DEF TypeOK
<1>6. task' \in [Threads -> 0 .. MaxTasks]
  BY <1>4 DEF TypeOK
<1> QED
  BY <1>3, <1>5, <1>6

(* Neither.                                                                *)
LEMMA TasksKept ==
  ASSUME TaskInv, UNCHANGED taskVars,
         mainPc' # "deleted" => mainPc # "deleted"
  PROVE  TaskInv'
BY DEF TaskInv

-----------------------------------------------------------------------------
(* Each action preserves IInv.                                             *)

(* GoToSleep(), from the loop or after a wake-up.                          *)
LEMMA GoToSleepStep ==
  ASSUME IInv, NEW w \in Workers, pc[w] \in {"loop", "resumeSleep"}, ~exit,
         GoToSleep(w, currActiveThreadNum
                        + (IF pc[w] = "resumeSleep" THEN 1 ELSE 0)),
         UNCHANGED flags
  PROVE  IInv'
<1> DEFINE active == currActiveThreadNum
                       + (IF pc[w] = "resumeSleep" THEN 1 ELSE 0)
<1>1. /\ pc' = [pc EXCEPT ![w] = "asleep"]
      /\ currActiveThreadNum' = active - 1
      /\ UNCHANGED <<flags, currWaittingThreadNum, taskVars>>
      /\ mainPc' \in {mainPc, "stopCheck"}
      /\ mainPc' # mainPc => mainPc = "stopping"
  BY DEF GoToSleep
<1>2. /\ CountersExact'
      /\ currActiveThreadNum' \in 0 .. maxThreadNum
      /\ currWaittingThreadNum' \in 0 .. maxThreadNum
  <2>1. TypeOK /\ CountersExact /\ "asleep" \in WorkerPcs
    BY DEF IInv
  <2>2. /\ currActiveThreadNum' = currActiveThreadNum + 0
             - (IF pc[w] \in {"asleep", "resumeSleep", "gone"} THEN 0 ELSE 1)
        /\ currWaittingThreadNum' = currWaittingThreadNum + 0
             - (IF pc[w] \in {"waiting", "resumeWait"} THEN 1 ELSE 0)
    BY <1>1, PoolSize DEF IInv, TypeOK
  <2> QED
    BY <1>1, <2>1, <2>2, CountStep
<1>3. TypeOK'
  BY <1>1, <1>2 DEF IInv, TypeOK
<1>4. currActiveThreadNum' <= currActiveThreadNum
  BY <1>1, PoolSize DEF IInv, TypeOK
<1>7. PhaseInv' /\ LimitInv'
  <2>1. Executing' \in SUBSET Executing
    BY <1>1 DEF IInv, TypeOK, Executing
  <2>2. mainPc' \in StoppedPcs => mainPc \in StoppedPcs
    BY <1>1
  <2>3. mainPc' \in {"stopCheck", "stopping"}
          => mainPc \in {"stopCheck", "stopping"}
    BY <1>1
  <2>4. PhaseInv'
    BY <1>1, <1>2, <1>4, <2>1, <2>2, <2>3, PoolSize DEF IInv, TypeOK, PhaseInv
  <2>5. LimitInv'
    BY <1>1, <1>2, <1>4, PoolSize DEF IInv, TypeOK, LimitInv
  <2> QED
    BY <2>4, <2>5
<1>5. OwnTaskInv'
  BY <1>1 DEF IInv, TypeOK, OwnTaskInv
<1>6. TaskInv'
  BY <1>1, TasksKept DEF IInv
<1> QED
  BY <1>2, <1>3, <1>5, <1>6, <1>7 DEF IInv

(* FindTask(), from the loop or after either wake-up.                      *)
LEMMA FindTaskStep ==
  ASSUME IInv, NEW w \in Workers,
         pc[w] \in {"loop", "resumeSleep", "resumeWait"},
         FindTask(w, currWaittingThreadNum
                       - (IF pc[w] = "resumeWait" THEN 1 ELSE 0)),
         currActiveThreadNum' = currActiveThreadNum
                                  + (IF pc[w] = "resumeSleep" THEN 1 ELSE 0),
         pc[w] = "resumeSleep" => running \/ exit,
         running /\ ~exit => currActiveThreadNum' <= maxActiveThreadNum,
         UNCHANGED flags
  PROVE  IInv'
<1> DEFINE waitting == currWaittingThreadNum
                         - (IF pc[w] = "resumeWait" THEN 1 ELSE 0)
<1>1. PICK l \in {"waiting", "execute", "loop"} :
        /\ pc' = [pc EXCEPT ![w] = l]
        /\ currWaittingThreadNum' = waitting + (IF l = "waiting" THEN 1 ELSE 0)
        /\ l \in {"waiting", "execute"} => running /\ ~exit
        /\ l = "execute" => taskQueue # <<>> /\ TakeTask(w)
        /\ l # "execute" => UNCHANGED taskVars
        /\ mainPc' \in {mainPc, "waitFinish"}
        /\ mainPc' # mainPc => mainPc = "finishing"
  <2>1. CASE taskQueue = <<>> /\ running /\ ~exit
    <3>1. /\ pc' = [pc EXCEPT ![w] = "waiting"]
          /\ currWaittingThreadNum' = waitting + 1
          /\ UNCHANGED taskVars
          /\ mainPc' \in {mainPc, "waitFinish"}
          /\ mainPc' # mainPc => mainPc = "finishing"
      BY <2>1 DEF FindTask
    <3> QED
      BY <2>1, <3>1
  <2>2. CASE taskQueue # <<>> /\ running /\ ~exit
    <3>1. /\ pc' = [pc EXCEPT ![w] = "execute"]
          /\ currWaittingThreadNum' = waitting
          /\ TakeTask(w) /\ UNCHANGED mainPc
      BY <2>2 DEF FindTask
    <3>2. waitting = waitting + 0
      BY PoolSize DEF IInv, TypeOK
    <3> QED
      BY <2>2, <3>1, <3>2
  <2>3. CASE ~running \/ exit
    <3>1. /\ pc' = [pc EXCEPT ![w] = "loop"]
          /\ currWaittingThreadNum' = waitting
          /\ UNCHANGED <<taskVars, mainPc>>
      BY <2>3 DEF FindTask
    <3>2. waitting = waitting + 0
      BY PoolSize DEF IInv, TypeOK
    <3> QED
      BY <2>3, <3>1, <3>2
  <2> QED
    BY <2>1, <2>2, <2>3 DEF IInv, TypeOK
<1>2. /\ CountersExact'
      /\ currActiveThreadNum' \in 0 .. maxThreadNum
      /\ currWaittingThreadNum' \in 0 .. maxThreadNum
  <2>1. TypeOK /\ CountersExact /\ l \in WorkerPcs
    BY DEF IInv
  <2>2. /\ currActiveThreadNum' = currActiveThreadNum + 1
             - (IF pc[w] \in {"asleep", "resumeSleep", "gone"} THEN 0 ELSE 1)
        /\ currWaittingThreadNum' = currWaittingThreadNum
             + (IF l \in {"waiting", "resumeWait"} THEN 1 ELSE 0)
             - (IF pc[w] \in {"waiting", "resumeWait"} THEN 1 ELSE 0)
    BY <1>1, PoolSize DEF IInv, TypeOK
  <2>3. l \notin {"asleep", "resumeSleep", "gone"}
    OBVIOUS
  <2> QED
    BY <1>1, <2>1, <2>2, <2>3, CountStep
<1>3. mainPc \in StoppedPcs => exit
  <2>1. CASE pc[w] = "resumeSleep"
    BY <2>1 DEF IInv, PhaseInv
  <2>2. CASE pc[w] # "resumeSleep"
    <3>1. w \in Active /\ Active \in SUBSET Workers
      BY <2>2 DEF Active
    <3>2. Cardinality(Active) # 0
      BY <3>1, FS_Subset, FS_EmptySet
    <3> QED
      BY <3>2, Counters DEF IInv, PhaseInv
  <2> QED
    BY <2>1, <2>2
<1>4. task[w] = 0 /\ (mainPc # "deleted" \/ l = "loop")
  BY <1>1 DEF IInv, OwnTaskInv, PhaseInv
<1>5. /\ TaskInv'
      /\ taskQueue' \in Seq(1 .. MaxTasks)
      /\ task' \in [Threads -> 0 .. MaxTasks]
      /\ l = "execute" => task'[w] # 0
  <2>1. CASE l = "execute"
    BY <1>1, <1>4, <2>1, TakeTaskStep DEF IInv
  <2>2. CASE l # "execute"
    BY <1>1, <2>2, TasksKept DEF IInv, TypeOK
  <2> QED
    BY <2>1, <2>2
<1>6. TypeOK'
  <2>1. UNCHANGED <<added, executed>>
    BY <1>1 DEF TakeTask
  <2> QED
    BY <1>1, <1>2, <1>5, <2>1 DEF IInv, TypeOK
<1>7. PhaseInv'
  BY <1>1, <1>3 DEF IInv, TypeOK, PhaseInv, Executing
<1>8. LimitInv'
  BY DEF LimitInv
<1>9. OwnTaskInv'
  <2>1. \A t \in Threads : t # w => task'[t] = task[t]
    BY <1>1 DEF IInv, TypeOK, TakeTask
  <2>2. task'[w] # 0 <=> l = "execute"
    BY <1>1, <1>5 DEF IInv, OwnTaskInv
  <2> QED
    BY <1>1, <2>1, <2>2 DEF IInv, TypeOK, OwnTaskInv
<1> QED
  BY <1>2, <1>5, <1>6, <1>7, <1>8, <1>9 DEF IInv

LEMMA WorkerLoopStep ==
  ASSUME IInv, NEW w \in Workers, WorkerLoop(w)
  PROVE  IInv'
<1>1. pc[w] = "loop" /\ ~exit /\ UNCHANGED flags
  BY DEF WorkerLoop
<1>2. /\ currActiveThreadNum
           = currActiveThreadNum + (IF pc[w] = "resumeSleep" THEN 1 ELSE 0)
      /\ currWaittingThreadNum
           = currWaittingThreadNum - (IF pc[w] = "resumeWait" THEN 1 ELSE 0)
  BY <1>1, PoolSize DEF IInv, TypeOK
<1>3. CASE GoToSleep(w, currActiveThreadNum)
  BY <1>1, <1>2, <1>3, GoToSleepStep
<1>4. CASE /\ FindTask(w, currWaittingThreadNum)
           /\ UNCHANGED currActiveThreadNum
  BY <1>1, <1>2, <1>4, FindTaskStep DEF IInv, LimitInv
<1> QED
  BY <1>3, <1>4 DEF WorkerLoop

LEMMA ResumeSleepStep ==
  ASSUME IInv, NEW w \in Workers, ResumeSleep(w)
  PROVE  IInv'
<1>1. pc[w] = "resumeSleep" /\ UNCHANGED flags
  BY DEF ResumeSleep
<1>2. /\ currActiveThreadNum + 1
           = currActiveThreadNum + (IF pc[w] = "resumeSleep" THEN 1 ELSE 0)
      /\ currWaittingThreadNum
           = currWaittingThreadNum - (IF pc[w] = "resumeWait" THEN 1 ELSE 0)
  BY <1>1, PoolSize DEF IInv, TypeOK
<1>3. CASE /\ MustSleep(currActiveThreadNum + 1)
           /\ GoToSleep(w, currActiveThreadNum + 1)
  <2>1. ~exit
    BY <1>3 DEF MustSleep
  <2> QED
    BY <1>1, <1>2, <1>3, <2>1, GoToSleepStep
<1>4. CASE /\ ~MustSleep(currActiveThreadNum + 1)
           /\ currActiveThreadNum' = currActiveThreadNum + 1
           /\ FindTask(w, currWaittingThreadNum)
  <2>1. /\ running \/ exit
        /\ running /\ ~exit => currActiveThreadNum' <= maxActiveThreadNum
    BY <1>4, PoolSize DEF MustSleep, IInv, TypeOK
  <2> QED
    BY <1>1, <1>2, <1>4, <2>1, FindTaskStep
<1> QED
  BY <1>3, <1>4 DEF ResumeSleep

LEMMA ResumeWaitStep ==
  ASSUME IInv, NEW w \in Workers, ResumeWait(w)
  PROVE  IInv'
<1>1. /\ pc[w] = "resumeWait" /\ UNCHANGED <<flags, currActiveThreadNum>>
      /\ FindTask(w, currWaittingThreadNum - 1)
  BY DEF ResumeWait
<1>2. /\ currActiveThreadNum
           = currActiveThreadNum + (IF pc[w] = "resumeSleep" THEN 1 ELSE 0)
      /\ currWaittingThreadNum - 1
           = currWaittingThreadNum - (IF pc[w] = "resumeWait" THEN 1 ELSE 0)
  BY <1>1, PoolSize DEF IInv, TypeOK
<1> QED
  BY <1>1, <1>2, FindTaskStep DEF IInv, LimitInv

LEMMA WorkerExecuteStep ==
  ASSUME IInv, NEW w \in Workers, WorkerExecute(w)
  PROVE  IInv'
<1>1. /\ pc[w] = "execute" /\ TaskDone(w)
      /\ pc' = [pc EXCEPT ![w] = "loop"]
      /\ UNCHANGED <<flags, counts, mainPc>>
  BY DEF WorkerExecute
<1>2. mainPc \notin StoppedPcs /\ task[w] # 0
  BY <1>1 DEF IInv, PhaseInv, OwnTaskInv, Executing
<1>3. /\ TaskInv'
      /\ task' \in [Threads -> 0 .. MaxTasks]
      /\ executed' \in SUBSET (1 .. MaxTasks)
  BY <1>1, <1>2, TaskDoneStep DEF IInv
<1>4. CountersExact'
  <2>1. TypeOK /\ CountersExact
    BY DEF IInv
  <2>2. /\ currActiveThreadNum' = currActiveThreadNum + 1
             - (IF pc[w] \in {"asleep", "resumeSleep", "gone"} THEN 0 ELSE 1)
        /\ currWaittingThreadNum' = currWaittingThreadNum + 0
             - (IF pc[w] \in {"waiting", "resumeWait"} THEN 1 ELSE 0)
    BY <1>1, <2>1, PoolSize DEF TypeOK
  <2> QED
    BY <1>1, <2>1, <2>2, CountStep
<1>5. TypeOK'
  BY <1>1, <1>3 DEF IInv, TypeOK, TaskDone
<1>6. PhaseInv' /\ LimitInv'
  BY <1>1, <1>2 DEF IInv, PhaseInv, LimitInv
<1>7. OwnTaskInv'
  BY <1>1 DEF IInv, TypeOK, OwnTaskInv, TaskDone
<1> QED
  BY <1>3, <1>4, <1>5, <1>6, <1>7 DEF IInv

LEMMA WorkerExitStep ==
  ASSUME IInv, NEW w \in Workers, WorkerExit(w)
  PROVE  IInv'
<1>1. /\ pc[w] = "loop" /\ exit
      /\ currActiveThreadNum' = currActiveThreadNum - 1
      /\ pc' = [pc EXCEPT ![w] = "gone"]
      /\ mainPc' \in {mainPc, "stopCheck"}
      /\ mainPc' # mainPc => mainPc = "stopping"
      /\ UNCHANGED <<flags, currWaittingThreadNum, taskVars>>
  BY DEF WorkerExit
<1>2. /\ CountersExact'
      /\ currActiveThreadNum' \in 0 .. maxThreadNum
  <2>1. TypeOK /\ CountersExact
    BY DEF IInv
  <2>2. /\ currActiveThreadNum' = currActiveThreadNum + 0
             - (IF pc[w] \in {"asleep", "resumeSleep", "gone"} THEN 0 ELSE 1)
        /\ currWaittingThreadNum' = currWaittingThreadNum + 0
             - (IF pc[w] \in {"waiting", "resumeWait"} THEN 1 ELSE 0)
    BY <1>1, <2>1, PoolSize DEF TypeOK
  <2> QED
    BY <1>1, <2>1, <2>2, CountStep
<1>3. TypeOK'
  BY <1>1, <1>2 DEF IInv, TypeOK
<1>4. PhaseInv'
  BY <1>1 DEF IInv, TypeOK, PhaseInv, Executing
<1>5. LimitInv' /\ OwnTaskInv'
  BY <1>1 DEF IInv, TypeOK, LimitInv, OwnTaskInv
<1>6. TaskInv'
  BY <1>1, TasksKept DEF IInv
<1> QED
  BY <1>2, <1>3, <1>4, <1>5, <1>6 DEF IInv

LEMMA AddTaskStep ==
  ASSUME IInv, NEW t \in Threads, AddTask(t)
  PROVE  IInv'
<1>1. /\ added < MaxTasks /\ added' = added + 1
      /\ taskQueue' = Append(taskQueue, added + 1)
      /\ UNCHANGED <<flags, counts, mainPc, task, executed>>
  BY DEF AddTask
<1>2. /\ pc' \in [Workers -> WorkerPcs]
      /\ UNCHANGED <<Active, Waiting, Executing>>
      /\ \A w \in Workers : pc'[w] = "execute" <=> pc[w] = "execute"
  <2>1. CASE UNCHANGED pc
    BY <2>1 DEF IInv, TypeOK, Active, Waiting, Executing
  <2>2. ASSUME NEW w \in Workers, pc[w] = "waiting",
               pc' = [pc EXCEPT ![w] = "resumeWait"]
        PROVE  <1>2!1 /\ <1>2!2 /\ <1>2!3
    BY <2>2 DEF IInv, TypeOK, Active, Waiting, Executing
  <2> QED
    BY <2>1, <2>2 DEF AddTask
<1>3. /\ taskQueue' \in Seq(1 .. MaxTasks)
      /\ Len(taskQueue') = Len(taskQueue) + 1
      /\ taskQueue'[Len(taskQueue) + 1] = added + 1
      /\ \A i \in 1 .. Len(taskQueue) : taskQueue'[i] = taskQueue[i]
      /\ Len(taskQueue) \in Nat
  <2>1. added + 1 \in 1 .. MaxTasks
    BY <1>1 DEF IInv, TypeOK
  <2> QED
    BY <1>1, <2>1 DEF IInv, TypeOK
<1>4. TaskInv'
  <2>1. mainPc # "deleted"
    BY DEF AddTask, IInv, PhaseInv, Executing
  <2> SUFFICES ASSUME NEW n \in 1 .. MaxTasks
               PROVE  n <= added' <=>
                        \/ n \in executed'
                        \/ \E i \in 1 .. Len(taskQueue') : taskQueue'[i] = n
                        \/ \E u \in Threads : task'[u] = n
    BY DEF TaskInv
  <2>2. n <= added <=> \/ n \in executed
                       \/ \E i \in 1 .. Len(taskQueue) : taskQueue[i] = n
                       \/ \E u \in Threads : task[u] = n
    BY <2>1 DEF IInv, TaskInv
  <2>3. (\E i \in 1 .. Len(taskQueue') : taskQueue'[i] = n) <=>
          \/ n = added + 1
          \/ \E i \in 1 .. Len(taskQueue) : taskQueue[i] = n
    BY <1>3
  <2>4. n <= added' <=> n = added + 1 \/ n <= added
    BY <1>1 DEF IInv, TypeOK
  <2> QED
    BY <1>1, <2>2, <2>3, <2>4
<1>5. TypeOK'
  BY <1>1, <1>2, <1>3 DEF IInv, TypeOK
<1>6. PhaseInv' /\ LimitInv'
  BY <1>1, <1>2 DEF IInv, PhaseInv, LimitInv
<1>7. OwnTaskInv'
  BY <1>1, <1>2 DEF IInv, OwnTaskInv
<1>8. CountersExact'
  BY <1>1, <1>2, CountKept DEF IInv
<1> QED
  BY <1>4, <1>5, <1>6, <1>7, <1>8 DEF IInv

-----------------------------------------------------------------------------
(* The steps of the GC thread.                                             *)

(* Steps that move only the GC thread.                                     *)
LEMMA MainMoves ==
  ASSUME IInv, mainPc' \in MainPcs, UNCHANGED <<flags, counts, taskVars, pc>>,
         mainPc' \in StoppedPcs \cup {"stopCheck", "stopping"}
           => mainPc \in StoppedPcs \cup {"stopCheck", "stopping"},
         mainPc' \in StoppedPcs =>
           mainPc \in StoppedPcs \/ currActiveThreadNum = 0,
         {mainPc, mainPc'} \cap {"takeExecute", "drainExecute", "deleted"} = {}
  PROVE  IInv'
<1>1. TypeOK' /\ LimitInv' /\ OwnTaskInv'
  BY DEF IInv, TypeOK, LimitInv, OwnTaskInv
<1>2. TaskInv'
  BY TasksKept DEF IInv
<1>3. CountersExact'
  BY DEF IInv, CountersExact
<1>4. PhaseInv'
  <2>1. currActiveThreadNum = 0 => Executing = {}
    BY NoneActive DEF IInv
  <2> QED
    BY <2>1 DEF IInv, PhaseInv, Executing
<1> QED
  BY <1>1, <1>2, <1>3, <1>4 DEF IInv

LEMMA SetMaxActiveThreadNumStep ==
  ASSUME IInv, NEW num \in 0 .. maxThreadNum + 1, SetMaxActiveThreadNum(num)
  PROVE  IInv'
<1>1. /\ mainPc = "idle"
      /\ UNCHANGED <<running, exit, counts, taskVars, pc, mainPc>>
  BY DEF SetMaxActiveThreadNum
<1>2. maxActiveThreadNum' \in 1 .. maxThreadNum
  BY PoolSize DEF SetMaxActiveThreadNum, IInv, TypeOK
<1>3. Executing = {} /\ ~running
  BY <1>1 DEF IInv, PhaseInv
<1>4. CountersExact'
  <2>1. Executing' = {} /\ Cardinality(Executing') = 0
    BY <1>1, <1>3, FS_EmptySet DEF Executing
  <2> QED
    BY <1>1, <1>2, <2>1, PoolSize
    DEF IInv, CountersExact, Executing
<1>5. TypeOK'
  BY <1>1, <1>2 DEF IInv, TypeOK
<1>6. PhaseInv' /\ LimitInv' /\ OwnTaskInv' /\ TaskInv'
  BY <1>1, <1>3 DEF IInv, PhaseInv, LimitInv, OwnTaskInv, TaskInv, Executing
<1> QED
  BY <1>4, <1>5, <1>6 DEF IInv

LEMMA StartStep ==
  ASSUME IInv, Start
  PROVE  IInv'
<1>1. /\ mainPc = "idle" /\ mainPc' = "started" /\ running' = TRUE
      /\ pc' = Resumed({"asleep"})
      /\ UNCHANGED <<exit, maxActiveThreadNum, counts, taskVars>>
  BY DEF Start
<1>2. /\ pc' \in [Workers -> WorkerPcs]
      /\ UNCHANGED <<Active, Waiting, Executing>>
      /\ \A w \in Workers : pc'[w] = "execute" <=> pc[w] = "execute"
  BY <1>1, ResumedKeeps DEF IInv
<1>3. CountersExact'
  BY <1>1, <1>2, CountKept DEF IInv
<1>4. TypeOK'
  BY <1>1, <1>2 DEF IInv, TypeOK
<1>5. PhaseInv' /\ LimitInv'
  BY <1>1, PoolSize DEF IInv, TypeOK, PhaseInv, LimitInv
<1>6. OwnTaskInv'
  BY <1>1, <1>2 DEF IInv, OwnTaskInv
<1>7. TaskInv'
  BY <1>1, TasksKept DEF IInv
<1> QED
  BY <1>3, <1>4, <1>5, <1>6, <1>7 DEF IInv

LEMMA WaitFinishStep ==
  ASSUME IInv, NEW addToExecute \in BOOLEAN, WaitFinish(addToExecute)
  PROVE  IInv'
BY MainMoves DEF WaitFinish

LEMMA WaitFinishWaitStep ==
  ASSUME IInv, WaitFinishWait
  PROVE  IInv'
BY MainMoves DEF WaitFinishWait

LEMMA StopCheckStep ==
  ASSUME IInv, StopCheck
  PROVE  IInv'
BY MainMoves DEF StopCheck, AwaitSleepers

(* The GC thread takes a task, to execute it from where it is.             *)
LEMMA MainTakes ==
  ASSUME IInv, taskQueue # <<>>, TakeTask(Main),
         UNCHANGED <<flags, counts, pc>>,
         \/ mainPc = "take" /\ mainPc' = "takeExecute"
         \/ mainPc = "drain" /\ mainPc' = "drainExecute"
  PROVE  IInv'
<1>1. task[Main] = 0 /\ Main \in Threads
  BY DEF IInv, OwnTaskInv
<1>2. /\ TaskInv'
      /\ taskQueue' \in Seq(1 .. MaxTasks)
      /\ task' \in [Threads -> 0 .. MaxTasks]
      /\ task'[Main] # 0
  BY <1>1, TakeTaskStep DEF IInv
<1>3. /\ UNCHANGED <<added, executed>>
      /\ \A w \in Workers : task'[w] = task[w]
  BY DEF IInv, TypeOK, TakeTask
<1>4. TypeOK'
  BY <1>2, <1>3 DEF IInv, TypeOK
<1>5. PhaseInv' /\ LimitInv' /\ CountersExact'
  BY DEF IInv, PhaseInv, LimitInv, CountersExact, Executing
<1>6. OwnTaskInv'
  BY <1>2, <1>3 DEF IInv, OwnTaskInv
<1> QED
  BY <1>2, <1>4, <1>5, <1>6 DEF IInv

LEMMA WaitFinishTakeStep ==
  ASSUME IInv, WaitFinishTake
  PROVE  IInv'
<1>1. CASE taskQueue # <<>> /\ running /\ ~exit
  BY <1>1, MainTakes DEF WaitFinishTake
<1>2. CASE ~(taskQueue # <<>> /\ running /\ ~exit)
  BY <1>2, MainMoves DEF WaitFinishTake
<1> QED
  BY <1>1, <1>2

LEMMA MainExecuteStep ==
  ASSUME IInv, MainExecute
  PROVE  IInv'
<1>1. /\ TaskDone(Main) /\ UNCHANGED <<flags, counts, pc>>
      /\ \/ mainPc = "takeExecute" /\ mainPc' = "take"
         \/ mainPc = "drainExecute" /\ mainPc' = "drain"
  BY DEF MainExecute
<1>2. task[Main] # 0 /\ Main \in Threads
  BY <1>1 DEF IInv, OwnTaskInv
<1>3. /\ TaskInv'
      /\ task' \in [Threads -> 0 .. MaxTasks]
      /\ executed' \in SUBSET (1 .. MaxTasks)
  BY <1>1, <1>2, TaskDoneStep DEF IInv
<1>4. /\ UNCHANGED <<added, taskQueue>>
      /\ task'[Main] = 0
      /\ \A w \in Workers : task'[w] = task[w]
  BY <1>1 DEF IInv, TypeOK, TaskDone
<1>5. TypeOK'
  BY <1>1, <1>3, <1>4 DEF IInv, TypeOK
<1>6. PhaseInv' /\ LimitInv' /\ CountersExact'
  BY <1>1 DEF IInv, PhaseInv, LimitInv, CountersExact, Executing
<1>7. OwnTaskInv'
  BY <1>1, <1>4 DEF IInv, OwnTaskInv
<1> QED
  BY <1>3, <1>5, <1>6, <1>7 DEF IInv

LEMMA StopStep ==
  ASSUME IInv, Stop
  PROVE  IInv'
<1>1. /\ mainPc = "stop" /\ running' = FALSE
      /\ mainPc' = IF currActiveThreadNum # 0 THEN "stopping" ELSE "drain"
      /\ pc' = Resumed({"waiting"})
      /\ UNCHANGED <<exit, maxActiveThreadNum, counts, taskVars>>
  BY DEF Stop, AwaitSleepers
<1>2. /\ pc' \in [Workers -> WorkerPcs]
      /\ UNCHANGED <<Active, Waiting, Executing>>
      /\ \A w \in Workers : pc'[w] = "execute" <=> pc[w] = "execute"
  BY <1>1, ResumedKeeps DEF IInv
<1>3. CountersExact'
  BY <1>1, <1>2, CountKept DEF IInv
<1>4. TypeOK'
  BY <1>1, <1>2 DEF IInv, TypeOK
<1>5. PhaseInv' /\ LimitInv'
  <2>1. currActiveThreadNum = 0 => Executing = {}
    BY NoneActive DEF IInv
  <2> QED
    BY <1>1, <1>2, <2>1 DEF PhaseInv, LimitInv
<1>6. OwnTaskInv'
  BY <1>1, <1>2 DEF IInv, OwnTaskInv
<1>7. TaskInv'
  BY <1>1, TasksKept DEF IInv
<1> QED
  BY <1>3, <1>4, <1>5, <1>6, <1>7 DEF IInv

(* The queue is empty when DrainTaskQueue() ends: nothing of the round is  *)
(* left, and every task has been executed.                                 *)
LEMMA RoundEnds ==
  ASSUME IInv, mainPc = "drain", taskQueue = <<>>
  PROVE  /\ executed = 1 .. added
         /\ \A t \in Threads : task[t] = 0
<1>1. \A t \in Threads : task[t] = 0
  BY DEF IInv, PhaseInv, OwnTaskInv, Executing
<1>2. \A n \in 1 .. MaxTasks : n <= added <=> n \in executed
  BY <1>1 DEF IInv, TaskInv
<1>3. added \in 0 .. MaxTasks /\ executed \in SUBSET (1 .. MaxTasks)
  BY DEF IInv, TypeOK
<1>4. ASSUME NEW n \in executed
      PROVE  n \in 1 .. added
  <2>1. n \in 1 .. MaxTasks
    BY <1>3
  <2> QED
    BY <1>2, <1>3, <2>1
<1>5. ASSUME NEW n \in 1 .. added
      PROVE  n \in executed
  <2>1. n \in 1 .. MaxTasks /\ n <= added
    BY <1>3
  <2> QED
    BY <1>2, <2>1
<1> QED
  BY <1>1, <1>4, <1>5

LEMMA DrainTaskQueueStep ==
  ASSUME IInv, DrainTaskQueue
  PROVE  IInv'
<1>1. CASE taskQueue # <<>>
  BY <1>1, MainTakes DEF DrainTaskQueue
<1>2. CASE taskQueue = <<>>
  <2>1. /\ mainPc = "drain" /\ mainPc' = "idle"
        /\ added' = 0 /\ executed' = {}
        /\ UNCHANGED <<flags, counts, pc, taskQueue, task>>
    BY <1>2 DEF DrainTaskQueue
  <2>2. TaskInv'
    BY <1>2, <2>1, RoundEnds DEF TaskInv
  <2>3. TypeOK'
    BY <2>1 DEF IInv, TypeOK
  <2>4. PhaseInv' /\ LimitInv' /\ OwnTaskInv' /\ CountersExact'
    BY <2>1
    DEF IInv, PhaseInv, LimitInv, OwnTaskInv, CountersExact, Executing
  <2> QED
    BY <2>2, <2>3, <2>4 DEF IInv
<1> QED
  BY <1>1, <1>2

(* Exit(), by another thread or by the destructor.                         *)
LEMMA Exits ==
  ASSUME IInv, exit' = TRUE, pc' = Resumed({"asleep", "waiting"}),
         \/ mainPc' = mainPc
         \/ mainPc = "finishing" /\ mainPc' = "waitFinish"
         \/ mainPc = "stopping" /\ mainPc' = "stopCheck"
         \/ mainPc = "idle" /\ mainPc' = "join",
         UNCHANGED <<running, maxActiveThreadNum, counts, taskVars>>
  PROVE  IInv'
<1>1. /\ pc' \in [Workers -> WorkerPcs]
      /\ UNCHANGED <<Active, Waiting, Executing>>
      /\ \A w \in Workers : pc'[w] = "execute" <=> pc[w] = "execute"
  BY ResumedKeeps DEF IInv
<1>2. CountersExact'
  BY <1>1, CountKept DEF IInv
<1>3. TypeOK'
  BY <1>1 DEF IInv, TypeOK
<1>4. PhaseInv' /\ LimitInv'
  BY <1>1 DEF IInv, PhaseInv, LimitInv
<1>5. OwnTaskInv'
  BY <1>1 DEF IInv, OwnTaskInv
<1>6. TaskInv'
  BY TasksKept DEF IInv
<1> QED
  BY <1>2, <1>3, <1>4, <1>5, <1>6 DEF IInv

LEMMA ExitStep ==
  ASSUME IInv, Exit
  PROVE  IInv'
BY Exits DEF Exit, NotifyEverybody

LEMMA DestroyStep ==
  ASSUME IInv, Destroy
  PROVE  IInv'
BY Exits DEF Destroy

LEMMA DeletedStep ==
  ASSUME IInv, Deleted
  PROVE  IInv'
<1>1. /\ mainPc = "join" /\ mainPc' = "deleted" /\ taskQueue' = <<>>
      /\ UNCHANGED <<flags, counts, task, added, executed, pc>>
  BY DEF Deleted
<1>2. TypeOK'
  BY <1>1 DEF IInv, TypeOK
<1> QED
  BY <1>1, <1>2
  DEF IInv, PhaseInv, LimitInv, OwnTaskInv, TaskInv, CountersExact, Executing

-----------------------------------------------------------------------------
(* The theorems.                                                           *)

LEMMA Initially ==
  ASSUME Init
  PROVE  IInv
<1>1. TypeOK
  <2>1. running \in BOOLEAN /\ exit \in BOOLEAN /\ mainPc \in MainPcs
    BY DEF Init
  <2>4. taskQueue \in Seq(1 .. MaxTasks) /\ added \in 0 .. MaxTasks
    BY DEF Init
  <2>5. executed \in SUBSET (1 .. MaxTasks)
    BY DEF Init
  <2>2. /\ maxActiveThreadNum \in 1 .. maxThreadNum
        /\ currActiveThreadNum \in 0 .. maxThreadNum
        /\ currWaittingThreadNum \in 0 .. maxThreadNum
    BY PoolSize DEF Init
  <2>3. pc \in [Workers -> WorkerPcs] /\ task \in [Threads -> 0 .. MaxTasks]
    BY DEF Init
  <2> QED
    BY <2>1, <2>2, <2>3, <2>4, <2>5 DEF TypeOK
<1>2. Active = Workers /\ Waiting = {} /\ Executing = {}
  BY DEF Init, Active, Waiting, Executing
<1>3. CountersExact
  BY <1>2, FS_EmptySet, Counters, PoolSize DEF Init, maxThreadNum
<1>4. PhaseInv /\ LimitInv /\ OwnTaskInv
  BY <1>2 DEF Init, PhaseInv, LimitInv, OwnTaskInv
<1>5. TaskInv
  BY DEF Init, TaskInv
<1> QED
  BY <1>1, <1>3, <1>4, <1>5 DEF IInv

LEMMA Stutters ==
  ASSUME IInv, UNCHANGED vars
  PROVE  IInv'
BY DEF vars, IInv, TypeOK, PhaseInv, LimitInv, OwnTaskInv, TaskInv,
       CountersExact, Executing

LEMMA NextStep ==
  ASSUME IInv, Next
  PROVE  IInv'
<1>1. ASSUME NEW w \in Workers, WorkerStep(w)
      PROVE  IInv'
  BY <1>1, WorkerLoopStep, ResumeSleepStep, ResumeWaitStep, WorkerExecuteStep,
     WorkerExitStep DEF WorkerStep
<1>2. CASE MainStep
  BY <1>2, WaitFinishTakeStep, MainExecuteStep, WaitFinishWaitStep, StopStep,
     StopCheckStep, DrainTaskQueueStep, DeletedStep DEF MainStep
<1>3. ASSUME NEW t \in Threads, AddTask(t)
      PROVE  IInv'
  BY <1>3, AddTaskStep
<1>4. ASSUME NEW num \in 0 .. maxThreadNum + 1, SetMaxActiveThreadNum(num)
      PROVE  IInv'
  BY <1>4, SetMaxActiveThreadNumStep
<1>5. CASE Start
  BY <1>5, StartStep
<1>6. ASSUME NEW addToExecute \in BOOLEAN, WaitFinish(addToExecute)
      PROVE  IInv'
  BY <1>6, WaitFinishStep
<1>7. CASE Exit
  BY <1>7, ExitStep
<1>8. CASE Destroy
  BY <1>8, DestroyStep
<1> QED
  BY <1>1, <1>2, <1>3, <1>4, <1>5, <1>6, <1>7, <1>8 DEF Next

(* Whatever the workers, the GC thread, the threads that add tasks and     *)
(* Exit() do in between, the pool stays in the states that IInv describes. *)
THEOREM InductiveInvariant == Spec => []IInv
<1>1. Init => IInv
  BY Initially
<1>2. IInv /\ [Next]_vars => IInv'
  BY NextStep, Stutters
<1> QED
  BY <1>1, <1>2, PTL DEF Spec

(* The counters, the queue and the places of the threads stay in their     *)
(* ranges; in particular neither counter ever goes below 0.                *)
THEOREM TypeCorrect == Spec => []TypeOK
<1>1. IInv => TypeOK
  BY DEF IInv
<1> QED
  BY <1>1, InductiveInvariant, PTL

(* currActiveThreadNum and currWaittingThreadNum are the numbers of active *)
(* and of waiting workers, and no more workers execute tasks than          *)
(* SetMaxActiveThreadNum() allows, for a pool of any size.                 *)
THEOREM CountersAreExact == Spec => []CountersExact
<1>1. IInv => CountersExact
  BY DEF IInv
<1> QED
  BY <1>1, InductiveInvariant, PTL

(* No worker executes a task once Stop() has returned, until Start().      *)
THEOREM StopIsQuiet == Spec => []QuietAfterStop
<1>1. IInv => QuietAfterStop
  BY DEF IInv, PhaseInv, QuietAfterStop, Executing
<1> QED
  BY <1>1, InductiveInvariant, PTL

(* WaitFinish() returns only when every task of the round was executed:    *)
(* the emptied queue is the last place where one could be.                 *)
THEOREM NoTaskLost == Spec => WaitFinishComplete
<1>1. IInv /\ [Next]_vars
        => [mainPc = "drain" /\ mainPc' = "idle" => executed = 1 .. added]_vars
  <2> SUFFICES ASSUME IInv, Next, mainPc = "drain", mainPc' = "idle"
               PROVE  executed = 1 .. added
    BY DEF vars
  <2>1. taskQueue = <<>>
    BY DEF Next, WorkerStep, MainStep, WorkerLoop, GoToSleep, FindTask,
           ResumeSleep, ResumeWait, WorkerExecute, WorkerExit, AddTask,
           SetMaxActiveThreadNum, Start, WaitFinish, WaitFinishTake,
           MainExecute, WaitFinishWait, Stop, StopCheck, DrainTaskQueue,
           Exit, NotifyEverybody, Destroy, Deleted
  <2> QED
    BY <2>1, RoundEnds
<1> QED
  BY <1>1, InductiveInvariant, PTL DEF Spec, WaitFinishComplete

=============================================================================
