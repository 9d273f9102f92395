----------------------------- MODULE ThreadPool -----------------------------
(***************************************************************************)
(* MplThreadPool, the pool of GC worker threads (mpl_thread_pool.h,        *)
(* mpl_thread_pool.cpp), as the GC thread uses it: set the number of       *)
(* active threads, add tasks, Start(), WaitFinish(), over and over.        *)
(* StopThread() may call Exit() at any moment of that, from another        *)
(* thread; the pool is destroyed once the GC thread has ended.             *)
(*                                                                         *)
(* All of the pool's state is protected by taskMutex.  One step is one     *)
(* critical section, up to a wait on a condition variable, or the          *)
(* execution of a task, which may add tasks itself.                        *)
(***************************************************************************)
EXTENDS Naturals, Sequences, FiniteSets

CONSTANTS
  Workers,    \* the threads of the pool
  Main,       \* the GC thread
  MaxTasks    \* bound: tasks added between two returns of WaitFinish()

ASSUME PoolAssumption ==
  /\ IsFiniteSet(Workers) /\ Workers # {}
  /\ Main \notin Workers
  /\ MaxTasks \in Nat

Threads == Workers \cup {Main}
maxThreadNum == Cardinality(Workers)

VARIABLES
  running, exit,            \* the pool's flags
  taskQueue,                \* tasks not yet taken, in order
  maxActiveThreadNum,
  currActiveThreadNum,      \* threads not asleep
  currWaittingThreadNum,    \* threads waiting for a task
  pc,                       \* where each worker is
  mainPc,                   \* where the GC thread is
  task,                     \* the task a thread executes, or 0
  added,                    \* tasks are numbered in the order of AddTask()
  executed                  \* history: the tasks executed

flags    == <<running, exit, maxActiveThreadNum>>
counts   == <<currActiveThreadNum, currWaittingThreadNum>>
taskVars == <<taskQueue, task, added, executed>>
vars     == <<flags, counts, taskVars, pc, mainPc>>

(* Waits on condition variables: "asleep" on threadSleepingCondVar,        *)
(* "waiting" on taskEmptyCondVar, "finishing" on allWorkDoneCondVar and    *)
(* "stopping" on allThreadStopped.  "resumeSleep" and "resumeWait" are     *)
(* workers that were notified and do not have the lock again yet.          *)
WorkerPcs == {"loop", "asleep", "resumeSleep", "waiting", "resumeWait",
              "execute", "gone"}
MainPcs   == {"idle", "started", "take", "takeExecute", "waitFinish",
              "finishing", "stop", "stopCheck", "stopping", "drain",
              "drainExecute", "join", "deleted"}

(* The constructor: the threads run, its Stop() is still to come.          *)
Init ==
  /\ running = FALSE
  /\ exit = FALSE
  /\ taskQueue = <<>>
  /\ maxActiveThreadNum = maxThreadNum
  /\ currActiveThreadNum = maxThreadNum
  /\ currWaittingThreadNum = 0
  /\ pc = [w \in Workers |-> "loop"]
  /\ mainPc = "stop"
  /\ task = [t \in Threads |-> 0]
  /\ added = 0
  /\ executed = {}

-----------------------------------------------------------------------------
(* Notifications: every thread waiting there goes on, or one of them.      *)

NotifyAllStopped ==
  mainPc' = IF mainPc = "stopping" THEN "stopCheck" ELSE mainPc
NotifyAllWorkDone ==
  mainPc' = IF mainPc = "finishing" THEN "waitFinish" ELSE mainPc

(* Notify all workers at the places in from.                               *)
Resumed(from) ==
  [w \in Workers |->
     CASE pc[w] = "asleep" /\ "asleep" \in from -> "resumeSleep"
       [] pc[w] = "waiting" /\ "waiting" \in from -> "resumeWait"
       [] OTHER -> pc[w]]

(* Thread t takes the first task.                                          *)
TakeTask(t) ==
  /\ task' = [task EXCEPT ![t] = Head(taskQueue)]
  /\ taskQueue' = Tail(taskQueue)
  /\ UNCHANGED <<added, executed>>

(* Thread t has executed its task.                                         *)
TaskDone(t) ==
  /\ executed' = executed \cup {task[t]}
  /\ task' = [task EXCEPT ![t] = 0]
  /\ UNCHANGED <<taskQueue, added>>

-----------------------------------------------------------------------------
(* A worker: WorkerFunc().                                                 *)

(* Its turn to sleep, with active threads counted, itself included.        *)
MustSleep(active) == (active > maxActiveThreadNum \/ ~running) /\ ~exit

(* --currActiveThreadNum and wait, in the first inner loop.                *)
GoToSleep(w, active) ==
  /\ currActiveThreadNum' = active - 1
  /\ IF active - 1 = 0 THEN NotifyAllStopped ELSE UNCHANGED mainPc
  /\ pc' = [pc EXCEPT ![w] = "asleep"]
  /\ UNCHANGED <<currWaittingThreadNum, taskVars>>

(* The second inner loop: wait for a task, with waitting threads counted,  *)
(* itself not; then take one.  After Exit() or Stop() it takes none.       *)
FindTask(w, waitting) ==
  \/ /\ taskQueue = <<>> /\ running /\ ~exit
     /\ currWaittingThreadNum' = waitting + 1
     /\ IF waitting + 1 = maxActiveThreadNum THEN NotifyAllWorkDone
                                             ELSE UNCHANGED mainPc
     /\ pc' = [pc EXCEPT ![w] = "waiting"]
     /\ UNCHANGED taskVars
  \/ /\ taskQueue # <<>> /\ running /\ ~exit
     /\ currWaittingThreadNum' = waitting
     /\ TakeTask(w)
     /\ pc' = [pc EXCEPT ![w] = "execute"]
     /\ UNCHANGED mainPc
  \/ /\ ~running \/ exit
     /\ currWaittingThreadNum' = waitting
     /\ pc' = [pc EXCEPT ![w] = "loop"]
     /\ UNCHANGED <<taskVars, mainPc>>

WorkerLoop(w) ==
  /\ pc[w] = "loop"
  /\ ~exit
  /\ \/ /\ MustSleep(currActiveThreadNum)
        /\ GoToSleep(w, currActiveThreadNum)
     \/ /\ ~MustSleep(currActiveThreadNum)
        /\ FindTask(w, currWaittingThreadNum)
        /\ UNCHANGED currActiveThreadNum
  /\ UNCHANGED flags

(* Mutant: a thread that wakes up is not counted again.                    *)
ResumeSleepUncounted(w) ==
  /\ pc[w] = "resumeSleep"
  /\ \/ /\ MustSleep(currActiveThreadNum)
        /\ GoToSleep(w, currActiveThreadNum)
     \/ /\ ~MustSleep(currActiveThreadNum)
        /\ FindTask(w, currWaittingThreadNum)
        /\ UNCHANGED currActiveThreadNum
  /\ UNCHANGED flags

(* Woken on threadSleepingCondVar: ++currActiveThreadNum, check again.     *)
ResumeSleep(w) ==
  /\ pc[w] = "resumeSleep"
  /\ \/ /\ MustSleep(currActiveThreadNum + 1)
        /\ GoToSleep(w, currActiveThreadNum + 1)
     \/ /\ ~MustSleep(currActiveThreadNum + 1)
        /\ currActiveThreadNum' = currActiveThreadNum + 1
        /\ FindTask(w, currWaittingThreadNum)
  /\ UNCHANGED flags

(* Mutant: a thread told to stop or to exit while it waits for a task is   *)
(* left in currWaittingThreadNum.                                          *)
ResumeWaitStillCounted(w) ==
  /\ pc[w] = "resumeWait"
  /\ FindTask(w, IF running /\ ~exit THEN currWaittingThreadNum - 1
                                     ELSE currWaittingThreadNum)
  /\ UNCHANGED <<flags, currActiveThreadNum>>

(* Woken on taskEmptyCondVar: --currWaittingThreadNum, check again.        *)
ResumeWait(w) ==
  /\ pc[w] = "resumeWait"
  /\ FindTask(w, currWaittingThreadNum - 1)
  /\ UNCHANGED <<flags, currActiveThreadNum>>

WorkerExecute(w) ==
  /\ pc[w] = "execute"
  /\ TaskDone(w)
  /\ pc' = [pc EXCEPT ![w] = "loop"]
  /\ UNCHANGED <<flags, counts, mainPc>>

(* The outer loop ends once exit is set.                                   *)
WorkerExit(w) ==
  /\ pc[w] = "loop"
  /\ exit
  /\ currActiveThreadNum' = currActiveThreadNum - 1
  /\ IF currActiveThreadNum - 1 = 0 THEN NotifyAllStopped ELSE UNCHANGED mainPc
  /\ pc' = [pc EXCEPT ![w] = "gone"]
  /\ UNCHANGED <<flags, currWaittingThreadNum, taskVars>>

-----------------------------------------------------------------------------
(* Operations of the pool.                                                 *)

(* AddTask(), by a task in execution or from outside the pool: by the GC   *)
(* thread between rounds, and at any time by a mutator that scans its      *)
(* stack during a collection.                                              *)
AddTask(t) ==
  /\ IF t = Main THEN mainPc \notin {"join", "deleted"} ELSE pc[t] = "execute"
  /\ added < MaxTasks
  /\ added' = added + 1
  /\ taskQueue' = Append(taskQueue, added + 1)
  /\ \/ /\ running /\ currWaittingThreadNum > 0
        /\ \E w \in Workers : /\ pc[w] = "waiting"
                              /\ pc' = [pc EXCEPT ![w] = "resumeWait"]
     \/ /\ running /\ currWaittingThreadNum > 0
        /\ \A w \in Workers : pc[w] # "waiting"
        /\ UNCHANGED pc
     \/ /\ ~running \/ currWaittingThreadNum = 0
        /\ UNCHANGED pc
  /\ UNCHANGED <<flags, counts, mainPc, task, executed>>

(* SetMaxActiveThreadNum(): the manual asks for a stopped pool.            *)
SetMaxActiveThreadNum(num) ==
  /\ mainPc = "idle"
  /\ maxActiveThreadNum' = IF num >= maxThreadNum THEN maxThreadNum
                           ELSE IF num > 0 THEN num ELSE maxActiveThreadNum
  /\ UNCHANGED <<running, exit, counts, taskVars, pc, mainPc>>

Start ==
  /\ mainPc = "idle"
  /\ running' = TRUE
  /\ pc' = Resumed({"asleep"})
  /\ mainPc' = "started"
  /\ UNCHANGED <<exit, maxActiveThreadNum, counts, taskVars>>

(* WaitFinish(): the calling thread first executes tasks itself.           *)
WaitFinish(addToExecute) ==
  /\ mainPc = "started"
  /\ mainPc' = IF addToExecute THEN "take" ELSE "waitFinish"
  /\ UNCHANGED <<flags, counts, taskVars, pc>>

WaitFinishTake ==
  /\ mainPc = "take"
  /\ IF taskQueue # <<>> /\ running /\ ~exit
     THEN TakeTask(Main) /\ mainPc' = "takeExecute"
     ELSE mainPc' = "waitFinish" /\ UNCHANGED taskVars
  /\ UNCHANGED <<flags, counts, pc>>

MainExecute ==
  /\ mainPc \in {"takeExecute", "drainExecute"}
  /\ TaskDone(Main)
  /\ mainPc' = IF mainPc = "takeExecute" THEN "take" ELSE "drain"
  /\ UNCHANGED <<flags, counts, pc>>

(* Mutant: WaitFinish() does not look at exit when it is woken.            *)
WaitFinishWaitDeaf ==
  /\ mainPc = "waitFinish"
  /\ mainPc' = IF currWaittingThreadNum # maxActiveThreadNum /\ running
               THEN "finishing" ELSE "stop"
  /\ UNCHANGED <<flags, counts, taskVars, pc>>

WaitFinishWait ==
  /\ mainPc = "waitFinish"
  /\ mainPc' = IF currWaittingThreadNum # maxActiveThreadNum /\ running /\ ~exit
               THEN "finishing" ELSE "stop"
  /\ UNCHANGED <<flags, counts, taskVars, pc>>

(* Mutant: Stop() does not wait once the pool exits.                       *)
AwaitSleepersUnlessExit ==
  mainPc' = IF currActiveThreadNum # 0 /\ ~exit THEN "stopping" ELSE "drain"

(* The GC thread waits in Stop() until no worker is active.                *)
AwaitSleepers ==
  mainPc' = IF currActiveThreadNum # 0 THEN "stopping" ELSE "drain"

(* Stop(): notify the workers that wait for tasks, wait until all sleep.   *)
Stop ==
  /\ mainPc = "stop"
  /\ running' = FALSE
  /\ pc' = Resumed({"waiting"})
  /\ AwaitSleepers
  /\ UNCHANGED <<exit, maxActiveThreadNum, counts, taskVars>>

StopCheck ==
  /\ mainPc = "stopCheck"
  /\ AwaitSleepers
  /\ UNCHANGED <<flags, counts, taskVars, pc>>

(* Mutant: WaitFinish() returns after Stop().                              *)
DrainNothing ==
  /\ mainPc = "drain"
  /\ mainPc' = "idle"
  /\ UNCHANGED <<flags, counts, taskVars, pc>>

(* DrainTaskQueue(), then WaitFinish() returns and the next round starts   *)
(* with no task counted.                                                   *)
DrainTaskQueue ==
  /\ mainPc = "drain"
  /\ \/ /\ taskQueue # <<>>
        /\ TakeTask(Main)
        /\ mainPc' = "drainExecute"
     \/ /\ taskQueue = <<>>
        /\ added' = 0
        /\ executed' = {}
        /\ mainPc' = "idle"
        /\ UNCHANGED <<taskQueue, task>>
  /\ UNCHANGED <<flags, counts, pc>>

(* Exit() notifies on all four condition variables.                        *)
NotifyEverybody ==
  /\ pc' = Resumed({"asleep", "waiting"})
  /\ mainPc' = CASE mainPc = "finishing" -> "waitFinish"
                 [] mainPc = "stopping" -> "stopCheck"
                 [] OTHER -> mainPc

(* Mutant: the sleeping threads are not notified.                          *)
ExitWaitersOnly ==
  /\ ~exit
  /\ mainPc \notin {"join", "deleted"}
  /\ exit' = TRUE
  /\ pc' = Resumed({"waiting"})
  /\ mainPc' = CASE mainPc = "finishing" -> "waitFinish"
                 [] mainPc = "stopping" -> "stopCheck"
                 [] OTHER -> mainPc
  /\ UNCHANGED <<running, maxActiveThreadNum, counts, taskVars>>

(* Called by StopThread(), from another thread than the GC thread.         *)
Exit ==
  /\ ~exit
  /\ mainPc \notin {"join", "deleted"}
  /\ exit' = TRUE
  /\ NotifyEverybody
  /\ UNCHANGED <<running, maxActiveThreadNum, counts, taskVars>>

(* ~MplThreadPool(), when the GC thread has ended: Exit(), join the        *)
(* workers, ClearAllTask().                                                *)
Destroy ==
  /\ mainPc = "idle"
  /\ exit' = TRUE
  /\ pc' = Resumed({"asleep", "waiting"})
  /\ mainPc' = "join"
  /\ UNCHANGED <<running, maxActiveThreadNum, counts, taskVars>>

Deleted ==
  /\ mainPc = "join"
  /\ \A w \in Workers : pc[w] = "gone"
  /\ mainPc' = "deleted"
  /\ taskQueue' = <<>>
  /\ UNCHANGED <<flags, counts, task, added, executed, pc>>

-----------------------------------------------------------------------------
WorkerStep(w) ==
  \/ WorkerLoop(w) \/ ResumeSleep(w) \/ ResumeWait(w) \/ WorkerExecute(w)
  \/ WorkerExit(w)

(* What the GC thread does inside WaitFinish() and the destructor.         *)
MainStep ==
  \/ WaitFinishTake \/ MainExecute \/ WaitFinishWait \/ Stop \/ StopCheck
  \/ DrainTaskQueue \/ Deleted

Next ==
  \/ \E w \in Workers : WorkerStep(w)
  \/ MainStep
  \/ \E t \in Threads : AddTask(t)
  \/ \E num \in 0 .. maxThreadNum + 1 : SetMaxActiveThreadNum(num)
  \/ Start
  \/ \E addToExecute \in BOOLEAN : WaitFinish(addToExecute)
  \/ Exit
  \/ Destroy

Spec == Init /\ [][Next]_vars

(* Threads that can go on are scheduled, and tasks end.                    *)
Fairness ==
  /\ \A w \in Workers : WF_vars(WorkerStep(w))
  /\ WF_vars(MainStep)

FairSpec == Spec /\ Fairness

-----------------------------------------------------------------------------
(* Properties.                                                             *)

TypeOK ==
  /\ running \in BOOLEAN
  /\ exit \in BOOLEAN
  /\ taskQueue \in Seq(1 .. MaxTasks)
  /\ maxActiveThreadNum \in 1 .. maxThreadNum
  /\ currActiveThreadNum \in 0 .. maxThreadNum
  /\ currWaittingThreadNum \in 0 .. maxThreadNum
  /\ pc \in [Workers -> WorkerPcs]
  /\ mainPc \in MainPcs
  /\ task \in [Threads -> 0 .. MaxTasks]
  /\ added \in 0 .. MaxTasks
  /\ executed \in SUBSET (1 .. MaxTasks)

(* The two counters are the numbers of threads they stand for, whatever    *)
(* woke the threads: a thread that has been notified still counts as       *)
(* asleep or waiting until it has the lock.  So no more workers execute    *)
(* tasks than SetMaxActiveThreadNum() allows.                              *)
CountersExact ==
  /\ currActiveThreadNum =
       Cardinality({w \in Workers :
                      pc[w] \notin {"asleep", "resumeSleep", "gone"}})
  /\ currWaittingThreadNum =
       Cardinality({w \in Workers : pc[w] \in {"waiting", "resumeWait"}})
  /\ Cardinality({w \in Workers : pc[w] = "execute"}) <= maxActiveThreadNum

(* While the GC thread is past Stop() no worker executes a task: what the  *)
(* GC thread does next cannot race with the tasks of this round.           *)
QuietAfterStop ==
  mainPc \in {"drain", "drainExecute", "idle", "deleted"}
    => \A w \in Workers : pc[w] # "execute"

(* When WaitFinish() returns all tasks have been executed: those added     *)
(* while it ran, those added by tasks, and those the workers left behind   *)
(* because of a concurrent Exit().                                         *)
WaitFinishComplete ==
  [][mainPc = "drain" /\ mainPc' = "idle" => executed = 1 .. added]_vars

(* WaitFinish() returns: neither the wait for the last task nor the wait   *)
(* in Stop() misses its notification.                                      *)
WaitFinishReturns == mainPc \in {"take", "waitFinish"} ~> mainPc = "idle"

(* After Exit() all workers end, also those asleep or waiting, so that the *)
(* destructor returns.                                                     *)
ExitCompletes == exit ~> \A w \in Workers : pc[w] = "gone"

=============================================================================
