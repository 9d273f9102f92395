----------------------------- MODULE StackScan -----------------------------
(***************************************************************************)
(* Concurrent stack scanning: how the GC thread and the mutators share the *)
(* scanning of the mutators' stacks after the first stop-the-world of a    *)
(* concurrent collection (collector_ms.cpp, Mutator in collector.h,        *)
(* FastScanRoots() in collector_tracing.cpp).                              *)
(*                                                                         *)
(* FastScanRoots() marks every mutator kNeedScan while the world is        *)
(* stopped.  A mutator that leaves its saferegion scans its own stack in   *)
(* StackScanBarrier() unless the GC thread has, and waits while the GC     *)
(* thread does.  The GC thread then waits until all stacks are scanned.    *)
(*                                                                         *)
(* Stop-the-world is that of module World, which module Saferegion         *)
(* implements: its actions are conjuncts of the actions here.  The marking *)
(* by the thread pool is abstracted to the tasks that wait for execution.  *)
(***************************************************************************)
EXTENDS Naturals, FiniteSets

CONSTANTS
  Mutators,
  None         \* no mutator

ASSUME MutatorsAssumption == IsFiniteSet(Mutators) /\ None \notin Mutators

VARIABLES
  attached, running, stopped,   \* see module World
  scanState,                    \* Mutator::scanState
  snapshotMutators,             \* mutators the GC thread may scan
  numMutatorToBeScan,
  pc, ret,                      \* each mutator: where it is, returns to
  gcPc, gcMutator,              \* the GC thread: where it is, whom it scans
  tasks,                        \* mark tasks added and not yet executed
  cycle,                        \* history: the mutators of this collection
  marked                        \* history: those whose roots are marked

worldVars == <<attached, running, stopped>>
scanVars  == <<scanState, snapshotMutators, numMutatorToBeScan>>
gcVars    == <<gcPc, gcMutator>>
history   == <<cycle, marked>>
vars      == <<worldVars, scanVars, pc, ret, gcVars, tasks, history>>

W == INSTANCE World

BarrierPcs == {"barrier", "tryScan", "futexWait", "asleep", "scan", "sub",
               "notify", "finish", "erase"}

Goto(m, l) == pc' = [pc EXCEPT ![m] = l]

(* A mutator in RemoveMutator() holds mutatorListMutex.                    *)
ListLocked == \E m \in Mutators : ret[m] = "absent" /\ pc[m] \in BarrierPcs

(* The GC thread holds snapshotMutex between a failed check of the         *)
(* condition and the sleep.                                                *)
SnapshotLocked == gcPc = "waitSleep"

Init ==
  /\ W!Init
  /\ scanState = [m \in Mutators |-> "finish"]
  /\ snapshotMutators = {}
  /\ numMutatorToBeScan = 0
  /\ pc = [m \in Mutators |-> "absent"]
  /\ ret = [m \in Mutators |-> "managed"]
  /\ gcPc = "idle"
  /\ gcMutator = None
  /\ tasks = {}
  /\ cycle = {}
  /\ marked = {}

-----------------------------------------------------------------------------
(* Mutators.                                                               *)

(* InitYieldpoint(): the new Mutator has nothing to scan.                  *)
InitYieldpoint(m) ==
  /\ pc[m] = "absent"
  /\ ~ListLocked
  /\ W!Attach(m)
  /\ scanState' = [scanState EXCEPT ![m] = "finish"]
  /\ Goto(m, "managed")
  /\ UNCHANGED <<snapshotMutators, numMutatorToBeScan, ret, gcVars, tasks,
                 history>>

EnterSaferegion(m) ==
  /\ pc[m] = "managed"
  /\ W!Park(m)
  /\ Goto(m, "native")
  /\ UNCHANGED <<scanVars, ret, gcVars, tasks, history>>

(* Mutant: a mutator leaves its saferegion without the barrier.            *)
LeaveWithoutBarrier(m) ==
  /\ pc[m] = "native"
  /\ W!Resume(m)
  /\ Goto(m, "managed")
  /\ UNCHANGED <<scanVars, ret, gcVars, tasks, history>>

(* DoLeaveSaferegion(): past the counters, StackScanBarrier() is next.     *)
LeaveSaferegion(m) ==
  /\ pc[m] = "native"
  /\ W!Resume(m)
  /\ ret' = [ret EXCEPT ![m] = "managed"]
  /\ Goto(m, "barrier")
  /\ UNCHANGED <<scanVars, gcVars, tasks, history>>

(* Mutant: an exiting mutator skips the barrier.                           *)
FiniWithoutBarrier(m) ==
  /\ pc[m] = "native"
  /\ ~ListLocked
  /\ W!Detach(m)
  /\ Goto(m, "absent")
  /\ UNCHANGED <<scanVars, ret, gcVars, tasks, history>>

(* FiniYieldpoint(): removed from the list, then out of the saferegion.    *)
FiniYieldpoint(m) ==
  /\ pc[m] = "native"
  /\ ~ListLocked
  /\ W!Detach(m)
  /\ ret' = [ret EXCEPT ![m] = "absent"]
  /\ Goto(m, "barrier")
  /\ UNCHANGED <<scanVars, gcVars, tasks, history>>

(* StackScanBarrier().                                                     *)
StackScanBarrier(m) ==
  /\ pc[m] = "barrier"
  /\ Goto(m, IF scanState[m] # "finish" THEN "tryScan" ELSE ret[m])
  /\ UNCHANGED <<worldVars, scanVars, ret, gcVars, tasks, history>>

(* TrySetScanState(true): compare and exchange, or wait for the GC thread. *)
TrySetScanState(m) ==
  /\ pc[m] = "tryScan"
  /\ scanState' = [scanState EXCEPT ![m] = IF @ = "need" THEN "in" ELSE @]
  /\ Goto(m, CASE scanState[m] = "need"   -> "scan"
               [] scanState[m] = "in"     -> "futexWait"
               [] scanState[m] = "finish" -> ret[m])
  /\ UNCHANGED <<worldVars, snapshotMutators, numMutatorToBeScan, ret, gcVars,
                 tasks, history>>

(* FUTEX_WAIT: sleep only if scanState still is kInScan.                   *)
FutexWait(m) ==
  /\ pc[m] = "futexWait"
  /\ Goto(m, IF scanState[m] = "in" THEN "asleep" ELSE "tryScan")
  /\ UNCHANGED <<worldVars, scanVars, ret, gcVars, tasks, history>>

(* The roots of a scanned stack become a mark task, if there are any.      *)
AddRoots(m) ==
  \/ tasks' = tasks \cup {m} /\ UNCHANGED history
  \/ marked' = marked \cup {m} /\ UNCHANGED <<tasks, cycle>>

(* Mutant: a stack without roots is not counted down.                      *)
MutatorScanEarlyReturn(m) ==
  /\ pc[m] = "scan"
  /\ AddRoots(m)
  /\ Goto(m, IF m \in marked' THEN "finish" ELSE "sub")
  /\ UNCHANGED <<worldVars, scanVars, ret, gcVars>>

(* ScanStackAndMark() in the mutator: the scan,                            *)
MutatorScan(m) ==
  /\ pc[m] = "scan"
  /\ AddRoots(m)
  /\ Goto(m, "sub")
  /\ UNCHANGED <<worldVars, scanVars, ret, gcVars>>

(* numMutatorToBeScan.fetch_sub(1),                                        *)
MutatorSub(m) ==
  /\ pc[m] = "sub"
  /\ numMutatorToBeScan' = numMutatorToBeScan - 1
  /\ Goto(m, IF numMutatorToBeScan = 1 THEN "notify" ELSE "finish")
  /\ UNCHANGED <<worldVars, scanState, snapshotMutators, ret, gcVars, tasks,
                 history>>

(* and concurrentPhaseBarrier.notify_all(), without snapshotMutex.         *)
MutatorNotify(m) ==
  /\ pc[m] = "notify"
  /\ gcPc' = IF gcPc = "blocked" THEN "waitPred" ELSE gcPc
  /\ Goto(m, "finish")
  /\ UNCHANGED <<worldVars, scanVars, ret, gcMutator, tasks, history>>

(* FinishStackScan(false).                                                 *)
MutatorFinish(m) ==
  /\ pc[m] = "finish"
  /\ scanState' = [scanState EXCEPT ![m] = "finish"]
  /\ Goto(m, "erase")
  /\ UNCHANGED <<worldVars, snapshotMutators, numMutatorToBeScan, ret, gcVars,
                 tasks, history>>

(* snapshotMutators.erase(), under snapshotMutex.                          *)
MutatorErase(m) ==
  /\ pc[m] = "erase"
  /\ ~SnapshotLocked
  /\ snapshotMutators' = snapshotMutators \ {m}
  /\ Goto(m, ret[m])
  /\ UNCHANGED <<worldVars, scanState, numMutatorToBeScan, ret, gcVars, tasks,
                 history>>

-----------------------------------------------------------------------------
(* The GC thread.                                                          *)

(* The two stop-the-world phases of ConcurrentMarkAndSweep().              *)
StopTheWorld ==
  /\ gcPc \in {"idle", "stop2"}
  /\ ~ListLocked
  /\ W!Stop
  /\ gcPc' = IF gcPc = "idle" THEN "roots" ELSE "cleanup"
  /\ UNCHANGED <<scanVars, pc, ret, gcMutator, tasks, history>>

StartTheWorld ==
  /\ gcPc \in {"start1", "start2"}
  /\ W!Start
  /\ gcPc' = IF gcPc = "start1" THEN "scan" ELSE "idle"
  /\ UNCHANGED <<scanVars, pc, ret, gcMutator, tasks, history>>

(* Mutant: the counter is set to one mutator less.                         *)
FastScanRootsShort ==
  /\ gcPc = "roots"
  /\ attached # {}
  /\ numMutatorToBeScan' = Cardinality(attached) - 1
  /\ scanState' = [m \in Mutators |-> IF m \in attached THEN "need"
                                                        ELSE scanState[m]]
  /\ snapshotMutators' = snapshotMutators \cup attached
  /\ cycle' = attached
  /\ marked' = {}
  /\ gcPc' = "start1"
  /\ UNCHANGED <<worldVars, pc, ret, gcMutator, tasks>>

FastScanRoots ==
  /\ gcPc = "roots"
  /\ numMutatorToBeScan' = Cardinality(attached)
  /\ scanState' = [m \in Mutators |-> IF m \in attached THEN "need"
                                                        ELSE scanState[m]]
  /\ snapshotMutators' = snapshotMutators \cup attached
  /\ cycle' = attached
  /\ marked' = {}
  /\ gcPc' = "start1"
  /\ UNCHANGED <<worldVars, pc, ret, gcMutator, tasks>>

(* ConcurrentStackScan(): take a mutator from the snapshot and try to set  *)
(* its scanState, under snapshotMutex.                                     *)
ConcurrentStackScan(m) ==
  /\ gcPc = "scan"
  /\ m \in snapshotMutators
  /\ snapshotMutators' = snapshotMutators \ {m}
  /\ IF scanState[m] = "need"
     THEN /\ scanState' = [scanState EXCEPT ![m] = "in"]
          /\ gcMutator' = m
          /\ gcPc' = "gcScan"
     ELSE UNCHANGED <<scanState, gcVars>>
  /\ UNCHANGED <<worldVars, numMutatorToBeScan, pc, ret, tasks, history>>

ConcurrentStackScanDone ==
  /\ gcPc = "scan"
  /\ snapshotMutators = {}
  /\ gcPc' = "mark"
  /\ UNCHANGED <<worldVars, scanVars, pc, ret, gcMutator, tasks, history>>

(* ScanStackAndMark() in the GC thread.                                    *)
GcScan ==
  /\ gcPc = "gcScan"
  /\ AddRoots(gcMutator)
  /\ gcPc' = "gcSub"
  /\ UNCHANGED <<worldVars, scanVars, pc, ret, gcMutator>>

(* fetch_sub(1); the notification finds nobody waiting.                    *)
GcSub ==
  /\ gcPc = "gcSub"
  /\ numMutatorToBeScan' = numMutatorToBeScan - 1
  /\ gcPc' = "gcFinish"
  /\ UNCHANGED <<worldVars, scanState, snapshotMutators, pc, ret, gcMutator,
                 tasks, history>>

(* FinishStackScan(true): the store, then FUTEX_WAKE.                      *)
GcFinish ==
  /\ gcPc = "gcFinish"
  /\ scanState' = [scanState EXCEPT ![gcMutator] = "finish"]
  /\ gcPc' = "gcWake"
  /\ UNCHANGED <<worldVars, snapshotMutators, numMutatorToBeScan, pc, ret,
                 gcMutator, tasks, history>>

(* Mutant: FinishStackScan(false) in the GC thread.                        *)
GcWakeNobody ==
  /\ gcPc = "gcWake"
  /\ gcMutator' = None
  /\ gcPc' = "scan"
  /\ UNCHANGED <<worldVars, scanVars, pc, ret, tasks, history>>

GcWake ==
  /\ gcPc = "gcWake"
  /\ pc' = [pc EXCEPT ![gcMutator] = IF @ = "asleep" THEN "tryScan" ELSE @]
  /\ gcMutator' = None
  /\ gcPc' = "scan"
  /\ UNCHANGED <<worldVars, scanVars, ret, tasks, history>>

(* Mutant: GetTaskNumber() is left out of the conditions for re-marking.   *)
MarkOnce ==
  /\ gcPc \in {"mark", "remark", "cleanup"}
  /\ marked' = IF gcPc = "mark" THEN marked \cup tasks ELSE marked
  /\ tasks' = IF gcPc = "mark" THEN {} ELSE tasks
  /\ gcPc' = CASE gcPc = "mark"    -> "check"
               [] gcPc = "remark"  -> "stop2"
               [] gcPc = "cleanup" -> "start2"
  /\ UNCHANGED <<worldVars, scanVars, pc, ret, gcMutator, cycle>>

(* The mark tasks are executed: WaitFinish() or DrainTaskQueue() in        *)
(* ConcurrentMark(), again in ConcurrentReMark() and, with the world       *)
(* stopped, in ConcurrentMarkCleanup(), which find tasks that mutators     *)
(* added later.                                                            *)
Mark ==
  /\ gcPc \in {"mark", "remark", "cleanup"}
  /\ marked' = marked \cup tasks
  /\ tasks' = {}
  /\ gcPc' = CASE gcPc = "mark"    -> "check"
               [] gcPc = "remark"  -> "stop2"
               [] gcPc = "cleanup" -> "start2"
  /\ UNCHANGED <<worldVars, scanVars, pc, ret, gcMutator, cycle>>

(* At the end of ConcurrentMark(), "wait if the mutator is scanning": the  *)
(* first check without snapshotMutex.                                      *)
ConcurrentMarkCheck ==
  /\ gcPc = "check"
  /\ gcPc' = IF numMutatorToBeScan # 0 THEN "waitPred" ELSE "remark"
  /\ UNCHANGED <<worldVars, scanVars, pc, ret, gcMutator, tasks, history>>

(* concurrentPhaseBarrier.wait(lk, pred): check, with the lock;            *)
WaitPred ==
  /\ gcPc = "waitPred"
  /\ gcPc' = IF numMutatorToBeScan = 0 THEN "remark" ELSE "waitSleep"
  /\ UNCHANGED <<worldVars, scanVars, pc, ret, gcMutator, tasks, history>>

(* release the lock and sleep.                                             *)
WaitSleep ==
  /\ gcPc = "waitSleep"
  /\ gcPc' = "blocked"
  /\ UNCHANGED <<worldVars, scanVars, pc, ret, gcMutator, tasks, history>>

-----------------------------------------------------------------------------
(* Steps a mutator takes inside StackScanBarrier().                        *)
Barrier(m) ==
  \/ StackScanBarrier(m) \/ TrySetScanState(m) \/ FutexWait(m)
  \/ MutatorScan(m) \/ MutatorSub(m) \/ MutatorNotify(m) \/ MutatorFinish(m)
  \/ MutatorErase(m)

(* Steps of a collection that do not wait for the world to stop.           *)
Collect ==
  \/ StartTheWorld \/ FastScanRoots
  \/ \E m \in Mutators : ConcurrentStackScan(m)
  \/ ConcurrentStackScanDone \/ GcScan \/ GcSub \/ GcFinish \/ GcWake
  \/ Mark \/ ConcurrentMarkCheck \/ WaitPred \/ WaitSleep

Next ==
  \/ \E m \in Mutators : \/ InitYieldpoint(m) \/ EnterSaferegion(m)
                         \/ LeaveSaferegion(m) \/ FiniYieldpoint(m)
                         \/ Barrier(m)
  \/ StopTheWorld
  \/ Collect

Spec == Init /\ [][Next]_vars

(* Threads that can go on are scheduled.  Nothing is assumed of mutators   *)
(* outside the barrier, nor of the start of a collection.                  *)
Fairness == WF_vars(Collect) /\ \A m \in Mutators : WF_vars(Barrier(m))

FairSpec == Spec /\ Fairness

-----------------------------------------------------------------------------
(* Properties.                                                             *)

TypeOK ==
  /\ attached \in SUBSET Mutators
  /\ running \in SUBSET attached
  /\ stopped \in BOOLEAN
  /\ scanState \in [Mutators -> {"need", "in", "finish"}]
  /\ snapshotMutators \in SUBSET Mutators
  /\ numMutatorToBeScan \in Nat
  /\ pc \in [Mutators -> BarrierPcs \cup {"absent", "managed", "native"}]
  /\ ret \in [Mutators -> {"managed", "absent"}]
  /\ gcPc \in {"idle", "roots", "start1", "scan", "gcScan", "gcSub",
               "gcFinish", "gcWake", "mark", "check", "waitPred",
               "waitSleep", "blocked", "remark", "stop2", "cleanup", "start2"}
  /\ gcMutator \in Mutators \cup {None}
  /\ tasks \in SUBSET Mutators
  /\ cycle \in SUBSET Mutators
  /\ marked \in SUBSET Mutators

(* Every mutator that TrySetScanState(false) may still find in             *)
(* snapshotMutators exists and has not left the barrier, the one that has  *)
(* scanned itself included: it is erased first.  While the GC thread scans *)
(* a mutator's stack that mutator changes nothing on it: it is in its      *)
(* saferegion or held up in the barrier, and does not scan it itself.      *)
StackFrozen ==
  /\ \A m \in snapshotMutators : pc[m] \notin {"managed", "absent"}
  /\ gcPc \in {"gcScan", "gcSub", "gcFinish"} =>
       pc[gcMutator] \in {"native", "barrier", "tryScan", "futexWait", "asleep"}

(* No mutator of the snapshot runs managed code, or ends, before its stack *)
(* has been scanned.                                                       *)
ScannedBeforeRunning ==
  \A m \in Mutators : pc[m] \in {"managed", "absent"} => scanState[m] = "finish"

(* numMutatorToBeScan counts the stacks still to be scanned, by whichever  *)
(* of the two threads: no stack is counted down twice or never.            *)
CountMatches ==
  numMutatorToBeScan =
    Cardinality({m \in Mutators :
                   \/ scanState[m] = "need"
                   \/ pc[m] \in {"scan", "sub"}
                   \/ gcPc \in {"gcScan", "gcSub"} /\ gcMutator = m})

(* When marking is declared finished, the roots of all stacks of the       *)
(* snapshot are marked, also those of mutators that scanned themselves     *)
(* after the thread pool had finished.                                     *)
AllRootsMarked == gcPc = "start2" => cycle \subseteq marked

(* The barrier holds up no mutator for ever.                               *)
BarrierReturns ==
  \A m \in Mutators :
    pc[m] = "barrier" ~> pc[m] \in {"managed", "absent"}

(* "Wait if the mutator is scanning the stack": the wait at the end of     *)
(* ConcurrentMark() ends once all stacks are scanned.                      *)
ConcurrentMarkReturns ==
  (gcPc \in {"waitPred", "waitSleep", "blocked"} /\ numMutatorToBeScan = 0)
    ~> gcPc = "remark"

=============================================================================
