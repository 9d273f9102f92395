----------------------------- MODULE Saferegion -----------------------------
(***************************************************************************)
(* Saferegions, yieldpoints and stop-the-world of the Maple runtime        *)
(* (saferegion.h, mutator_list.h, yieldpoint.h, yieldpoint.cpp).           *)
(*                                                                         *)
(* A mutator inside a saferegion promises not to touch managed objects.    *)
(* StopTheWorld() publishes the number of mutators as pendingCount, makes  *)
(* the polling page unreadable and sleeps on the futex saferegionCount     *)
(* until as many mutators are inside saferegions.  A mutator that leaves   *)
(* its saferegion while pendingCount is set sleeps on the futex            *)
(* pendingCount until StartTheWorld() clears it.                           *)
(*                                                                         *)
(* One step is one access to state that other threads use: an atomic       *)
(* operation on the two counters (they share one 64-bit word), a futex     *)
(* call, a lock operation, a critical section of mutatorListMutex that     *)
(* touches only what the lock protects.                                    *)
(***************************************************************************)
EXTENDS Naturals, FiniteSets

CONSTANTS
  Mutators,    \* threads that attach to the runtime as mutators
  GCThreads,   \* threads that stop the world without being mutators
  None,        \* no owner of a lock
  Runtime      \* the rest of the runtime, as owner of threadListLock

Threads == Mutators \cup GCThreads

ASSUME ThreadsAssumption ==
  /\ IsFiniteSet(Mutators)
  /\ Mutators \cap GCThreads = {}
  /\ {None, Runtime} \cap Threads = {}
  /\ None # Runtime

VARIABLES
  saferegionCount,         \* SaferegionState: mutators inside a saferegion
  pendingCount,            \* SaferegionState: mutators to wait for, or 0
  inSaferegion,            \* Mutator::inSaferegion of each mutator
  mutatorList,             \* the registered mutators
  listOwner,               \* owner of mutatorListMutex
  threadListOwner,         \* owner of the runtime's threadListLock
  stwOwner, stwDepth,      \* stwMutex, a recursive mutex
  pageReadable,            \* protection of globalPollingPage
  worldStopped,            \* the flag worldStopped
  saferegionStateChanged,  \* the global of that name
  pc,                      \* where each thread is
  ret,                     \* where DoEnter/DoLeaveSaferegion returns to
  last,                    \* local: old saferegionCount + 1 = old pendingCount
  curNum,                  \* local: the value given to FUTEX_WAIT
  saferegionEntered,       \* local of StopTheWorld()
  shouldLeaveSaferegion    \* local of StartTheWorld()

counters == <<saferegionCount, pendingCount>>
locks    == <<listOwner, threadListOwner, stwOwner, stwDepth>>
locals   == <<ret, last, curNum, saferegionEntered, shouldLeaveSaferegion>>
world    == <<pageReadable, worldStopped, saferegionStateChanged>>
vars     == <<counters, inSaferegion, mutatorList, locks, world, pc, locals>>

-----------------------------------------------------------------------------
(* Program points.                                                         *)

EnterPcs == {"enterInc", "enterSet", "enterWake"}
LeavePcs == {"leaveDec", "slowInc", "slowWake", "slowWait", "slowBlocked",
             "slowDec", "leaveSet", "yieldLeave"}
SlowPcs  == {"slowInc", "slowWake", "slowWait", "slowBlocked", "slowDec"}
StopPcs  == {"stwLock", "stwThreadList", "stwList", "stwPend", "stwPage",
             "stwLoad", "stwWait", "stwBlocked", "stwMark"}
StartPcs == {"startPage", "startPend", "startWake", "startList",
             "startThreadList", "startStw"}
HomePcs  == {"absent", "managed", "native", "idle", "gcRun"}
Pcs      == EnterPcs \cup LeavePcs \cup StopPcs \cup StartPcs \cup HomePcs
              \cup {"stopped", "removeFini", "fatal"}

(* A mutator here counts in saferegionCount.                               *)
CountedPcs == {"native", "enterSet", "enterWake", "yieldLeave", "leaveDec",
               "slowWake", "slowWait", "slowBlocked", "slowDec", "stopped"}
                \cup StopPcs \cup StartPcs

(* A mutator here cannot reach managed code without seeing pendingCount=0. *)
ParkedPcs  == CountedPcs \cup {"slowInc"}

Goto(t, l) == pc' = [pc EXCEPT ![t] = l]

(* FUTEX_WAKE with INT_MAX: every thread asleep at "from" goes on at "to". *)
WakeAndGoto(from, to, t, l) ==
  pc' = [u \in Threads |-> IF u = t THEN l
                           ELSE IF pc[u] = from THEN to ELSE pc[u]]

Init ==
  /\ saferegionCount = 0
  /\ pendingCount = 0
  /\ inSaferegion = [m \in Mutators |-> FALSE]
  /\ mutatorList = {}
  /\ listOwner = None
  /\ threadListOwner = None
  /\ stwOwner = None
  /\ stwDepth = 0
  /\ pageReadable = TRUE
  /\ worldStopped = FALSE
  /\ saferegionStateChanged = FALSE
  /\ pc = [t \in Threads |-> IF t \in Mutators THEN "absent" ELSE "idle"]
  /\ ret = [t \in Threads |-> "absent"]
  /\ last = [t \in Threads |-> FALSE]
  /\ curNum = [t \in Threads |-> 0]
  /\ saferegionEntered = [t \in Threads |-> FALSE]
  /\ shouldLeaveSaferegion = [t \in Threads |-> FALSE]

-----------------------------------------------------------------------------
(* Entering a saferegion: DoEnterSaferegion().  Its callers set pc to      *)
(* "enterInc" and ret to the point they go on at.                          *)

(* IncSaferegionCount(): the atomic add returns both counters.             *)
EnterInc(m) ==
  /\ pc[m] = "enterInc"
  /\ saferegionCount' = saferegionCount + 1
  /\ last' = [last EXCEPT ![m] = (saferegionCount + 1 = pendingCount)]
  /\ Goto(m, "enterSet")
  /\ UNCHANGED <<pendingCount, inSaferegion, mutatorList, locks, world, ret,
                 curNum, saferegionEntered, shouldLeaveSaferegion>>

(* SetInSaferegion(true), then the comparison with the counters as they    *)
(* were at the increment.                                                  *)
EnterSet(m) ==
  /\ pc[m] = "enterSet"
  /\ inSaferegion' = [inSaferegion EXCEPT ![m] = TRUE]
  /\ last' = [last EXCEPT ![m] = FALSE]
  /\ Goto(m, IF last[m] THEN "enterWake" ELSE ret[m])
  /\ UNCHANGED <<counters, mutatorList, locks, world, ret, curNum,
                 saferegionEntered, shouldLeaveSaferegion>>

(* EnterSaferegionSlowPath(): wake StopTheWorld().                         *)
EnterSaferegionSlowPath(m) ==
  /\ pc[m] = "enterWake"
  /\ WakeAndGoto("stwBlocked", "stwLoad", m, ret[m])
  /\ UNCHANGED <<counters, inSaferegion, mutatorList, locks, world, locals>>

-----------------------------------------------------------------------------
(* Leaving a saferegion: DoLeaveSaferegion(), LeaveSaferegionSlowPath().   *)

(* Mutant: a mutator that finds pendingCount set keeps its count, though   *)
(* the slow path counts it again.                                          *)
LeaveDecFastOnly(m) ==
  /\ pc[m] = "leaveDec"
  /\ saferegionCount' = IF pendingCount # 0 THEN saferegionCount
                                            ELSE saferegionCount - 1
  /\ Goto(m, IF pendingCount # 0 THEN "slowInc" ELSE "leaveSet")
  /\ UNCHANGED <<pendingCount, inSaferegion, mutatorList, locks, world,
                 locals>>

LeaveDec(m) ==
  /\ pc[m] = "leaveDec"
  /\ saferegionCount' = saferegionCount - 1
  /\ Goto(m, IF pendingCount # 0 THEN "slowInc" ELSE "leaveSet")
  /\ UNCHANGED <<pendingCount, inSaferegion, mutatorList, locks, world,
                 locals>>

(* Mutant: the slow path does not count the mutator again.                 *)
SlowIncUncounted(m) ==
  /\ pc[m] = "slowInc"
  /\ curNum' = [curNum EXCEPT ![m] = pendingCount]
  /\ Goto(m, IF pendingCount > 0 THEN "slowWait" ELSE "slowDec")
  /\ UNCHANGED <<counters, inSaferegion, mutatorList, locks, world, ret,
                 last, saferegionEntered, shouldLeaveSaferegion>>

(* Mutant: the slow path never wakes StopTheWorld().                       *)
SlowIncSilent(m) ==
  /\ pc[m] = "slowInc"
  /\ saferegionCount' = saferegionCount + 1
  /\ curNum' = [curNum EXCEPT ![m] = pendingCount]
  /\ Goto(m, IF pendingCount > 0 THEN "slowWait" ELSE "slowDec")
  /\ UNCHANGED <<pendingCount, inSaferegion, mutatorList, locks, world, ret,
                 last, saferegionEntered, shouldLeaveSaferegion>>

(* The mutator stays in its saferegion, so it counts itself again.         *)
SlowInc(m) ==
  /\ pc[m] = "slowInc"
  /\ saferegionCount' = saferegionCount + 1
  /\ curNum' = [curNum EXCEPT ![m] = pendingCount]
  /\ Goto(m, CASE saferegionCount + 1 = pendingCount -> "slowWake"
               [] /\ saferegionCount + 1 # pendingCount
                  /\ pendingCount > 0 -> "slowWait"
               [] OTHER -> "slowDec")
  /\ UNCHANGED <<pendingCount, inSaferegion, mutatorList, locks, world, ret,
                 last, saferegionEntered, shouldLeaveSaferegion>>

SlowWake(m) ==
  /\ pc[m] = "slowWake"
  /\ WakeAndGoto("stwBlocked", "stwLoad", m,
                 IF curNum[m] > 0 THEN "slowWait" ELSE "slowDec")
  /\ UNCHANGED <<counters, inSaferegion, mutatorList, locks, world, locals>>

(* FUTEX_WAIT: sleep only if pendingCount still is curNum.                 *)
SlowWait(m) ==
  /\ pc[m] = "slowWait"
  /\ Goto(m, IF pendingCount = curNum[m] THEN "slowBlocked" ELSE "slowDec")
  /\ curNum' = [curNum EXCEPT ![m] = 0]
  /\ UNCHANGED <<counters, inSaferegion, mutatorList, locks, world, ret, last,
                 saferegionEntered, shouldLeaveSaferegion>>

(* A futex wait may also end early: a signal, a stray wake-up.             *)
SlowInterrupted(m) ==
  /\ pc[m] = "slowBlocked"
  /\ Goto(m, "slowDec")
  /\ UNCHANGED <<counters, inSaferegion, mutatorList, locks, world, locals>>

(* Mutant: pendingCount is not looked at again after the wait.             *)
SlowDecUnchecked(m) ==
  /\ pc[m] = "slowDec"
  /\ saferegionCount' = saferegionCount - 1
  /\ curNum' = [curNum EXCEPT ![m] = 0]
  /\ Goto(m, "leaveSet")
  /\ UNCHANGED <<pendingCount, inSaferegion, mutatorList, locks, world, ret,
                 last, saferegionEntered, shouldLeaveSaferegion>>

SlowDec(m) ==
  /\ pc[m] = "slowDec"
  /\ saferegionCount' = saferegionCount - 1
  /\ curNum' = [curNum EXCEPT ![m] = 0]
  /\ Goto(m, IF pendingCount = 0 THEN "leaveSet" ELSE "slowInc")
  /\ UNCHANGED <<pendingCount, inSaferegion, mutatorList, locks, world, ret,
                 last, saferegionEntered, shouldLeaveSaferegion>>

(* SetInSaferegion(false) and return to managed code, or to RemoveMutator. *)
LeaveSet(m) ==
  /\ pc[m] = "leaveSet"
  /\ inSaferegion' = [inSaferegion EXCEPT ![m] = FALSE]
  /\ Goto(m, ret[m])
  /\ UNCHANGED <<counters, mutatorList, locks, world, locals>>

-----------------------------------------------------------------------------
(* What a mutator does by itself.                                          *)

(* Mutant: AddMutator() does not take the list lock.                       *)
InitYieldpointUnlocked(m) ==
  /\ pc[m] = "absent"
  /\ mutatorList' = mutatorList \cup {m}
  /\ Goto(m, IF inSaferegion[m] THEN "fatal" ELSE "enterInc")
  /\ ret' = [ret EXCEPT ![m] = "native"]
  /\ UNCHANGED <<counters, inSaferegion, locks, world, last, curNum,
                 saferegionEntered, shouldLeaveSaferegion>>

(* InitYieldpoint(): AddMutator() under the list lock, then                *)
(* EnterSaferegion(), which must find the mutator outside a saferegion.    *)
InitYieldpoint(m) ==
  /\ pc[m] = "absent"
  /\ listOwner = None
  /\ mutatorList' = mutatorList \cup {m}
  /\ Goto(m, IF inSaferegion[m] THEN "fatal" ELSE "enterInc")
  /\ ret' = [ret EXCEPT ![m] = "native"]
  /\ UNCHANGED <<counters, inSaferegion, locks, world, last, curNum,
                 saferegionEntered, shouldLeaveSaferegion>>

(* Managed code calls native code: MRT_EnterSaferegion().                  *)
MRT_EnterSaferegion(m) ==
  /\ pc[m] = "managed"
  /\ ~inSaferegion[m]
  /\ Goto(m, "enterInc")
  /\ ret' = [ret EXCEPT ![m] = "native"]
  /\ UNCHANGED <<counters, inSaferegion, mutatorList, locks, world, last,
                 curNum, saferegionEntered, shouldLeaveSaferegion>>

(* Native code returns to managed code: MRT_LeaveSaferegion().             *)
MRT_LeaveSaferegion(m) ==
  /\ pc[m] = "native"
  /\ inSaferegion[m]
  /\ Goto(m, "leaveDec")
  /\ ret' = [ret EXCEPT ![m] = "managed"]
  /\ UNCHANGED <<counters, inSaferegion, mutatorList, locks, world, last,
                 curNum, saferegionEntered, shouldLeaveSaferegion>>

(* Managed code loads from the unreadable polling page.  The signal        *)
(* handler diverts it to MRT_YieldpointHandler(), which enters a           *)
(* saferegion, unless the mutator is in one already.                       *)
Yieldpoint(m) ==
  /\ pc[m] = "managed"
  /\ ~pageReadable
  /\ ~inSaferegion[m]
  /\ Goto(m, "enterInc")
  /\ ret' = [ret EXCEPT ![m] = "yieldLeave"]
  /\ UNCHANGED <<counters, inSaferegion, mutatorList, locks, world, last,
                 curNum, saferegionEntered, shouldLeaveSaferegion>>

(* MRT_YieldpointHandler() leaves the saferegion it has just entered.      *)
YieldpointLeave(m) ==
  /\ pc[m] = "yieldLeave"
  /\ Goto(m, "leaveDec")
  /\ ret' = [ret EXCEPT ![m] = "managed"]
  /\ UNCHANGED <<counters, inSaferegion, mutatorList, locks, world, last,
                 curNum, saferegionEntered, shouldLeaveSaferegion>>

(* Mutant: RemoveMutator() does not leave the saferegion.                  *)
FiniYieldpointInside(m) ==
  /\ pc[m] = "native"
  /\ listOwner = None
  /\ listOwner' = m
  /\ mutatorList' = mutatorList \ {m}
  /\ Goto(m, IF inSaferegion[m] THEN "removeFini" ELSE "fatal")
  /\ UNCHANGED <<counters, inSaferegion, threadListOwner, stwOwner, stwDepth,
                 world, locals>>

(* Mutant: RemoveMutator() does not wait for the list lock.                *)
FiniYieldpointUnlocked(m) ==
  /\ pc[m] = "native"
  /\ listOwner' = m
  /\ mutatorList' = mutatorList \ {m}
  /\ Goto(m, IF inSaferegion[m] THEN "leaveDec" ELSE "fatal")
  /\ ret' = [ret EXCEPT ![m] = "removeFini"]
  /\ UNCHANGED <<counters, inSaferegion, threadListOwner, stwOwner, stwDepth,
                 world, last, curNum, saferegionEntered,
                 shouldLeaveSaferegion>>

(* FiniYieldpoint(): RemoveMutator() takes the list lock, removes the      *)
(* mutator and lets it leave its saferegion before the lock is released.   *)
FiniYieldpoint(m) ==
  /\ pc[m] = "native"
  /\ listOwner = None
  /\ listOwner' = m
  /\ mutatorList' = mutatorList \ {m}
  /\ Goto(m, IF inSaferegion[m] THEN "leaveDec" ELSE "fatal")
  /\ ret' = [ret EXCEPT ![m] = "removeFini"]
  /\ UNCHANGED <<counters, inSaferegion, threadListOwner, stwOwner, stwDepth,
                 world, last, curNum, saferegionEntered,
                 shouldLeaveSaferegion>>

(* Fini(), active = false, and the list lock is released.                  *)
RemoveMutatorFini(m) ==
  /\ pc[m] = "removeFini"
  /\ listOwner' = None
  /\ Goto(m, "absent")
  /\ UNCHANGED <<counters, inSaferegion, mutatorList, threadListOwner,
                 stwOwner, stwDepth, world, locals>>

-----------------------------------------------------------------------------
(* StopTheWorld().                                                         *)

(* Mutant: saferegionStateChanged is stored before the locks are taken.    *)
StopTheWorldEarlyStore(t) ==
  LET enter == t \in mutatorList /\ ~inSaferegion[t] IN
  /\ pc[t] \in {"managed", "native", "idle", "gcRun"}
  /\ saferegionEntered' = [saferegionEntered EXCEPT ![t] = enter]
  /\ saferegionStateChanged' = enter
  /\ ret' = [ret EXCEPT ![t] = IF enter THEN "stwLock" ELSE @]
  /\ Goto(t, IF enter THEN "enterInc" ELSE "stwLock")
  /\ UNCHANGED <<counters, inSaferegion, mutatorList, locks, pageReadable,
                 worldStopped, last, curNum, shouldLeaveSaferegion>>

(* The caller: a mutator that is not in a saferegion enters one first.     *)
StopTheWorld(t) ==
  LET enter == t \in mutatorList /\ ~inSaferegion[t] IN
  /\ pc[t] \in {"managed", "native", "idle", "gcRun"}
  /\ saferegionEntered' = [saferegionEntered EXCEPT ![t] = enter]
  /\ ret' = [ret EXCEPT ![t] = IF enter THEN "stwLock" ELSE @]
  /\ Goto(t, IF enter THEN "enterInc" ELSE "stwLock")
  /\ UNCHANGED <<counters, inSaferegion, mutatorList, locks, world, last,
                 curNum, shouldLeaveSaferegion>>

(* stwMutex.lock(): a recursive mutex.                                     *)
StwLock(t) ==
  /\ pc[t] = "stwLock"
  /\ stwOwner \in {None, t}
  /\ stwOwner' = t
  /\ stwDepth' = stwDepth + 1
  /\ Goto(t, "stwThreadList")
  /\ UNCHANGED <<counters, inSaferegion, mutatorList, listOwner,
                 threadListOwner, world, locals>>

(* The first spin loop, on threadListLock, succeeds.                       *)
StwThreadList(t) ==
  /\ pc[t] = "stwThreadList"
  /\ threadListOwner = None
  /\ threadListOwner' = t
  /\ Goto(t, "stwList")
  /\ UNCHANGED <<counters, inSaferegion, mutatorList, listOwner, stwOwner,
                 stwDepth, world, locals>>

(* The second, on mutatorListMutex, succeeds.  From here the list cannot   *)
(* change; an empty list is a stopped world.                               *)
StwMutatorList(t) ==
  /\ pc[t] = "stwList"
  /\ listOwner = None
  /\ listOwner' = t
  /\ saferegionStateChanged' = saferegionEntered[t]
  /\ worldStopped' = (worldStopped \/ mutatorList = {})
  /\ Goto(t, IF mutatorList = {} THEN "stopped" ELSE "stwPend")
  /\ UNCHANGED <<counters, inSaferegion, mutatorList, threadListOwner,
                 stwOwner, stwDepth, pageReadable, locals>>

(* Mutant: the calling thread is taken for one of the mutators to wait     *)
(* for, and left out.                                                      *)
StwSetPendingOthers(t) ==
  /\ pc[t] = "stwPend"
  /\ pendingCount' = Cardinality(mutatorList) - 1
  /\ Goto(t, "stwPage")
  /\ UNCHANGED <<saferegionCount, inSaferegion, mutatorList, locks, world,
                 locals>>

(* SetPendingCount(nMutators).                                             *)
StwSetPending(t) ==
  /\ pc[t] = "stwPend"
  /\ pendingCount' = Cardinality(mutatorList)
  /\ Goto(t, "stwPage")
  /\ UNCHANGED <<saferegionCount, inSaferegion, mutatorList, locks, world,
                 locals>>

SetPollingPageUnreadable(t) ==
  /\ pc[t] = "stwPage"
  /\ pageReadable' = FALSE
  /\ Goto(t, "stwLoad")
  /\ UNCHANGED <<counters, inSaferegion, mutatorList, locks, worldStopped,
                 saferegionStateChanged, locals>>

(* WaitForAllMutatorsStopped(): one load of both counters decides.         *)
StwLoad(t) ==
  /\ pc[t] = "stwLoad"
  /\ curNum' = [curNum EXCEPT ![t] = saferegionCount]
  /\ Goto(t, CASE pendingCount < saferegionCount -> "fatal"
               [] pendingCount = saferegionCount -> "stwMark"
               [] OTHER -> "stwWait")
  /\ UNCHANGED <<counters, inSaferegion, mutatorList, locks, world, ret, last,
                 saferegionEntered, shouldLeaveSaferegion>>

(* FUTEX_WAIT on saferegionCount: sleep only if it still is curNum.        *)
StwWait(t) ==
  /\ pc[t] = "stwWait"
  /\ Goto(t, IF saferegionCount = curNum[t] THEN "stwBlocked" ELSE "stwLoad")
  /\ curNum' = [curNum EXCEPT ![t] = 0]
  /\ UNCHANGED <<counters, inSaferegion, mutatorList, locks, world, ret, last,
                 saferegionEntered, shouldLeaveSaferegion>>

(* The futex wait times out (kStopTheWorldTimeoutMs) or is interrupted.    *)
StwTimeout(t) ==
  /\ pc[t] = "stwBlocked"
  /\ Goto(t, "stwLoad")
  /\ UNCHANGED <<counters, inSaferegion, mutatorList, locks, world, locals>>

(* worldStopped.store(true); StopTheWorld() returns.                       *)
StwMark(t) ==
  /\ pc[t] = "stwMark"
  /\ worldStopped' = TRUE
  /\ curNum' = [curNum EXCEPT ![t] = 0]
  /\ Goto(t, "stopped")
  /\ UNCHANGED <<counters, inSaferegion, mutatorList, locks, pageReadable,
                 saferegionStateChanged, ret, last, saferegionEntered,
                 shouldLeaveSaferegion>>

-----------------------------------------------------------------------------
(* StartTheWorld().                                                        *)

StartTheWorld(t) ==
  /\ pc[t] = "stopped"
  /\ shouldLeaveSaferegion' =
       [shouldLeaveSaferegion EXCEPT ![t] = saferegionStateChanged]
  /\ worldStopped' = FALSE
  /\ Goto(t, "startPage")
  /\ UNCHANGED <<counters, inSaferegion, mutatorList, locks, pageReadable,
                 saferegionStateChanged, ret, last, curNum,
                 saferegionEntered>>

SetPollingPageReadable(t) ==
  /\ pc[t] = "startPage"
  /\ pageReadable' = TRUE
  /\ Goto(t, "startPend")
  /\ UNCHANGED <<counters, inSaferegion, mutatorList, locks, worldStopped,
                 saferegionStateChanged, locals>>

(* SetPendingCount(0).                                                     *)
StartClearPending(t) ==
  /\ pc[t] = "startPend"
  /\ pendingCount' = 0
  /\ Goto(t, "startWake")
  /\ UNCHANGED <<saferegionCount, inSaferegion, mutatorList, locks, world,
                 locals>>

(* Mutant: the sleeping mutators are not woken.                            *)
StartWakeNobody(t) ==
  /\ pc[t] = "startWake"
  /\ Goto(t, "startList")
  /\ UNCHANGED <<counters, inSaferegion, mutatorList, locks, world, locals>>

(* FUTEX_WAKE on pendingCount.                                             *)
StartWake(t) ==
  /\ pc[t] = "startWake"
  /\ WakeAndGoto("slowBlocked", "slowDec", t, "startList")
  /\ UNCHANGED <<counters, inSaferegion, mutatorList, locks, world, locals>>

StartUnlockList(t) ==
  /\ pc[t] = "startList"
  /\ listOwner' = None
  /\ Goto(t, "startThreadList")
  /\ UNCHANGED <<counters, inSaferegion, mutatorList, threadListOwner,
                 stwOwner, stwDepth, world, locals>>

StartUnlockThreadList(t) ==
  /\ pc[t] = "startThreadList"
  /\ threadListOwner' = None
  /\ Goto(t, "startStw")
  /\ UNCHANGED <<counters, inSaferegion, mutatorList, listOwner, stwOwner,
                 stwDepth, world, locals>>

(* stwMutex.unlock(), and a mutator that had to enter a saferegion to stop *)
(* the world leaves it.                                                    *)
StartUnlockStw(t) ==
  LET leave == t \in mutatorList /\ shouldLeaveSaferegion[t]
                 /\ inSaferegion[t] IN
  /\ pc[t] = "startStw"
  /\ stwOwner' = IF stwDepth = 1 THEN None ELSE t
  /\ stwDepth' = stwDepth - 1
  /\ Goto(t, CASE leave -> "leaveDec"
               [] ~leave /\ t \in Mutators -> "native"
               [] OTHER -> IF stwDepth = 1 THEN "idle" ELSE "gcRun")
  /\ ret' = [ret EXCEPT ![t] = IF leave THEN "managed" ELSE @]
  /\ saferegionEntered' = [saferegionEntered EXCEPT ![t] = FALSE]
  /\ shouldLeaveSaferegion' = [shouldLeaveSaferegion EXCEPT ![t] = FALSE]
  /\ UNCHANGED <<counters, inSaferegion, mutatorList, listOwner,
                 threadListOwner, world, last, curNum>>

-----------------------------------------------------------------------------
(* The collector keeps others from stopping the world for a whole          *)
(* collection: LockStopTheWorld(), UnlockStopTheWorld().                   *)

LockStopTheWorld(t) ==
  /\ pc[t] = "idle"
  /\ stwOwner \in {None, t}
  /\ stwOwner' = t
  /\ stwDepth' = stwDepth + 1
  /\ Goto(t, "gcRun")
  /\ UNCHANGED <<counters, inSaferegion, mutatorList, listOwner,
                 threadListOwner, world, locals>>

UnlockStopTheWorld(t) ==
  /\ pc[t] = "gcRun"
  /\ stwOwner' = IF stwDepth = 1 THEN None ELSE t
  /\ stwDepth' = stwDepth - 1
  /\ Goto(t, "idle")
  /\ UNCHANGED <<counters, inSaferegion, mutatorList, listOwner,
                 threadListOwner, world, locals>>

(* External: other parts of the runtime hold threadListLock for a while.   *)
RuntimeThreadListLock ==
  /\ threadListOwner = None
  /\ threadListOwner' = Runtime
  /\ UNCHANGED <<counters, inSaferegion, mutatorList, listOwner, stwOwner,
                 stwDepth, world, pc, locals>>

RuntimeThreadListUnlock ==
  /\ threadListOwner = Runtime
  /\ threadListOwner' = None
  /\ UNCHANGED <<counters, inSaferegion, mutatorList, listOwner, stwOwner,
                 stwDepth, world, pc, locals>>

-----------------------------------------------------------------------------
(* Steps a mutator takes to enter and leave saferegions.                   *)
EnterLeave(m) ==
  \/ EnterInc(m) \/ EnterSet(m) \/ EnterSaferegionSlowPath(m)
  \/ LeaveDec(m) \/ SlowInc(m) \/ SlowWake(m) \/ SlowWait(m) \/ SlowDec(m)
  \/ LeaveSet(m) \/ YieldpointLeave(m) \/ RemoveMutatorFini(m)

(* Steps inside StopTheWorld() once pendingCount is to be set.             *)
Stopping(t) ==
  \/ StwSetPending(t) \/ SetPollingPageUnreadable(t) \/ StwLoad(t)
  \/ StwWait(t) \/ StwMark(t)

(* Steps inside StartTheWorld().                                           *)
Starting(t) ==
  \/ SetPollingPageReadable(t) \/ StartClearPending(t) \/ StartWake(t)
  \/ StartUnlockList(t) \/ StartUnlockThreadList(t) \/ StartUnlockStw(t)

MutatorNext(m) ==
  \/ EnterLeave(m) \/ SlowInterrupted(m)
  \/ InitYieldpoint(m) \/ FiniYieldpoint(m)
  \/ MRT_EnterSaferegion(m) \/ MRT_LeaveSaferegion(m) \/ Yieldpoint(m)

StwNext(t) ==
  \/ StopTheWorld(t) \/ StwLock(t) \/ StwThreadList(t) \/ StwMutatorList(t)
  \/ Stopping(t) \/ StwTimeout(t)
  \/ StartTheWorld(t) \/ Starting(t)

Next ==
  \/ \E m \in Mutators : MutatorNext(m)
  \/ \E t \in Threads : StwNext(t)
  \/ \E t \in GCThreads : LockStopTheWorld(t) \/ UnlockStopTheWorld(t)
  \/ RuntimeThreadListLock
  \/ RuntimeThreadListUnlock

Spec == Init /\ [][Next]_vars

(* A thread that is not blocked is scheduled, and managed code reaches a   *)
(* yieldpoint: the compiler puts one in every loop and method.  Nothing is *)
(* assumed of time-outs, interrupted waits or calls of the operations.     *)
Fairness ==
  /\ \A m \in Mutators : WF_vars(EnterLeave(m)) /\ WF_vars(Yieldpoint(m))
  /\ \A t \in Threads : WF_vars(Stopping(t)) /\ WF_vars(Starting(t))

FairSpec == Spec /\ Fairness

-----------------------------------------------------------------------------
(* Properties.                                                             *)

TypeOK ==
  /\ saferegionCount \in Nat
  /\ pendingCount \in Nat
  /\ inSaferegion \in [Mutators -> BOOLEAN]
  /\ mutatorList \in SUBSET Mutators
  /\ listOwner \in Threads \cup {None}
  /\ threadListOwner \in Threads \cup {None, Runtime}
  /\ stwOwner \in Threads \cup {None}
  /\ stwDepth \in Nat
  /\ pageReadable \in BOOLEAN
  /\ worldStopped \in BOOLEAN
  /\ saferegionStateChanged \in BOOLEAN
  /\ pc \in [Threads -> Pcs]
  /\ ret \in [Threads -> Pcs]
  /\ last \in [Threads -> BOOLEAN]
  /\ curNum \in [Threads -> Nat]
  /\ saferegionEntered \in [Threads -> BOOLEAN]
  /\ shouldLeaveSaferegion \in [Threads -> BOOLEAN]

(* The mutators that count in saferegionCount.                             *)
Counted == {m \in Mutators : pc[m] \in CountedPcs}

(* saferegionCount is exactly the number of mutators between an increment  *)
(* and the next decrement, whatever paths they took: it never underflows   *)
(* into pendingCount, the other half of the 64-bit word.                   *)
CountExact == saferegionCount = Cardinality(Counted)

(* While worldStopped is set every registered mutator sits in a saferegion *)
(* and cannot get out of it: none runs managed code, none is on its way    *)
(* from a decrement that saw pendingCount = 0 to managed code.             *)
StoppedWorldIsQuiet ==
  worldStopped => \A m \in mutatorList : pc[m] \in ParkedPcs

(* No path reaches LOG(FATAL): pendingCount < saferegionCount in           *)
(* WaitForAllMutatorsStopped(), the states InitYieldpoint() and            *)
(* FiniYieldpoint() reject.  (The ones after 30 s of waiting are left out.)*)
NoFatal == \A t \in Threads : pc[t] # "fatal"

(* The global saferegionStateChanged still is what this thread's own       *)
(* StopTheWorld() stored when StartTheWorld() reads it, whoever called     *)
(* StopTheWorld() meanwhile.                                               *)
OwnStateRestored ==
  \A t \in Threads :
    pc[t] = "stopped" => saferegionStateChanged = saferegionEntered[t]

(* A mutator that holds the list lock never waits in                       *)
(* LeaveSaferegionSlowPath() for a StartTheWorld() that waits for the same *)
(* lock: RemoveMutator() leaves the saferegion with the lock held, and is  *)
(* right that no stop-the-world is pending then.                           *)
ListHolderNeverBlocks ==
  \A m \in Mutators : listOwner = m => pc[m] \notin SlowPcs

(* Threads that attach or detach while the world is stopping or stopped    *)
(* wait: the number of mutators taken as pendingCount stays right.         *)
ListFrozen == [][pendingCount # 0 => UNCHANGED mutatorList]_vars

(* Signals do not end the futex waits of blocked mutators over and over.   *)
InterruptsCease == <>[][\A m \in Mutators : ~SlowInterrupted(m)]_vars

(* StopTheWorld() returns: no wake-up on saferegionCount is lost and every *)
(* mutator reaches a saferegion, without the help of the futex time-out.   *)
StopCompletes ==
  InterruptsCease =>
    \A t \in Threads : pc[t] = "stwPend" ~> pc[t] = "stopped"

(* Once the world is no longer being stopped, no mutator stays blocked in  *)
(* LeaveSaferegionSlowPath(): no wake-up on pendingCount is lost.          *)
BlockedMutatorsResume ==
  \A m \in Mutators :
    <>[](pendingCount = 0) => []<>(pc[m] \notin LeavePcs)

-----------------------------------------------------------------------------
(* Stop-the-world as module World describes it.  A mutator is running when *)
(* it is registered and not parked.                                        *)
Running == {m \in mutatorList : pc[m] \notin ParkedPcs}

W == INSTANCE World WITH
       attached <- mutatorList, running <- Running, stopped <- worldStopped

(* The protocol implements World: every step is one of its steps or        *)
(* changes nothing it can see.                                             *)
ImplementsWorld == W!Spec
=============================================================================
