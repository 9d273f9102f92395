-------------------------- MODULE SaferegionProofs --------------------------
(***************************************************************************)
(* Proofs about module Saferegion, for any set of threads.                 *)
(*                                                                         *)
(* IInv is inductive.  Shape is all of it but the count: the part in which *)
(* a step only moves one thread.  CountExact needs cardinalities: a step   *)
(* leaves the set Counted alone, adds one mutator or removes one.          *)
(***************************************************************************)
EXTENDS Saferegion, FiniteSetTheorems, TLAPS

-----------------------------------------------------------------------------
(* The inductive invariant.                                                *)

(* RemoveMutator() has taken m off the list and still holds the list lock. *)
Removing(m) ==
  \/ pc[m] = "removeFini"
  \/ pc[m] \in LeavePcs /\ ret[m] = "removeFini"

(* A thread here holds mutatorListMutex for stop-the-world.                *)
PendPcs == {"stwPage", "stwLoad", "stwWait", "stwBlocked", "stwMark",
            "stopped", "startPage", "startPend"}
HoldListPcs == PendPcs \cup {"stwPend", "startWake", "startList"}

(* A thread here owns stwMutex.                                            *)
HoldStwPcs == HoldListPcs \cup {"stwThreadList", "stwList", "startThreadList",
                                "startStw", "gcRun"}

(* Where a mutator, and a thread that is none, can be and return to.       *)
PcInv ==
  /\ \A m \in Mutators :
       /\ pc[m] \notin {"idle", "gcRun", "fatal"}
       /\ pc[m] \in EnterPcs => ret[m] \in {"native", "yieldLeave", "stwLock"}
       /\ pc[m] \in LeavePcs \ {"yieldLeave"}
            => ret[m] \in {"managed", "removeFini"}
       /\ pc[m] = "yieldLeave" => ret[m] = "yieldLeave"
  /\ \A g \in GCThreads :
       pc[g] \in {"idle", "gcRun", "stopped"} \cup StopPcs \cup StartPcs

(* The flag of a mutator follows its program point.                        *)
FlagInv ==
  \A m \in Mutators :
    inSaferegion[m] <=>
      pc[m] \notin {"absent", "managed", "enterInc", "enterSet", "removeFini"}

ListInv ==
  \A m \in Mutators :
    m \in mutatorList <=> pc[m] # "absent" /\ ~Removing(m)

ListLockInv ==
  \A t \in Threads :
    listOwner = t <=> pc[t] \in HoldListPcs \/ Removing(t)

StwLockInv ==
  \A t \in Threads : pc[t] \in HoldStwPcs => stwOwner = t /\ stwDepth > 0

PendingInv ==
  /\ \A t \in Threads :
       pc[t] \in PendPcs => pendingCount = Cardinality(mutatorList)
  /\ pendingCount # 0 => \E t \in Threads : pc[t] \in PendPcs

QuietInv ==
  \A t \in Threads :
    pc[t] \in {"stwMark", "stopped", "startPage", "startPend"} =>
      \A m \in mutatorList : pc[m] \in ParkedPcs

StoppedInv ==
  worldStopped <=> \E t \in Threads : pc[t] = "stopped"

RestoreInv ==
  \A t \in Threads :
    pc[t] \in {"stwPend", "stwPage", "stwLoad", "stwWait", "stwBlocked",
               "stwMark", "stopped"} =>
      saferegionStateChanged = saferegionEntered[t]

(* All but the count.                                                      *)
Shape ==
  /\ TypeOK
  /\ PcInv /\ FlagInv
  /\ ListInv /\ ListLockInv /\ StwLockInv
  /\ PendingInv /\ QuietInv
  /\ StoppedInv /\ RestoreInv

IInv == Shape /\ CountExact

USE ThreadsAssumption
    DEF Threads, Goto, WakeAndGoto, counters, locks, world, locals, Pcs,
        EnterPcs, LeavePcs, StopPcs, StartPcs, HomePcs, CountedPcs, ParkedPcs,
        Removing, PendPcs, HoldListPcs, HoldStwPcs

-----------------------------------------------------------------------------
(* The count.                                                              *)

(* The sets that are counted are finite.                                   *)
LEMMA FiniteCounts ==
  ASSUME TypeOK
  PROVE  /\ IsFiniteSet(Counted) /\ Cardinality(Counted) \in Nat
         /\ IsFiniteSet(mutatorList) /\ Cardinality(mutatorList) \in Nat
<1>1. Counted \in SUBSET Mutators /\ mutatorList \in SUBSET Mutators
  BY DEF TypeOK, Counted
<1> QED
  BY <1>1, FS_Subset, FS_CardinalityType

(* A step that moves no mutator into or out of Counted.                    *)
LEMMA CountKept ==
  ASSUME CountExact, UNCHANGED <<saferegionCount, Counted>>
  PROVE  CountExact'
BY DEF CountExact

(* An increment of saferegionCount by a mutator that was not counted.      *)
LEMMA CountUp ==
  ASSUME TypeOK, CountExact, NEW m \in Mutators, m \notin Counted,
         Counted' = Counted \cup {m}, saferegionCount' = saferegionCount + 1
  PROVE  CountExact'
BY FiniteCounts, FS_AddElement DEF CountExact

(* A decrement by a mutator that was counted; the count was not 0.         *)
LEMMA CountDown ==
  ASSUME TypeOK, CountExact, NEW m \in Counted,
         Counted' = Counted \ {m}, saferegionCount' = saferegionCount - 1
  PROVE  CountExact' /\ saferegionCount' \in Nat
<1>1. /\ IsFiniteSet(Counted \ {m})
      /\ Cardinality(Counted \ {m}) = Cardinality(Counted) - 1
  BY FiniteCounts, FS_RemoveElement
<1>2. Cardinality(Counted \ {m}) \in Nat
  BY <1>1, FS_CardinalityType
<1> QED
  BY <1>1, <1>2 DEF CountExact

(* While stop-the-world holds the list lock nobody is being removed, so    *)
(* every counted mutator is on the list: pendingCount cannot be less than  *)
(* saferegionCount, and if they are equal every mutator is counted.        *)
LEMMA CountBelowPending ==
  ASSUME IInv, NEW t \in Threads, pc[t] \in PendPcs
  PROVE  /\ saferegionCount <= pendingCount
         /\ saferegionCount = pendingCount => Counted = mutatorList
<1>1. Counted \in SUBSET mutatorList
  BY DEF IInv, Shape, ListInv, ListLockInv, Counted
<1>2. pendingCount = Cardinality(mutatorList)
  BY DEF IInv, Shape, PendingInv
<1>3. saferegionCount = Cardinality(Counted)
  BY DEF IInv, CountExact
<1>4. IsFiniteSet(mutatorList)
  BY FiniteCounts DEF IInv, Shape
<1> QED
  BY <1>1, <1>2, <1>3, <1>4, FS_Subset

-----------------------------------------------------------------------------
(* Each action preserves IInv.                                             *)

(* The steps of entering and leaving a saferegion.                         *)
LEMMA EnterLeaveStep ==
  ASSUME IInv, NEW m \in Mutators, EnterLeave(m)
  PROVE  IInv'
<1> USE DEF IInv, Shape, TypeOK, PcInv, FlagInv, ListInv, ListLockInv,
            StwLockInv, PendingInv, QuietInv, StoppedInv, RestoreInv
<1>1. CASE EnterInc(m)
  <2>1. Shape'
    BY <1>1 DEF EnterInc
  <2>2. m \notin Counted /\ Counted' = Counted \cup {m}
    BY <1>1 DEF EnterInc, Counted
  <2> QED
    BY <1>1, <2>1, <2>2, CountUp DEF EnterInc
<1>2. CASE EnterSet(m)
  <2>1. Shape' /\ UNCHANGED <<saferegionCount, Counted>>
    BY <1>2 DEF EnterSet, Counted
  <2> QED
    BY <2>1, CountKept DEF IInv
<1>3. CASE EnterSaferegionSlowPath(m)
  <2>1. TypeOK' /\ PcInv' /\ FlagInv'
    BY <1>3 DEF EnterSaferegionSlowPath
  <2>2. ListInv' /\ ListLockInv' /\ StwLockInv'
    BY <1>3 DEF EnterSaferegionSlowPath
  <2>3. PendingInv' /\ QuietInv'
    BY <1>3 DEF EnterSaferegionSlowPath
  <2>4. StoppedInv' /\ RestoreInv'
    BY <1>3 DEF EnterSaferegionSlowPath
  <2>5. UNCHANGED <<saferegionCount, Counted>>
    BY <1>3 DEF EnterSaferegionSlowPath, Counted
  <2> QED
    BY <2>1, <2>2, <2>3, <2>4, <2>5, CountKept
<1>4. CASE LeaveDec(m)
  <2>1. m \in Counted /\ Counted' = Counted \ {m}
    BY <1>4 DEF LeaveDec, Counted
  <2>2. CountExact' /\ saferegionCount' \in Nat
    BY <1>4, <2>1, CountDown DEF LeaveDec
  <2>3. pc[m] \in LeavePcs /\ (pc'[m] \notin ParkedPcs => pendingCount = 0)
    BY <1>4 DEF LeaveDec
  <2>4. ASSUME NEW t \in Threads, pc[t] \in PendPcs, m \in mutatorList
        PROVE  pendingCount # 0
    BY <2>4, FiniteCounts, FS_EmptySet
  <2>5. QuietInv'
    BY <1>4, <2>3, <2>4 DEF LeaveDec
  <2>6. /\ TypeOK' /\ PcInv' /\ FlagInv'
        /\ ListInv' /\ ListLockInv' /\ StwLockInv'
    BY <1>4, <2>2 DEF LeaveDec
  <2>7. PendingInv' /\ StoppedInv' /\ RestoreInv'
    BY <1>4 DEF LeaveDec
  <2> QED
    BY <2>2, <2>5, <2>6, <2>7
<1>5. CASE SlowInc(m)
  <2>1. Shape'
    BY <1>5 DEF SlowInc
  <2>2. m \notin Counted /\ Counted' = Counted \cup {m}
    BY <1>5 DEF SlowInc, Counted
  <2> QED
    BY <1>5, <2>1, <2>2, CountUp DEF SlowInc
<1>6. CASE SlowWake(m)
  <2>1. TypeOK' /\ PcInv' /\ FlagInv'
    BY <1>6 DEF SlowWake
  <2>2. ListInv' /\ ListLockInv' /\ StwLockInv'
    BY <1>6 DEF SlowWake
  <2>3. PendingInv' /\ QuietInv'
    BY <1>6 DEF SlowWake
  <2>4. StoppedInv' /\ RestoreInv'
    BY <1>6 DEF SlowWake
  <2>5. UNCHANGED <<saferegionCount, Counted>>
    BY <1>6 DEF SlowWake, Counted
  <2> QED
    BY <2>1, <2>2, <2>3, <2>4, <2>5, CountKept
<1>7. CASE SlowWait(m)
  <2>1. Shape' /\ UNCHANGED <<saferegionCount, Counted>>
    BY <1>7 DEF SlowWait, Counted
  <2> QED
    BY <2>1, CountKept DEF IInv
<1>8. CASE SlowDec(m)
  <2>1. m \in Counted /\ Counted' = Counted \ {m}
    BY <1>8 DEF SlowDec, Counted
  <2>2. CountExact' /\ saferegionCount' \in Nat
    BY <1>8, <2>1, CountDown DEF SlowDec
  <2>3. pc[m] \in LeavePcs /\ (pc'[m] \notin ParkedPcs => pendingCount = 0)
    BY <1>8 DEF SlowDec
  <2>4. ASSUME NEW t \in Threads, pc[t] \in PendPcs, m \in mutatorList
        PROVE  pendingCount # 0
    BY <2>4, FiniteCounts, FS_EmptySet
  <2>5. QuietInv'
    BY <1>8, <2>3, <2>4 DEF SlowDec
  <2>6. /\ TypeOK' /\ PcInv' /\ FlagInv'
        /\ ListInv' /\ ListLockInv' /\ StwLockInv'
    BY <1>8, <2>2 DEF SlowDec
  <2>7. PendingInv' /\ StoppedInv' /\ RestoreInv'
    BY <1>8 DEF SlowDec
  <2> QED
    BY <2>2, <2>5, <2>6, <2>7
<1>9. CASE LeaveSet(m)
  <2>1. Shape' /\ UNCHANGED <<saferegionCount, Counted>>
    BY <1>9 DEF LeaveSet, Counted
  <2> QED
    BY <2>1, CountKept DEF IInv
<1>10. CASE YieldpointLeave(m)
  <2>1. Shape' /\ UNCHANGED <<saferegionCount, Counted>>
    BY <1>10 DEF YieldpointLeave, Counted
  <2> QED
    BY <2>1, CountKept DEF IInv
<1>11. CASE RemoveMutatorFini(m)
  <2>1. Shape' /\ UNCHANGED <<saferegionCount, Counted>>
    BY <1>11 DEF RemoveMutatorFini, Counted
  <2> QED
    BY <2>1, CountKept DEF IInv
<1> QED
  BY <1>1, <1>2, <1>3, <1>4, <1>5, <1>6, <1>7, <1>8, <1>9, <1>10, <1>11
  DEF EnterLeave

(* The other steps of a mutator.                                            *)
LEMMA MutatorStep ==
  ASSUME IInv, NEW m \in Mutators, MutatorNext(m)
  PROVE  IInv'
<1> USE DEF IInv, Shape, TypeOK, PcInv, FlagInv, ListInv, ListLockInv,
            StwLockInv, PendingInv, QuietInv, StoppedInv, RestoreInv
<1>1. CASE EnterLeave(m)
  BY <1>1, EnterLeaveStep
<1>2. CASE SlowInterrupted(m)
  <2>1. Shape' /\ UNCHANGED <<saferegionCount, Counted>>
    BY <1>2 DEF SlowInterrupted, Counted
  <2> QED
    BY <2>1, CountKept DEF IInv
<1>3. CASE InitYieldpoint(m)
  <2>1. Shape' /\ UNCHANGED <<saferegionCount, Counted>>
    BY <1>3 DEF InitYieldpoint, Counted
  <2> QED
    BY <2>1, CountKept DEF IInv
<1>4. CASE FiniYieldpoint(m)
  <2>1. Shape' /\ UNCHANGED <<saferegionCount, Counted>>
    BY <1>4 DEF FiniYieldpoint, Counted
  <2> QED
    BY <2>1, CountKept DEF IInv
<1>5. CASE MRT_EnterSaferegion(m)
  <2>1. Shape' /\ UNCHANGED <<saferegionCount, Counted>>
    BY <1>5 DEF MRT_EnterSaferegion, Counted
  <2> QED
    BY <2>1, CountKept DEF IInv
<1>6. CASE MRT_LeaveSaferegion(m)
  <2>1. Shape' /\ UNCHANGED <<saferegionCount, Counted>>
    BY <1>6 DEF MRT_LeaveSaferegion, Counted
  <2> QED
    BY <2>1, CountKept DEF IInv
<1>7. CASE Yieldpoint(m)
  <2>1. Shape' /\ UNCHANGED <<saferegionCount, Counted>>
    BY <1>7 DEF Yieldpoint, Counted
  <2> QED
    BY <2>1, CountKept DEF IInv
<1> QED
  BY <1>1, <1>2, <1>3, <1>4, <1>5, <1>6, <1>7 DEF MutatorNext

(* The steps of StopTheWorld() after it has the list lock.                  *)
LEMMA StoppingStep ==
  ASSUME IInv, NEW t \in Threads, Stopping(t)
  PROVE  IInv'
<1> USE DEF IInv, Shape, TypeOK, PcInv, FlagInv, ListInv, ListLockInv,
            StwLockInv, PendingInv, QuietInv, StoppedInv, RestoreInv
<1>1. CASE StwSetPending(t)
  <2>1. TypeOK' /\ PcInv' /\ FlagInv'
    BY <1>1, FiniteCounts DEF StwSetPending
  <2>2. ListInv' /\ ListLockInv' /\ StwLockInv'
    BY <1>1, FiniteCounts DEF StwSetPending
  <2>3. PendingInv' /\ QuietInv'
    BY <1>1, FiniteCounts DEF StwSetPending
  <2>4. StoppedInv' /\ RestoreInv'
    BY <1>1, FiniteCounts DEF StwSetPending
  <2>5. UNCHANGED <<saferegionCount, Counted>>
    BY <1>1, FiniteCounts DEF StwSetPending, Counted
  <2> QED
    BY <2>1, <2>2, <2>3, <2>4, <2>5, CountKept
<1>2. CASE SetPollingPageUnreadable(t)
  <2>1. TypeOK' /\ PcInv' /\ FlagInv'
    BY <1>2 DEF SetPollingPageUnreadable
  <2>2. ListInv' /\ ListLockInv' /\ StwLockInv'
    BY <1>2 DEF SetPollingPageUnreadable
  <2>3. PendingInv' /\ QuietInv'
    BY <1>2 DEF SetPollingPageUnreadable
  <2>4. StoppedInv' /\ RestoreInv'
    BY <1>2 DEF SetPollingPageUnreadable
  <2>5. UNCHANGED <<saferegionCount, Counted>>
    BY <1>2 DEF SetPollingPageUnreadable, Counted
  <2> QED
    BY <2>1, <2>2, <2>3, <2>4, <2>5, CountKept
<1>3. CASE StwLoad(t)
  <2> HIDE DEF IInv, Shape
  <2>1. /\ saferegionCount <= pendingCount
        /\ saferegionCount = pendingCount => Counted = mutatorList
    BY <1>3, CountBelowPending DEF StwLoad
  <2> USE DEF IInv, Shape
  <2>2. /\ ~(pendingCount < saferegionCount)
        /\ pc' = [pc EXCEPT ![t] =
                    CASE pendingCount < saferegionCount -> "fatal"
                      [] pendingCount = saferegionCount -> "stwMark"
                      [] OTHER -> "stwWait"]
    BY <1>3, <2>1 DEF StwLoad
  <2>3. \/ pendingCount = saferegionCount /\ pc' = [pc EXCEPT ![t] = "stwMark"]
        \/ pendingCount # saferegionCount /\ pc' = [pc EXCEPT ![t] = "stwWait"]
    BY <2>2
  <2>4. TypeOK' /\ PcInv' /\ FlagInv'
    BY <1>3, <2>3 DEF StwLoad
  <2>5. ListInv' /\ ListLockInv' /\ StwLockInv'
    BY <1>3, <2>3 DEF StwLoad
  <2>6. PendingInv' /\ StoppedInv' /\ RestoreInv'
    BY <1>3, <2>3 DEF StwLoad
  <2>7. QuietInv'
    BY <1>3, <2>3, <2>1 DEF StwLoad, Counted
  <2>8. UNCHANGED <<saferegionCount, Counted>>
    BY <1>3, <2>3 DEF StwLoad, Counted
  <2> QED
    BY <2>4, <2>5, <2>6, <2>7, <2>8, CountKept
<1>4. CASE StwWait(t)
  <2>1. Shape' /\ UNCHANGED <<saferegionCount, Counted>>
    BY <1>4 DEF StwWait, Counted
  <2> QED
    BY <2>1, CountKept DEF IInv
<1>5. CASE StwMark(t)
  <2>1. Shape' /\ UNCHANGED <<saferegionCount, Counted>>
    BY <1>5 DEF StwMark, Counted
  <2> QED
    BY <2>1, CountKept DEF IInv
<1> QED
  BY <1>1, <1>2, <1>3, <1>4, <1>5 DEF Stopping

(* The steps of StartTheWorld() after it has cleared worldStopped.          *)
LEMMA StartingStep ==
  ASSUME IInv, NEW t \in Threads, Starting(t)
  PROVE  IInv'
<1> USE DEF IInv, Shape, TypeOK, PcInv, FlagInv, ListInv, ListLockInv,
            StwLockInv, PendingInv, QuietInv, StoppedInv, RestoreInv
<1>1. CASE SetPollingPageReadable(t)
  <2>1. Shape' /\ UNCHANGED <<saferegionCount, Counted>>
    BY <1>1 DEF SetPollingPageReadable, Counted
  <2> QED
    BY <2>1, CountKept DEF IInv
<1>2. CASE StartClearPending(t)
  <2>1. Shape' /\ UNCHANGED <<saferegionCount, Counted>>
    BY <1>2 DEF StartClearPending, Counted
  <2> QED
    BY <2>1, CountKept DEF IInv
<1>3. CASE StartWake(t)
  <2>1. TypeOK' /\ PcInv' /\ FlagInv'
    BY <1>3 DEF StartWake
  <2>2. ListInv' /\ ListLockInv' /\ StwLockInv'
    BY <1>3 DEF StartWake
  <2>3. PendingInv' /\ QuietInv'
    BY <1>3 DEF StartWake
  <2>4. StoppedInv' /\ RestoreInv'
    BY <1>3 DEF StartWake
  <2>5. UNCHANGED <<saferegionCount, Counted>>
    BY <1>3 DEF StartWake, Counted
  <2> QED
    BY <2>1, <2>2, <2>3, <2>4, <2>5, CountKept
<1>4. CASE StartUnlockList(t)
  <2>1. Shape' /\ UNCHANGED <<saferegionCount, Counted>>
    BY <1>4 DEF StartUnlockList, Counted
  <2> QED
    BY <2>1, CountKept DEF IInv
<1>5. CASE StartUnlockThreadList(t)
  <2>1. Shape' /\ UNCHANGED <<saferegionCount, Counted>>
    BY <1>5 DEF StartUnlockThreadList, Counted
  <2> QED
    BY <2>1, CountKept DEF IInv
<1>6. CASE StartUnlockStw(t)
  <2>1. TypeOK' /\ PcInv' /\ FlagInv'
    BY <1>6 DEF StartUnlockStw
  <2>2. ListInv' /\ ListLockInv' /\ StwLockInv'
    BY <1>6 DEF StartUnlockStw
  <2>3. PendingInv' /\ QuietInv'
    BY <1>6 DEF StartUnlockStw
  <2>4. StoppedInv' /\ RestoreInv'
    BY <1>6 DEF StartUnlockStw
  <2>5. UNCHANGED <<saferegionCount, Counted>>
    BY <1>6 DEF StartUnlockStw, Counted
  <2> QED
    BY <2>1, <2>2, <2>3, <2>4, <2>5, CountKept
<1> QED
  BY <1>1, <1>2, <1>3, <1>4, <1>5, <1>6 DEF Starting

(* Every step of a thread that stops and starts the world.                  *)
LEMMA StwStep ==
  ASSUME IInv, NEW t \in Threads, StwNext(t)
  PROVE  IInv'
<1> USE DEF IInv, Shape, TypeOK, PcInv, FlagInv, ListInv, ListLockInv,
            StwLockInv, PendingInv, QuietInv, StoppedInv, RestoreInv
<1>1. CASE StopTheWorld(t)
  <2>1. Shape' /\ UNCHANGED <<saferegionCount, Counted>>
    BY <1>1 DEF StopTheWorld, Counted
  <2> QED
    BY <2>1, CountKept DEF IInv
<1>2. CASE StwLock(t)
  <2>1. Shape' /\ UNCHANGED <<saferegionCount, Counted>>
    BY <1>2 DEF StwLock, Counted
  <2> QED
    BY <2>1, CountKept DEF IInv
<1>3. CASE StwThreadList(t)
  <2>1. Shape' /\ UNCHANGED <<saferegionCount, Counted>>
    BY <1>3 DEF StwThreadList, Counted
  <2> QED
    BY <2>1, CountKept DEF IInv
<1>4. CASE StwMutatorList(t)
  <2>1. TypeOK' /\ PcInv' /\ FlagInv'
    BY <1>4 DEF StwMutatorList
  <2>2. ListInv' /\ ListLockInv' /\ StwLockInv'
    BY <1>4 DEF StwMutatorList
  <2>3. PendingInv' /\ QuietInv'
    BY <1>4, FS_EmptySet DEF StwMutatorList
  <2>4. StoppedInv' /\ RestoreInv'
    BY <1>4 DEF StwMutatorList
  <2>5. UNCHANGED <<saferegionCount, Counted>>
    BY <1>4 DEF StwMutatorList, Counted
  <2> QED
    BY <2>1, <2>2, <2>3, <2>4, <2>5, CountKept
<1>5. CASE Stopping(t)
  BY <1>5, StoppingStep
<1>6. CASE StwTimeout(t)
  <2>1. Shape' /\ UNCHANGED <<saferegionCount, Counted>>
    BY <1>6 DEF StwTimeout, Counted
  <2> QED
    BY <2>1, CountKept DEF IInv
<1>7. CASE StartTheWorld(t)
  <2>1. TypeOK' /\ PcInv' /\ FlagInv'
    BY <1>7 DEF StartTheWorld
  <2>2. ListInv' /\ ListLockInv' /\ StwLockInv'
    BY <1>7 DEF StartTheWorld
  <2>3. PendingInv' /\ QuietInv'
    BY <1>7 DEF StartTheWorld
  <2>4. StoppedInv' /\ RestoreInv'
    BY <1>7 DEF StartTheWorld
  <2>5. UNCHANGED <<saferegionCount, Counted>>
    BY <1>7 DEF StartTheWorld, Counted
  <2> QED
    BY <2>1, <2>2, <2>3, <2>4, <2>5, CountKept
<1>8. CASE Starting(t)
  BY <1>8, StartingStep
<1> QED
  BY <1>1, <1>2, <1>3, <1>4, <1>5, <1>6, <1>7, <1>8 DEF StwNext

-----------------------------------------------------------------------------
(* Theorems.                                                               *)

(* IInv is an invariant of the protocol, for any set of threads.           *)
THEOREM InductiveInvariant == Spec => []IInv
<1>1. Init => IInv
  <2> SUFFICES ASSUME Init PROVE IInv
    OBVIOUS
  <2>1. Counted = {}
    BY DEF Init, Counted
  <2>2. CountExact
    BY <2>1, FS_EmptySet DEF Init, CountExact
  <2>3. TypeOK
    BY DEF Init, TypeOK
  <2>4. PcInv /\ FlagInv /\ ListInv /\ ListLockInv /\ StwLockInv
    BY DEF Init, PcInv, FlagInv, ListInv, ListLockInv, StwLockInv
  <2>5. PendingInv /\ QuietInv /\ StoppedInv /\ RestoreInv
    BY DEF Init, PendingInv, QuietInv, StoppedInv, RestoreInv
  <2> QED
    BY <2>2, <2>3, <2>4, <2>5 DEF IInv, Shape
<1>2. IInv /\ [Next]_vars => IInv'
  <2> SUFFICES ASSUME IInv, [Next]_vars PROVE IInv'
    OBVIOUS
  <2> USE DEF Shape, TypeOK, PcInv, FlagInv, ListInv, ListLockInv, StwLockInv,
              PendingInv, QuietInv, StoppedInv, RestoreInv
  <2>1. ASSUME NEW m \in Mutators, MutatorNext(m) PROVE IInv'
    BY <2>1, MutatorStep
  <2>2. ASSUME NEW t \in Threads, StwNext(t) PROVE IInv'
    BY <2>2, StwStep
  <2>3. ASSUME NEW g \in GCThreads, LockStopTheWorld(g) PROVE IInv'
    <3>1. Shape' /\ UNCHANGED <<saferegionCount, Counted>>
      BY <2>3 DEF LockStopTheWorld, IInv, Counted
    <3> QED
      BY <3>1, CountKept DEF IInv
  <2>4. ASSUME NEW g \in GCThreads, UnlockStopTheWorld(g) PROVE IInv'
    <3>1. Shape' /\ UNCHANGED <<saferegionCount, Counted>>
      BY <2>4 DEF UnlockStopTheWorld, IInv, Counted
    <3> QED
      BY <3>1, CountKept DEF IInv
  <2>5. CASE RuntimeThreadListLock
    <3>1. Shape' /\ UNCHANGED <<saferegionCount, Counted>>
      BY <2>5 DEF RuntimeThreadListLock, IInv, Counted
    <3> QED
      BY <3>1, CountKept DEF IInv
  <2>6. CASE RuntimeThreadListUnlock
    <3>1. Shape' /\ UNCHANGED <<saferegionCount, Counted>>
      BY <2>6 DEF RuntimeThreadListUnlock, IInv, Counted
    <3> QED
      BY <3>1, CountKept DEF IInv
  <2>7. CASE UNCHANGED vars
    <3>1. Shape' /\ UNCHANGED <<saferegionCount, Counted>>
      BY <2>7 DEF vars, IInv, Counted
    <3> QED
      BY <3>1, CountKept DEF IInv
  <2> QED
    BY <2>1, <2>2, <2>3, <2>4, <2>5, <2>6, <2>7 DEF Next
<1> QED
  BY <1>1, <1>2, PTL DEF Spec

(* Type correctness: in particular saferegionCount never goes below 0.     *)
THEOREM TypeCorrect == Spec => []TypeOK
BY InductiveInvariant, PTL DEF IInv, Shape

(* saferegionCount is exactly the number of mutators inside saferegions.   *)
THEOREM CountIsExact == Spec => []CountExact
BY InductiveInvariant, PTL DEF IInv

(* While the world is stopped every registered mutator is parked.          *)
THEOREM StoppedWorldQuiet == Spec => []StoppedWorldIsQuiet
<1>1. IInv => StoppedWorldIsQuiet
  BY DEF IInv, Shape, QuietInv, StoppedInv, StoppedWorldIsQuiet
<1> QED
  BY <1>1, InductiveInvariant, PTL

(* No thread reaches LOG(FATAL).                                           *)
THEOREM NeverFatal == Spec => []NoFatal
<1>1. IInv => NoFatal
  BY DEF IInv, Shape, PcInv, NoFatal
<1> QED
  BY <1>1, InductiveInvariant, PTL

(* StartTheWorld() restores what its own StopTheWorld() changed.           *)
THEOREM OwnStateIsRestored == Spec => []OwnStateRestored
<1>1. IInv => OwnStateRestored
  BY DEF IInv, Shape, RestoreInv, OwnStateRestored
<1> QED
  BY <1>1, InductiveInvariant, PTL

(* A mutator that holds the list lock does not wait for stop-the-world.    *)
(* pendingCount is set only by a thread that holds the lock itself, so     *)
(* RemoveMutator() finds it 0 and takes the fast path.                     *)
THEOREM ListHolderDoesNotBlock == Spec => []ListHolderNeverBlocks
<1>1. Init => ListHolderNeverBlocks
  BY DEF Init, ListHolderNeverBlocks, SlowPcs
<1>2. IInv /\ ListHolderNeverBlocks /\ [Next]_vars => ListHolderNeverBlocks'
  <2> SUFFICES ASSUME IInv, ListHolderNeverBlocks, [Next]_vars,
                      NEW n \in Mutators, listOwner' = n
               PROVE  pc'[n] \notin SlowPcs
    BY DEF ListHolderNeverBlocks
  <2>1. listOwner = n => pendingCount = 0 \/ pc[n] \in PendPcs
    BY DEF IInv, Shape, PendingInv, ListLockInv, TypeOK
  <2>2. TypeOK /\ (listOwner = n => pc[n] \notin SlowPcs)
    BY DEF IInv, Shape, ListHolderNeverBlocks
  <2>3. ASSUME NEW m \in Mutators, MutatorNext(m) PROVE pc'[n] \notin SlowPcs
    <3>1. CASE FiniYieldpoint(m)
      BY <2>2, <3>1 DEF FiniYieldpoint, SlowPcs, TypeOK
    <3>2. CASE RemoveMutatorFini(m)
      BY <3>2 DEF RemoveMutatorFini
    <3>3. CASE LeaveDec(m)
      BY <2>1, <2>2, <3>3 DEF LeaveDec, SlowPcs, TypeOK
    <3>4. CASE SlowWake(m)
      BY <2>2, <3>4 DEF SlowWake, SlowPcs, TypeOK
    <3>5. CASE EnterInc(m) \/ EnterSet(m) \/ EnterSaferegionSlowPath(m)
      <4>1. ret[m] \in {"native", "yieldLeave", "stwLock"}
        BY <3>5 DEF EnterInc, EnterSet, EnterSaferegionSlowPath, IInv, Shape,
                    PcInv
      <4> QED
        BY <2>2, <3>5, <4>1 DEF EnterInc, EnterSet, EnterSaferegionSlowPath,
                                SlowPcs, TypeOK
    <3>6. CASE SlowInc(m) \/ SlowWait(m) \/ SlowDec(m) \/ SlowInterrupted(m)
      BY <2>2, <3>6 DEF SlowInc, SlowWait, SlowDec, SlowInterrupted, SlowPcs,
                        TypeOK
    <3>7. CASE LeaveSet(m)
      <4>1. ret[m] \in {"managed", "removeFini"}
        BY <3>7 DEF LeaveSet, IInv, Shape, PcInv
      <4> QED
        BY <2>2, <3>7, <4>1 DEF LeaveSet, SlowPcs, TypeOK
    <3>8. CASE \/ YieldpointLeave(m) \/ InitYieldpoint(m)
               \/ MRT_EnterSaferegion(m) \/ MRT_LeaveSaferegion(m)
               \/ Yieldpoint(m)
      BY <2>2, <3>8 DEF YieldpointLeave, InitYieldpoint, MRT_EnterSaferegion,
                        MRT_LeaveSaferegion, Yieldpoint, SlowPcs, TypeOK
    <3> QED
      BY <2>3, <3>1, <3>2, <3>3, <3>4, <3>5, <3>6, <3>7, <3>8
      DEF MutatorNext, EnterLeave
  <2>4. ASSUME NEW t \in Threads, StwNext(t) PROVE pc'[n] \notin SlowPcs
    BY <2>1, <2>2, <2>4
    DEF StwNext, Stopping, Starting, StopTheWorld, StwLock, StwThreadList,
        StwMutatorList, StwSetPending, SetPollingPageUnreadable, StwLoad,
        StwWait, StwMark, StwTimeout, StartTheWorld, SetPollingPageReadable,
        StartClearPending, StartWake, StartUnlockList, StartUnlockThreadList,
        StartUnlockStw, SlowPcs, TypeOK
  <2> QED
    BY <2>2, <2>3, <2>4 DEF Next, LockStopTheWorld, UnlockStopTheWorld,
      RuntimeThreadListLock, RuntimeThreadListUnlock, SlowPcs, TypeOK, vars
<1> QED
  BY <1>1, <1>2, InductiveInvariant, PTL DEF Spec

(* The list of mutators does not change while pendingCount is set.         *)
THEOREM ListIsFrozen == Spec => ListFrozen
<1>1. IInv /\ [Next]_vars => [pendingCount # 0 => UNCHANGED mutatorList]_vars
  <2> SUFFICES ASSUME IInv, Next, pendingCount # 0 PROVE UNCHANGED mutatorList
    OBVIOUS
  <2>1. listOwner \in Threads
    BY DEF IInv, Shape, PendingInv, ListLockInv
  <2>2. ASSUME NEW m \in Mutators, MutatorNext(m) PROVE UNCHANGED mutatorList
    BY <2>1, <2>2
    DEF MutatorNext, EnterLeave, EnterInc, EnterSet, EnterSaferegionSlowPath,
        LeaveDec, SlowInc, SlowWake, SlowWait, SlowDec, LeaveSet,
        YieldpointLeave, RemoveMutatorFini, SlowInterrupted, InitYieldpoint,
        FiniYieldpoint, MRT_EnterSaferegion, MRT_LeaveSaferegion, Yieldpoint
  <2>3. ASSUME NEW t \in Threads, StwNext(t) PROVE UNCHANGED mutatorList
    BY <2>3
    DEF StwNext, Stopping, Starting, StopTheWorld, StwLock, StwThreadList,
        StwMutatorList, StwSetPending, SetPollingPageUnreadable, StwLoad,
        StwWait, StwMark, StwTimeout, StartTheWorld, SetPollingPageReadable,
        StartClearPending, StartWake, StartUnlockList, StartUnlockThreadList,
        StartUnlockStw
  <2> QED
    BY <2>2, <2>3 DEF Next, LockStopTheWorld, UnlockStopTheWorld,
                      RuntimeThreadListLock, RuntimeThreadListUnlock
<1> QED
  BY <1>1, InductiveInvariant, PTL DEF Spec, ListFrozen

-----------------------------------------------------------------------------
(* Refinement of World.                                                    *)

(* A registered mutator that sees pendingCount = 0 sees a running world.   *)
LEMMA NoPendingNotStopped ==
  ASSUME IInv, NEW m \in mutatorList, pendingCount = 0
  PROVE  ~worldStopped
<1>1. Cardinality(mutatorList) # 0
  BY FiniteCounts, FS_EmptySet DEF IInv, Shape
<1> QED
  BY <1>1 DEF IInv, Shape, StoppedInv, PendingInv

(* A decrement of saferegionCount leaves the saferegion or keeps waiting.  *)
LEMMA DecSimulates ==
  ASSUME IInv, NEW m \in Mutators, LeaveDec(m) \/ SlowDec(m)
  PROVE  W!Resume(m) \/ UNCHANGED <<mutatorList, Running, worldStopped>>
<1> USE DEF IInv, Shape, TypeOK, Running
<1>1. CASE m \in mutatorList /\ pendingCount = 0
  <2>1. ~worldStopped
    BY <1>1, NoPendingNotStopped
  <2>2. m \in mutatorList \ Running /\ UNCHANGED <<mutatorList, worldStopped>>
    BY <1>1 DEF LeaveDec, SlowDec
  <2>3. Running' = Running \cup {m}
    BY <1>1 DEF LeaveDec, SlowDec
  <2> QED
    BY <2>1, <2>2, <2>3 DEF W!Resume
<1>2. CASE m \notin mutatorList \/ pendingCount # 0
  BY <1>2 DEF LeaveDec, SlowDec
<1> QED
  BY <1>1, <1>2

(* Every step of a mutator is a step of World or is invisible to it.       *)
LEMMA MutatorSimulates ==
  ASSUME IInv, NEW m \in Mutators, MutatorNext(m)
  PROVE  W!Next \/ UNCHANGED W!vars
<1> USE DEF IInv, Shape, TypeOK, PcInv, FlagInv, ListInv, W!vars
<1>1. CASE EnterInc(m)
  <2>1. m \in Running /\ Running' = Running \ {m}
    BY <1>1 DEF EnterInc, Running
  <2> QED
    BY <1>1, <2>1 DEF EnterInc, W!Next, W!Park
<1>2. CASE LeaveDec(m) \/ SlowDec(m)
  <2> HIDE DEF IInv, Shape
  <2> QED
    BY <1>2, DecSimulates DEF W!Next
<1>3. CASE InitYieldpoint(m)
  <2>1. m \notin mutatorList /\ Running' = Running \cup {m}
    BY <1>3 DEF InitYieldpoint, Running
  <2>2. ~worldStopped
    BY <1>3 DEF InitYieldpoint, StoppedInv, ListLockInv
  <2> QED
    BY <1>3, <2>1, <2>2 DEF InitYieldpoint, W!Next, W!Attach
<1>4. CASE FiniYieldpoint(m)
  <2>1. m \in mutatorList \ Running /\ Running' = Running
    BY <1>4 DEF FiniYieldpoint, Running
  <2>2. ~worldStopped
    BY <1>4 DEF FiniYieldpoint, StoppedInv, ListLockInv
  <2> QED
    BY <1>4, <2>1, <2>2 DEF FiniYieldpoint, W!Next, W!Detach
<1>5. CASE EnterSet(m) \/ EnterSaferegionSlowPath(m) \/ SlowInc(m)
  BY <1>5 DEF EnterSet, EnterSaferegionSlowPath, SlowInc, Running
<1>6. CASE SlowWake(m) \/ SlowWait(m) \/ LeaveSet(m) \/ YieldpointLeave(m)
  BY <1>6 DEF SlowWake, SlowWait, LeaveSet, YieldpointLeave, Running
<1>7. CASE RemoveMutatorFini(m) \/ SlowInterrupted(m) \/ Yieldpoint(m)
  BY <1>7 DEF RemoveMutatorFini, SlowInterrupted, Yieldpoint, Running
<1>8. CASE MRT_EnterSaferegion(m) \/ MRT_LeaveSaferegion(m)
  BY <1>8 DEF MRT_EnterSaferegion, MRT_LeaveSaferegion, Running
<1> QED
  BY <1>1, <1>2, <1>3, <1>4, <1>5, <1>6, <1>7, <1>8 DEF MutatorNext, EnterLeave

(* So is every step of a thread that stops or starts the world.            *)
LEMMA StwSimulates ==
  ASSUME IInv, NEW t \in Threads, StwNext(t)
  PROVE  W!Next \/ UNCHANGED W!vars
<1> USE DEF IInv, Shape, TypeOK, PcInv, FlagInv, ListInv, W!vars
<1>1. CASE StwMark(t)
  <2>1. Running = {} /\ Running' = {} /\ ~worldStopped
    BY <1>1 DEF StwMark, Running, QuietInv, StoppedInv, ListLockInv
  <2> QED
    BY <1>1, <2>1 DEF StwMark, W!Next, W!Stop
<1>2. CASE StwMutatorList(t) /\ mutatorList = {}
  <2>1. Running = {} /\ Running' = {} /\ ~worldStopped
    BY <1>2 DEF StwMutatorList, Running, StoppedInv, ListLockInv
  <2> QED
    BY <1>2, <2>1 DEF StwMutatorList, W!Next, W!Stop
<1>3. CASE StwMutatorList(t) /\ mutatorList # {}
  BY <1>3 DEF StwMutatorList, Running
<1>4. CASE StartTheWorld(t)
  <2>1. worldStopped /\ Running' = Running
    BY <1>4 DEF StartTheWorld, Running, StoppedInv
  <2> QED
    BY <1>4, <2>1 DEF StartTheWorld, W!Next, W!Start
<1>5. CASE StopTheWorld(t)
  BY <1>5 DEF StopTheWorld, Running
<1>6. CASE StwLock(t) \/ StwThreadList(t) \/ StwSetPending(t) \/ StwTimeout(t)
  BY <1>6 DEF StwLock, StwThreadList, StwSetPending, StwTimeout, Running
<1>7. CASE StwLoad(t)
  <2>1. pc[t] \in ParkedPcs /\ pc'[t] \in {"fatal", "stwMark", "stwWait"}
    BY <1>7 DEF StwLoad
  <2>2. pc'[t] # "fatal"
    <3> HIDE DEF IInv, Shape
    <3>1. saferegionCount <= pendingCount
      BY <1>7, CountBelowPending DEF StwLoad
    <3>2. ~(pendingCount < saferegionCount)
      BY <3>1 DEF IInv, Shape
    <3> QED
      BY <1>7, <3>2 DEF StwLoad, IInv, Shape
  <2> QED
    BY <1>7, <2>1, <2>2 DEF StwLoad, Running
<1>8. CASE SetPollingPageUnreadable(t) \/ StwWait(t)
  BY <1>8 DEF SetPollingPageUnreadable, StwWait, Running
<1>9. CASE SetPollingPageReadable(t) \/ StartClearPending(t) \/ StartWake(t)
  BY <1>9 DEF SetPollingPageReadable, StartClearPending, StartWake, Running
<1>10. CASE \/ StartUnlockList(t) \/ StartUnlockThreadList(t)
            \/ StartUnlockStw(t)
  BY <1>10 DEF StartUnlockList, StartUnlockThreadList, StartUnlockStw, Running
<1> QED
  BY <1>1, <1>2, <1>3, <1>4, <1>5, <1>6, <1>7, <1>8, <1>9, <1>10
  DEF StwNext, Stopping, Starting

(* The protocol implements World.                                          *)
THEOREM RefinesWorld == Spec => ImplementsWorld
<1>1. Init => W!Init
  BY DEF Init, W!Init, Running
<1>2. IInv /\ [Next]_vars => [W!Next]_(W!vars)
  <2> SUFFICES ASSUME IInv, [Next]_vars PROVE W!Next \/ UNCHANGED W!vars
    OBVIOUS
  <2>1. ASSUME NEW g \in GCThreads,
               LockStopTheWorld(g) \/ UnlockStopTheWorld(g)
        PROVE  UNCHANGED W!vars
    BY <2>1 DEF LockStopTheWorld, UnlockStopTheWorld, Running, W!vars, IInv,
                Shape, TypeOK
  <2>2. CASE RuntimeThreadListLock \/ RuntimeThreadListUnlock
    BY <2>2 DEF RuntimeThreadListLock, RuntimeThreadListUnlock, Running, W!vars
  <2>3. CASE UNCHANGED vars
    BY <2>3 DEF vars, Running, W!vars
  <2> QED
    BY <2>1, <2>2, <2>3, MutatorSimulates, StwSimulates DEF Next
<1> QED
  BY <1>1, <1>2, InductiveInvariant, PTL DEF Spec, ImplementsWorld, W!Spec
=============================================================================
