-------------------------- MODULE StackScanProofs --------------------------
(***************************************************************************)
(* Proofs about module StackScan, for any finite set of mutators.          *)
(*                                                                         *)
(* IInv is inductive: Shape says which steps of a mutator, of the GC       *)
(* thread and of the world go together; CountMatches needs cardinalities.  *)
(***************************************************************************)
EXTENDS StackScan, FiniteSetTheorems, TLAPS

-----------------------------------------------------------------------------
(* The inductive invariant.                                                *)

(* The mutator is between its compare and exchange and FinishStackScan().  *)
OwnScanPcs == {"scan", "sub", "notify", "finish"}

(* The GC thread is between its compare and exchange and the store in      *)
(* FinishStackScan().                                                      *)
GcScanPcs == {"gcScan", "gcSub", "gcFinish"}

(* The GC thread has seen numMutatorToBeScan = 0, or nothing has begun.    *)
CountedDownPcs == {"remark", "stop2", "cleanup", "start2", "idle", "roots"}

(* The stacks numMutatorToBeScan counts.                                   *)
ToBeScanned ==
  {m \in Mutators : \/ scanState[m] = "need"
                    \/ pc[m] \in {"scan", "sub"}
                    \/ gcPc \in {"gcScan", "gcSub"} /\ gcMutator = m}

(* Where the mutators are that World counts as attached and as running.    *)
WorldInv ==
  /\ \A m \in Mutators :
       /\ m \in running <=> \/ pc[m] = "managed"
                            \/ pc[m] \in BarrierPcs /\ ret[m] = "managed"
       /\ m \in attached <=> m \in running \/ pc[m] = "native"
  /\ stopped <=> gcPc \in {"roots", "start1", "cleanup", "start2"}
  /\ stopped => \A m \in Mutators : pc[m] \in {"absent", "native"}

(* A stack is in the scan of exactly one of the two threads; a mutator of  *)
(* the snapshot that has begun its own scan has not finished the barrier.  *)
OwnerInv ==
  /\ gcMutator # None <=> gcPc \in GcScanPcs \cup {"gcWake"}
  /\ \A m \in Mutators :
       /\ scanState[m] = "in" <=> \/ pc[m] \in OwnScanPcs
                                  \/ gcPc \in GcScanPcs /\ gcMutator = m
       /\ scanState[m] = "need" => pc[m] \in {"native", "barrier", "tryScan"}
       /\ pc[m] = "erase" => scanState[m] = "finish"
       /\ m \in snapshotMutators => \/ scanState[m] = "need"
                                    \/ pc[m] \in OwnScanPcs \cup {"erase"}

CountedDownInv == gcPc \in CountedDownPcs => numMutatorToBeScan = 0

(* The roots of every stack of the snapshot are marked, in a task, or      *)
(* still to be found.                                                      *)
RootsInv ==
  \A m \in cycle :
    \/ m \in marked \cup tasks
    \/ scanState[m] = "need"
    \/ pc[m] = "scan"
    \/ gcPc = "gcScan" /\ gcMutator = m

Shape ==
  /\ TypeOK
  /\ WorldInv /\ OwnerInv
  /\ StackFrozen /\ ScannedBeforeRunning
  /\ CountedDownInv /\ RootsInv /\ AllRootsMarked

IInv == Shape /\ CountMatches

USE MutatorsAssumption
    DEF Goto, worldVars, scanVars, gcVars, history, BarrierPcs, ListLocked,
        SnapshotLocked, OwnScanPcs, GcScanPcs, CountedDownPcs, AddRoots,
        W!Attach, W!Detach, W!Resume, W!Park, W!Stop, W!Start

-----------------------------------------------------------------------------
(* The count.                                                              *)

(* Any set of mutators has a cardinality.                                  *)
LEMMA FiniteMutators ==
  ASSUME NEW S \in SUBSET Mutators
  PROVE  IsFiniteSet(S) /\ Cardinality(S) \in Nat
BY FS_Subset, FS_CardinalityType

(* A step that moves no stack into or out of ToBeScanned.                  *)
LEMMA CountKept ==
  ASSUME CountMatches, UNCHANGED <<numMutatorToBeScan, ToBeScanned>>
  PROVE  CountMatches'
BY DEF CountMatches, ToBeScanned

(* While a stack is to be scanned the count is not 0.                      *)
LEMMA CountPositive ==
  ASSUME TypeOK, CountMatches, NEW m \in ToBeScanned
  PROVE  numMutatorToBeScan # 0
<1>1. ToBeScanned \in SUBSET Mutators /\ ToBeScanned # {}
  BY DEF ToBeScanned
<1>2. Cardinality(ToBeScanned) # 0
  BY <1>1, FiniteMutators, FS_EmptySet
<1> QED
  BY <1>2 DEF CountMatches, ToBeScanned

(* fetch_sub(1), for a stack that was to be scanned.                       *)
LEMMA CountDown ==
  ASSUME TypeOK, CountMatches, NEW m \in ToBeScanned,
         ToBeScanned' = ToBeScanned \ {m},
         numMutatorToBeScan' = numMutatorToBeScan - 1
  PROVE  CountMatches' /\ numMutatorToBeScan' \in Nat
<1>1. ToBeScanned \in SUBSET Mutators
  BY DEF ToBeScanned
<1>2. Cardinality(ToBeScanned \ {m}) = Cardinality(ToBeScanned) - 1
  BY <1>1, FiniteMutators, FS_RemoveElement
<1>3. Cardinality(ToBeScanned \ {m}) \in Nat
  BY <1>1, FiniteMutators
<1> QED
  BY <1>2, <1>3 DEF CountMatches, ToBeScanned

-----------------------------------------------------------------------------
(* Each action preserves IInv.                                             *)

(* The steps of a mutator outside the barrier.                             *)
LEMMA MutatorStep ==
  ASSUME IInv, NEW m \in Mutators,
         \/ InitYieldpoint(m) \/ EnterSaferegion(m)
         \/ LeaveSaferegion(m) \/ FiniYieldpoint(m)
  PROVE  IInv'
<1> USE DEF IInv, Shape, TypeOK, WorldInv, OwnerInv, StackFrozen, ScannedBeforeRunning, CountedDownInv,
            RootsInv, AllRootsMarked
<1>1. CASE InitYieldpoint(m)
  <2>1. TypeOK' /\ WorldInv' /\ OwnerInv'
    BY <1>1 DEF InitYieldpoint
  <2>2. StackFrozen' /\ ScannedBeforeRunning'
    BY <1>1 DEF InitYieldpoint
  <2>3. CountedDownInv' /\ RootsInv' /\ AllRootsMarked'
    BY <1>1 DEF InitYieldpoint
  <2>4. UNCHANGED <<numMutatorToBeScan, ToBeScanned>>
    BY <1>1 DEF InitYieldpoint, ToBeScanned
  <2> QED
    BY <2>1, <2>2, <2>3, <2>4, CountKept DEF IInv, Shape
<1>2. CASE EnterSaferegion(m)
  <2>1. TypeOK' /\ WorldInv' /\ OwnerInv'
    BY <1>2 DEF EnterSaferegion
  <2>2. StackFrozen' /\ ScannedBeforeRunning'
    BY <1>2 DEF EnterSaferegion
  <2>3. CountedDownInv' /\ RootsInv' /\ AllRootsMarked'
    BY <1>2 DEF EnterSaferegion
  <2>4. UNCHANGED <<numMutatorToBeScan, ToBeScanned>>
    BY <1>2 DEF EnterSaferegion, ToBeScanned
  <2> QED
    BY <2>1, <2>2, <2>3, <2>4, CountKept DEF IInv, Shape
<1>3. CASE LeaveSaferegion(m)
  <2>1. TypeOK' /\ WorldInv' /\ OwnerInv'
    BY <1>3 DEF LeaveSaferegion
  <2>2. StackFrozen' /\ ScannedBeforeRunning'
    BY <1>3 DEF LeaveSaferegion
  <2>3. CountedDownInv' /\ RootsInv' /\ AllRootsMarked'
    BY <1>3 DEF LeaveSaferegion
  <2>4. UNCHANGED <<numMutatorToBeScan, ToBeScanned>>
    BY <1>3 DEF LeaveSaferegion, ToBeScanned
  <2> QED
    BY <2>1, <2>2, <2>3, <2>4, CountKept DEF IInv, Shape
<1>4. CASE FiniYieldpoint(m)
  <2>1. TypeOK' /\ WorldInv' /\ OwnerInv'
    BY <1>4 DEF FiniYieldpoint
  <2>2. StackFrozen' /\ ScannedBeforeRunning'
    BY <1>4 DEF FiniYieldpoint
  <2>3. CountedDownInv' /\ RootsInv' /\ AllRootsMarked'
    BY <1>4 DEF FiniYieldpoint
  <2>4. UNCHANGED <<numMutatorToBeScan, ToBeScanned>>
    BY <1>4 DEF FiniYieldpoint, ToBeScanned
  <2> QED
    BY <2>1, <2>2, <2>3, <2>4, CountKept DEF IInv, Shape
<1> QED
  BY <1>1, <1>2, <1>3, <1>4

(* The steps of a mutator inside StackScanBarrier().                       *)
LEMMA BarrierStep ==
  ASSUME IInv, NEW m \in Mutators, Barrier(m)
  PROVE  IInv'
<1> USE DEF IInv, Shape, TypeOK, WorldInv, OwnerInv, StackFrozen, ScannedBeforeRunning, CountedDownInv,
            RootsInv, AllRootsMarked
<1>1. CASE StackScanBarrier(m)
  <2>1. TypeOK' /\ WorldInv' /\ OwnerInv'
    BY <1>1 DEF StackScanBarrier
  <2>2. StackFrozen' /\ ScannedBeforeRunning'
    BY <1>1 DEF StackScanBarrier
  <2>3. CountedDownInv' /\ RootsInv' /\ AllRootsMarked'
    BY <1>1 DEF StackScanBarrier
  <2>4. UNCHANGED <<numMutatorToBeScan, ToBeScanned>>
    BY <1>1 DEF StackScanBarrier, ToBeScanned
  <2> QED
    BY <2>1, <2>2, <2>3, <2>4, CountKept DEF IInv, Shape
<1>2. CASE TrySetScanState(m)
  <2>1. TypeOK' /\ WorldInv' /\ OwnerInv'
    BY <1>2 DEF TrySetScanState
  <2>2. StackFrozen' /\ ScannedBeforeRunning'
    BY <1>2 DEF TrySetScanState
  <2>3. CountedDownInv' /\ RootsInv' /\ AllRootsMarked'
    BY <1>2 DEF TrySetScanState
  <2>4. UNCHANGED <<numMutatorToBeScan, ToBeScanned>>
    BY <1>2 DEF TrySetScanState, ToBeScanned
  <2> QED
    BY <2>1, <2>2, <2>3, <2>4, CountKept DEF IInv, Shape
<1>3. CASE FutexWait(m)
  <2>1. TypeOK' /\ WorldInv' /\ OwnerInv'
    BY <1>3 DEF FutexWait
  <2>2. StackFrozen' /\ ScannedBeforeRunning'
    BY <1>3 DEF FutexWait
  <2>3. CountedDownInv' /\ RootsInv' /\ AllRootsMarked'
    BY <1>3 DEF FutexWait
  <2>4. UNCHANGED <<numMutatorToBeScan, ToBeScanned>>
    BY <1>3 DEF FutexWait, ToBeScanned
  <2> QED
    BY <2>1, <2>2, <2>3, <2>4, CountKept DEF IInv, Shape
<1>4. CASE MutatorScan(m)
  <2>1. TypeOK' /\ WorldInv' /\ OwnerInv'
    BY <1>4 DEF MutatorScan
  <2>2. StackFrozen' /\ ScannedBeforeRunning'
    BY <1>4 DEF MutatorScan
  <2>3. CountedDownInv' /\ RootsInv' /\ AllRootsMarked'
    BY <1>4 DEF MutatorScan
  <2>4. UNCHANGED <<numMutatorToBeScan, ToBeScanned>>
    BY <1>4 DEF MutatorScan, ToBeScanned
  <2> QED
    BY <2>1, <2>2, <2>3, <2>4, CountKept DEF IInv, Shape
<1>5. CASE MutatorNotify(m)
  <2>1. TypeOK' /\ WorldInv' /\ OwnerInv'
    BY <1>5 DEF MutatorNotify
  <2>2. StackFrozen' /\ ScannedBeforeRunning'
    BY <1>5 DEF MutatorNotify
  <2>3. CountedDownInv' /\ RootsInv' /\ AllRootsMarked'
    BY <1>5 DEF MutatorNotify
  <2>4. UNCHANGED <<numMutatorToBeScan, ToBeScanned>>
    BY <1>5 DEF MutatorNotify, ToBeScanned
  <2> QED
    BY <2>1, <2>2, <2>3, <2>4, CountKept DEF IInv, Shape
<1>6. CASE MutatorFinish(m)
  <2>1. TypeOK' /\ WorldInv' /\ OwnerInv'
    BY <1>6 DEF MutatorFinish
  <2>2. StackFrozen' /\ ScannedBeforeRunning'
    BY <1>6 DEF MutatorFinish
  <2>3. CountedDownInv' /\ RootsInv' /\ AllRootsMarked'
    BY <1>6 DEF MutatorFinish
  <2>4. UNCHANGED <<numMutatorToBeScan, ToBeScanned>>
    BY <1>6 DEF MutatorFinish, ToBeScanned
  <2> QED
    BY <2>1, <2>2, <2>3, <2>4, CountKept DEF IInv, Shape
<1>7. CASE MutatorErase(m)
  <2>1. TypeOK' /\ WorldInv' /\ OwnerInv'
    BY <1>7 DEF MutatorErase
  <2>2. StackFrozen' /\ ScannedBeforeRunning'
    BY <1>7 DEF MutatorErase
  <2>3. CountedDownInv' /\ RootsInv' /\ AllRootsMarked'
    BY <1>7 DEF MutatorErase
  <2>4. UNCHANGED <<numMutatorToBeScan, ToBeScanned>>
    BY <1>7 DEF MutatorErase, ToBeScanned
  <2> QED
    BY <2>1, <2>2, <2>3, <2>4, CountKept DEF IInv, Shape
<1>8. CASE MutatorSub(m)
  <2>1. m \in ToBeScanned /\ ToBeScanned' = ToBeScanned \ {m}
    BY <1>8 DEF MutatorSub, ToBeScanned
  <2>2. CountMatches' /\ numMutatorToBeScan' \in Nat
    BY <1>8, <2>1, CountDown DEF MutatorSub
  <2>3. gcPc \notin CountedDownPcs
    BY <2>1, CountPositive
  <2>4. TypeOK' /\ WorldInv' /\ OwnerInv'
    BY <1>8, <2>2 DEF MutatorSub
  <2>5. StackFrozen' /\ ScannedBeforeRunning'
    BY <1>8 DEF MutatorSub
  <2>6. CountedDownInv' /\ RootsInv' /\ AllRootsMarked'
    BY <1>8, <2>3 DEF MutatorSub
  <2> QED
    BY <2>2, <2>4, <2>5, <2>6
<1> QED
  BY <1>1, <1>2, <1>3, <1>4, <1>5, <1>6, <1>7, <1>8 DEF Barrier

(* The GC thread stops and starts the world, and scans roots in between.   *)
LEMMA WorldStep ==
  ASSUME IInv, StopTheWorld \/ StartTheWorld \/ FastScanRoots
  PROVE  IInv'
<1> USE DEF IInv, Shape, TypeOK, WorldInv, OwnerInv, StackFrozen, ScannedBeforeRunning, CountedDownInv,
            RootsInv, AllRootsMarked
<1>1. CASE StopTheWorld
  <2>1. TypeOK' /\ WorldInv' /\ OwnerInv'
    BY <1>1 DEF StopTheWorld
  <2>2. StackFrozen' /\ ScannedBeforeRunning'
    BY <1>1 DEF StopTheWorld
  <2>3. CountedDownInv' /\ RootsInv' /\ AllRootsMarked'
    BY <1>1 DEF StopTheWorld
  <2>4. UNCHANGED <<numMutatorToBeScan, ToBeScanned>>
    BY <1>1 DEF StopTheWorld, ToBeScanned
  <2> QED
    BY <2>1, <2>2, <2>3, <2>4, CountKept DEF IInv, Shape
<1>2. CASE StartTheWorld
  <2>1. TypeOK' /\ WorldInv' /\ OwnerInv'
    BY <1>2 DEF StartTheWorld
  <2>2. StackFrozen' /\ ScannedBeforeRunning'
    BY <1>2 DEF StartTheWorld
  <2>3. CountedDownInv' /\ RootsInv' /\ AllRootsMarked'
    BY <1>2 DEF StartTheWorld
  <2>4. UNCHANGED <<numMutatorToBeScan, ToBeScanned>>
    BY <1>2 DEF StartTheWorld, ToBeScanned
  <2> QED
    BY <2>1, <2>2, <2>3, <2>4, CountKept DEF IInv, Shape
<1>3. CASE FastScanRoots
  <2>1. ToBeScanned = {}
    <3>1. numMutatorToBeScan = 0
      BY <1>3 DEF FastScanRoots
    <3> QED
      BY <3>1, CountPositive
  <2>2. ToBeScanned' = attached
    BY <1>3, <2>1 DEF FastScanRoots, ToBeScanned
  <2>3. numMutatorToBeScan' = Cardinality(attached) /\ Cardinality(attached) \in Nat
    BY <1>3, FiniteMutators DEF FastScanRoots
  <2>4. CountMatches'
    BY <2>2, <2>3 DEF CountMatches, ToBeScanned
  <2>5. TypeOK'
    BY <1>3, <2>3 DEF FastScanRoots
  <2>6. WorldInv' /\ OwnerInv'
    BY <1>3 DEF FastScanRoots
  <2>7. StackFrozen' /\ ScannedBeforeRunning'
    BY <1>3 DEF FastScanRoots
  <2>8. CountedDownInv' /\ RootsInv' /\ AllRootsMarked'
    BY <1>3 DEF FastScanRoots
  <2> QED
    BY <2>4, <2>5, <2>6, <2>7, <2>8
<1> QED
  BY <1>1, <1>2, <1>3

(* The GC thread scans stacks.                                             *)
LEMMA GcScanStep ==
  ASSUME IInv, \/ \E m \in Mutators : ConcurrentStackScan(m)
               \/ ConcurrentStackScanDone \/ GcScan \/ GcSub \/ GcFinish
               \/ GcWake
  PROVE  IInv'
<1> USE DEF IInv, Shape, TypeOK, WorldInv, OwnerInv, StackFrozen, ScannedBeforeRunning, CountedDownInv,
            RootsInv, AllRootsMarked
<1>1. ASSUME NEW m \in Mutators, ConcurrentStackScan(m) PROVE IInv'
  <2>1. TypeOK' /\ WorldInv' /\ OwnerInv'
    BY <1>1 DEF ConcurrentStackScan
  <2>2. StackFrozen' /\ ScannedBeforeRunning'
    BY <1>1 DEF ConcurrentStackScan
  <2>3. CountedDownInv' /\ RootsInv' /\ AllRootsMarked'
    BY <1>1 DEF ConcurrentStackScan
  <2>4. UNCHANGED <<numMutatorToBeScan, ToBeScanned>>
    BY <1>1 DEF ConcurrentStackScan, ToBeScanned
  <2> QED
    BY <2>1, <2>2, <2>3, <2>4, CountKept DEF IInv, Shape
<1>2. CASE ConcurrentStackScanDone
  <2>1. TypeOK' /\ WorldInv' /\ OwnerInv'
    BY <1>2 DEF ConcurrentStackScanDone
  <2>2. StackFrozen' /\ ScannedBeforeRunning'
    BY <1>2 DEF ConcurrentStackScanDone
  <2>3. CountedDownInv' /\ RootsInv' /\ AllRootsMarked'
    BY <1>2 DEF ConcurrentStackScanDone
  <2>4. UNCHANGED <<numMutatorToBeScan, ToBeScanned>>
    BY <1>2 DEF ConcurrentStackScanDone, ToBeScanned
  <2> QED
    BY <2>1, <2>2, <2>3, <2>4, CountKept DEF IInv, Shape
<1>3. CASE GcScan
  <2>1. TypeOK' /\ WorldInv' /\ OwnerInv'
    BY <1>3 DEF GcScan
  <2>2. StackFrozen' /\ ScannedBeforeRunning'
    BY <1>3 DEF GcScan
  <2>3. CountedDownInv' /\ RootsInv' /\ AllRootsMarked'
    BY <1>3 DEF GcScan
  <2>4. UNCHANGED <<numMutatorToBeScan, ToBeScanned>>
    BY <1>3 DEF GcScan, ToBeScanned
  <2> QED
    BY <2>1, <2>2, <2>3, <2>4, CountKept DEF IInv, Shape
<1>4. CASE GcFinish
  <2>1. TypeOK' /\ WorldInv' /\ OwnerInv'
    BY <1>4 DEF GcFinish
  <2>2. StackFrozen' /\ ScannedBeforeRunning'
    BY <1>4 DEF GcFinish
  <2>3. CountedDownInv' /\ RootsInv' /\ AllRootsMarked'
    BY <1>4 DEF GcFinish
  <2>4. UNCHANGED <<numMutatorToBeScan, ToBeScanned>>
    BY <1>4 DEF GcFinish, ToBeScanned
  <2> QED
    BY <2>1, <2>2, <2>3, <2>4, CountKept DEF IInv, Shape
<1>5. CASE GcWake
  <2>1. TypeOK' /\ WorldInv' /\ OwnerInv'
    BY <1>5 DEF GcWake
  <2>2. StackFrozen' /\ ScannedBeforeRunning'
    BY <1>5 DEF GcWake
  <2>3. CountedDownInv' /\ RootsInv' /\ AllRootsMarked'
    BY <1>5 DEF GcWake
  <2>4. UNCHANGED <<numMutatorToBeScan, ToBeScanned>>
    BY <1>5 DEF GcWake, ToBeScanned
  <2> QED
    BY <2>1, <2>2, <2>3, <2>4, CountKept DEF IInv, Shape
<1>6. CASE GcSub
  <2>1. gcMutator \in ToBeScanned /\ ToBeScanned' = ToBeScanned \ {gcMutator}
    BY <1>6 DEF GcSub, ToBeScanned
  <2>2. CountMatches' /\ numMutatorToBeScan' \in Nat
    BY <1>6, <2>1, CountDown DEF GcSub
  <2>3. TypeOK' /\ WorldInv' /\ OwnerInv'
    BY <1>6, <2>2 DEF GcSub
  <2>4. StackFrozen' /\ ScannedBeforeRunning'
    BY <1>6 DEF GcSub
  <2>5. CountedDownInv' /\ RootsInv' /\ AllRootsMarked'
    BY <1>6 DEF GcSub
  <2> QED
    BY <2>2, <2>3, <2>4, <2>5
<1> QED
  BY <1>1, <1>2, <1>3, <1>4, <1>5, <1>6

(* The GC thread executes mark tasks and waits for the mutators.           *)
LEMMA MarkStep ==
  ASSUME IInv, Mark \/ ConcurrentMarkCheck \/ WaitPred \/ WaitSleep
  PROVE  IInv'
<1> USE DEF IInv, Shape, TypeOK, WorldInv, OwnerInv, StackFrozen, ScannedBeforeRunning, CountedDownInv,
            RootsInv, AllRootsMarked
<1>1. CASE Mark
  <2>1. gcPc = "cleanup" => ToBeScanned = {}
    BY CountPositive
  <2>2. TypeOK' /\ WorldInv' /\ OwnerInv'
    BY <1>1 DEF Mark
  <2>3. StackFrozen' /\ ScannedBeforeRunning'
    BY <1>1 DEF Mark
  <2>4. RootsInv'
    BY <1>1 DEF Mark
  <2>5. CountedDownInv' /\ AllRootsMarked'
    BY <1>1, <2>1 DEF Mark, ToBeScanned
  <2>6. UNCHANGED <<numMutatorToBeScan, ToBeScanned>>
    BY <1>1 DEF Mark, ToBeScanned
  <2> QED
    BY <2>2, <2>3, <2>4, <2>5, <2>6, CountKept DEF IInv, Shape
<1>2. CASE ConcurrentMarkCheck
  <2>1. TypeOK' /\ WorldInv' /\ OwnerInv'
    BY <1>2 DEF ConcurrentMarkCheck
  <2>2. StackFrozen' /\ ScannedBeforeRunning'
    BY <1>2 DEF ConcurrentMarkCheck
  <2>3. CountedDownInv' /\ RootsInv' /\ AllRootsMarked'
    BY <1>2 DEF ConcurrentMarkCheck
  <2>4. UNCHANGED <<numMutatorToBeScan, ToBeScanned>>
    BY <1>2 DEF ConcurrentMarkCheck, ToBeScanned
  <2> QED
    BY <2>1, <2>2, <2>3, <2>4, CountKept DEF IInv, Shape
<1>3. CASE WaitPred
  <2>1. TypeOK' /\ WorldInv' /\ OwnerInv'
    BY <1>3 DEF WaitPred
  <2>2. StackFrozen' /\ ScannedBeforeRunning'
    BY <1>3 DEF WaitPred
  <2>3. CountedDownInv' /\ RootsInv' /\ AllRootsMarked'
    BY <1>3 DEF WaitPred
  <2>4. UNCHANGED <<numMutatorToBeScan, ToBeScanned>>
    BY <1>3 DEF WaitPred, ToBeScanned
  <2> QED
    BY <2>1, <2>2, <2>3, <2>4, CountKept DEF IInv, Shape
<1>4. CASE WaitSleep
  <2>1. TypeOK' /\ WorldInv' /\ OwnerInv'
    BY <1>4 DEF WaitSleep
  <2>2. StackFrozen' /\ ScannedBeforeRunning'
    BY <1>4 DEF WaitSleep
  <2>3. CountedDownInv' /\ RootsInv' /\ AllRootsMarked'
    BY <1>4 DEF WaitSleep
  <2>4. UNCHANGED <<numMutatorToBeScan, ToBeScanned>>
    BY <1>4 DEF WaitSleep, ToBeScanned
  <2> QED
    BY <2>1, <2>2, <2>3, <2>4, CountKept DEF IInv, Shape
<1> QED
  BY <1>1, <1>2, <1>3, <1>4

-----------------------------------------------------------------------------
(* Theorems.                                                               *)

(* IInv holds in every reachable state of the stack scan protocol.         *)
THEOREM InductiveInvariant == Spec => []IInv
<1>1. Init => IInv
  <2> SUFFICES ASSUME Init PROVE IInv
    OBVIOUS
  <2>1. Shape
    BY DEF Init, W!Init, Shape, TypeOK, WorldInv, OwnerInv, StackFrozen,
           ScannedBeforeRunning, CountedDownInv, RootsInv, AllRootsMarked
  <2>2. ToBeScanned = {}
    BY DEF Init, ToBeScanned
  <2>3. CountMatches
    BY <2>2, FS_EmptySet DEF Init, CountMatches, ToBeScanned
  <2> QED
    BY <2>1, <2>3 DEF IInv
<1>2. IInv /\ [Next]_vars => IInv'
  <2> SUFFICES ASSUME IInv, [Next]_vars PROVE IInv'
    OBVIOUS
  <2>1. CASE UNCHANGED vars
    <3>1. Shape' /\ UNCHANGED <<numMutatorToBeScan, ToBeScanned>>
      BY <2>1 DEF vars, IInv, Shape, TypeOK, WorldInv, OwnerInv, StackFrozen,
                  ScannedBeforeRunning, CountedDownInv, RootsInv,
                  AllRootsMarked, ToBeScanned
    <3> QED
      BY <3>1, CountKept DEF IInv
  <2> QED
    BY <2>1, MutatorStep, BarrierStep, WorldStep, GcScanStep, MarkStep
    DEF Next, Collect
<1> QED
  BY <1>1, <1>2, PTL DEF Spec

(* The variables of the stack scan protocol keep their types: fetch_sub()  *)
(* never takes numMutatorToBeScan below zero.                              *)
THEOREM TypeCorrect == Spec => []TypeOK
<1>1. IInv => TypeOK
  BY DEF IInv, Shape
<1> QED
  BY <1>1, InductiveInvariant, PTL

(* Every mutator of the snapshot exists; and while the GC thread scans a   *)
(* stack its owner waits in the barrier or is in its saferegion, and does  *)
(* not scan it itself.                                                     *)
THEOREM StackIsFrozen == Spec => []StackFrozen
<1>1. IInv => StackFrozen
  BY DEF IInv, Shape
<1> QED
  BY <1>1, InductiveInvariant, PTL

(* StackScanBarrier() lets no mutator of the snapshot run managed code or  *)
(* end before its stack is scanned.                                        *)
THEOREM NoneRunsUnscanned == Spec => []ScannedBeforeRunning
<1>1. IInv => ScannedBeforeRunning
  BY DEF IInv, Shape
<1> QED
  BY <1>1, InductiveInvariant, PTL

(* numMutatorToBeScan is the number of stacks still to be scanned.         *)
THEOREM CountIsExact == Spec => []CountMatches
<1>1. IInv => CountMatches
  BY DEF IInv
<1> QED
  BY <1>1, InductiveInvariant, PTL

(* When ConcurrentMarkCleanup() ends, the roots of all stacks of the       *)
(* snapshot are marked.                                                    *)
THEOREM RootsAreMarked == Spec => []AllRootsMarked
<1>1. IInv => AllRootsMarked
  BY DEF IInv, Shape
<1> QED
  BY <1>1, InductiveInvariant, PTL

(* The stack scan steps are steps of the abstract world: the barrier comes *)
(* after stop-the-world's own protocol and does not touch it.              *)
THEOREM RespectsWorld == Spec => W!Spec
<1>1. Init => W!Init
  BY DEF Init
<1>2. [Next]_vars => [W!Next]_(W!vars)
  BY DEF Next, vars, W!Next, W!vars, Collect, Barrier, InitYieldpoint,
         EnterSaferegion, LeaveSaferegion, FiniYieldpoint, StackScanBarrier,
         TrySetScanState, FutexWait, MutatorScan, MutatorSub, MutatorNotify,
         MutatorFinish, MutatorErase, StopTheWorld, StartTheWorld,
         FastScanRoots, ConcurrentStackScan, ConcurrentStackScanDone, GcScan,
         GcSub, GcFinish, GcWake, Mark, ConcurrentMarkCheck, WaitPred,
         WaitSleep
<1> QED
  BY <1>1, <1>2, PTL DEF Spec, W!Spec

=============================================================================
