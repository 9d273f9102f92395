--------------------------- MODULE ConcurrentMark ---------------------------
(***************************************************************************)
(* Concurrent marking by snapshot at the beginning: what the GC thread,    *)
(* the mark workers and the mutators do to the mark bitmap and to the SATB *)
(* buffers during one concurrent collection, with the weak references and  *)
(* the finalizable objects (collector_ms.cpp, satb_buffer.h, Mutator in    *)
(* collector.h, gc_reference_processor.cpp, rp_base.cpp; the collector     *)
(* without reference counting).                                            *)
(*                                                                         *)
(* Stop-the-world is that of module World.  The scan of a stack is one     *)
(* step of the GC thread, or two of the mutator that leaves its            *)
(* saferegion: module StackScan shows that nobody changes a stack while    *)
(* it is scanned.  The sweep frees in one step what the bitmaps leave:     *)
(* module ConcurrentSweep is about that phase.                             *)
(*                                                                         *)
(* An object has one reference field; that of a Reference is its referent. *)
(***************************************************************************)
EXTENDS Naturals, FiniteSets, Sequences, SequencesExt

CONSTANTS
  Mutators,
  Objects,        \* addresses of objects
  References,     \* those where only weak Reference objects are allocated
  Finalizables,   \* those where only objects with finalize() are allocated
  Static,         \* the slot of a static field
  Null,
  NodeCapacity,   \* entries of a SatbBuffer::Node
  ExitOvertaken,  \* a collection may end between FiniYieldpoint() of a thread
                  \* and the destructor of its Mutator
  MaxOps,         \* bound: allocations, loads and stores of the mutators
  MaxCollections  \* bound: collections

ASSUME ConstantsAssumption ==
  /\ IsFiniteSet(Mutators)
  /\ IsFiniteSet(Objects)
  /\ References \subseteq Objects
  /\ Finalizables \subseteq Objects
  /\ Static \notin Objects
  /\ Null \notin Objects
  /\ NodeCapacity \in Nat \ {0}
  /\ ExitOvertaken \in BOOLEAN
  /\ MaxOps \in Nat
  /\ MaxCollections \in Nat

VARIABLES
  attached, running, stopped,  \* see module World
  allocated,                   \* objects with the allocated bit
  field,                       \* the reference in each slot
  stack,                       \* each mutator: objects its frames refer to
  resurrectable,               \* finalizable objects not yet enqueued
  finalizables,                \* objects queued for finalize(), a root
  enqueueRefs,                 \* cleared References, chained; head is a root
  markBitmap, finalBitmap, useFinalBitmap,
  work,                        \* work stacks and mark tasks
  scanning,                    \* objects marked, children not yet copied
  toScan,                      \* mutators whose stack nobody has scanned
  discoverRefs, resurrectCandidates, finalizerFindReferences,
  finalWork,                   \* work stack of ConcurrentMarkFinalizer()
  satbNode, retiredNodes, enqueueMap,     \* SatbBuffer
  concurrentMarkRunning,       \* the collector's flag
  concurrentMarking,           \* each mutator's copy of it
  pc, op,                      \* each mutator: where it is, its next store
  gcPc, round,                 \* the GC thread: where it is; re-mark rounds
  toSweep,                     \* objects on the pages to be swept
  ops, collections,            \* count towards MaxOps, MaxCollections
  snapshot, dead               \* history: objects that were strongly
                               \* reachable in STW1, and not reachable at all

worldVars == <<attached, running, stopped>>
heapVars  == <<allocated, field, resurrectable, finalizables, enqueueRefs>>
markVars  == <<markBitmap, finalBitmap, useFinalBitmap, work, scanning, toScan>>
refVars   == <<discoverRefs, resurrectCandidates, finalizerFindReferences,
               finalWork>>
satbVars  == <<satbNode, retiredNodes, enqueueMap>>
flagVars  == <<concurrentMarkRunning, concurrentMarking>>
mutVars   == <<stack, pc, op, ops>>
gcVars    == <<gcPc, round, toSweep, collections>>
history   == <<snapshot, dead>>
vars == <<worldVars, heapVars, markVars, refVars, satbVars, flagVars, mutVars,
          gcVars, history>>

W == INSTANCE World

Slots == Objects \cup {Static}

-----------------------------------------------------------------------------
(* The heap.                                                               *)

(* The next Reference of the chain, ReferenceGetPendingNext(), as a set.   *)
PendingNext(r) ==
  {enqueueRefs[i + 1] : i \in {j \in 1 .. Len(enqueueRefs) - 1 :
                                 enqueueRefs[j] = r}}

(* What an object refers to strongly: not the referent of a Reference.     *)
Children(o) == IF o \in References THEN PendingNext(o)
                                   ELSE {field[o]} \ {Null}

(* The objects that are in every closed set that contains S.               *)
Closure(S, Succ(_)) ==
  {o \in Objects :
     \A C \in SUBSET Objects :
        (S \subseteq C /\ \A c \in C : Succ(c) \subseteq C) => o \in C}

(* Roots that FastScanRoots() finds while the world is stopped.            *)
QueueRoots ==
  finalizables \cup {enqueueRefs[i] : i \in {j \in {1} : enqueueRefs # <<>>}}

Roots == QueueRoots \cup ({field[Static]} \ {Null})
           \cup UNION {stack[m] : m \in Mutators}

Live == Closure(Roots, Children)

(* All that a mutator or the reference processor can ever get at, through  *)
(* Reference.get() or finalize() too.                                      *)
Attainable ==
  Closure(Roots \cup resurrectable,
          LAMBDA o : Children(o) \cup ({field[o]} \ {Null}))

IsGarbage(o) ==
  o \notin markBitmap /\ (useFinalBitmap => o \notin finalBitmap)

(* Between two collections, with some heap.                                *)
Init ==
  /\ attached \in SUBSET Mutators /\ running = {} /\ stopped = FALSE
  /\ allocated \in SUBSET Objects
  /\ field \in [Slots -> allocated \cup {Null}]
  /\ \A o \in Objects \ allocated : field[o] = Null
  /\ stack \in [Mutators -> SUBSET allocated]
  /\ \A m \in Mutators \ attached : stack[m] = {}
  /\ resurrectable = allocated \cap Finalizables
  /\ finalizables = {} /\ enqueueRefs = <<>>
  /\ markBitmap = {} /\ finalBitmap = {} /\ useFinalBitmap = FALSE
  /\ work = {} /\ scanning = {} /\ toScan = {}
  /\ discoverRefs = {} /\ resurrectCandidates = {}
  /\ finalizerFindReferences = {} /\ finalWork = {}
  /\ satbNode = [m \in Mutators |-> {}] /\ retiredNodes = {}
  /\ enqueueMap = {}
  /\ concurrentMarkRunning = FALSE
  /\ concurrentMarking = [m \in Mutators |-> FALSE]
  /\ pc = [m \in Mutators |-> IF m \in attached THEN "native" ELSE "absent"]
  /\ op = [m \in Mutators |-> <<>>]
  /\ gcPc = "idle" /\ round = 0 /\ toSweep = {}
  /\ ops = 0 /\ collections = 0
  /\ snapshot = {} /\ dead = {}

-----------------------------------------------------------------------------
(* Mutators.                                                               *)

Goto(m, l) == pc' = [pc EXCEPT ![m] = l]

Managed(m) == m \in running /\ pc[m] = "managed"

(* Mutant: a full node is replaced and not retired.                        *)
PushDropsFullNode(m, o) ==
  IF o = Null \/ o \in markBitmap \cup enqueueMap
  THEN UNCHANGED satbVars
  ELSE LET full == Cardinality(satbNode[m]) = NodeCapacity
       IN  /\ enqueueMap' = enqueueMap \cup {o}
           /\ retiredNodes' = retiredNodes
           /\ satbNode' = [satbNode EXCEPT ![m] = IF full THEN {o}
                                                          ELSE @ \cup {o}]

(* PushIntoSatbBuffer(): test both bitmaps, retire a full node, push.      *)
PushIntoSatbBuffer(m, o) ==
  IF o = Null \/ o \in markBitmap \cup enqueueMap
  THEN UNCHANGED satbVars
  ELSE LET full == Cardinality(satbNode[m]) = NodeCapacity
       IN  /\ enqueueMap' = enqueueMap \cup {o}
           /\ retiredNodes' = IF full THEN retiredNodes \cup satbNode[m]
                                      ELSE retiredNodes
           /\ satbNode' = [satbNode EXCEPT ![m] = IF full THEN {o}
                                                          ELSE @ \cup {o}]

SatbWriteBarrier(m, o) ==
  IF concurrentMarking[m] THEN PushIntoSatbBuffer(m, o) ELSE UNCHANGED satbVars

(* InitYieldpoint(): Mutator::Init() copies the flag of the collector,     *)
(* with the mutator list locked.                                           *)
InitYieldpoint(m) ==
  /\ pc[m] = "absent"
  /\ W!Attach(m)
  /\ concurrentMarking' = [concurrentMarking EXCEPT ![m] = concurrentMarkRunning]
  /\ Goto(m, "managed")
  /\ UNCHANGED <<heapVars, markVars, refVars, satbVars, concurrentMarkRunning,
                 stack, op, ops, gcVars, history>>

EnterSaferegion(m) ==
  /\ Managed(m)
  /\ W!Park(m)
  /\ Goto(m, "native")
  /\ UNCHANGED <<heapVars, markVars, refVars, satbVars, flagVars, stack, op,
                 ops, gcVars, history>>

(* LeaveSaferegion(), StackScanBarrier(): the mutator takes the scan of    *)
(* its stack, if the GC thread has not,                                    *)
LeaveSaferegion(m) ==
  /\ pc[m] = "native"
  /\ W!Resume(m)
  /\ toScan' = toScan \ {m}
  /\ Goto(m, IF m \in toScan THEN "scan" ELSE "managed")
  /\ UNCHANGED <<heapVars, markBitmap, finalBitmap, useFinalBitmap, work,
                 scanning, refVars, satbVars, flagVars, stack, op, ops, gcVars,
                 history>>

(* and adds a mark task.                                                   *)
ScanStackAndMark(m) ==
  /\ pc[m] = "scan"
  /\ work' = work \cup stack[m]
  /\ Goto(m, "managed")
  /\ UNCHANGED <<worldVars, heapVars, markBitmap, finalBitmap, useFinalBitmap,
                 scanning, toScan, refVars, satbVars, flagVars, stack, op, ops,
                 gcVars, history>>

(* MRT_GCFiniThreadLocal(): FiniYieldpoint() takes the mutator, which has  *)
(* no managed frames left, off the list.                                   *)
FiniYieldpoint(m) ==
  /\ pc[m] = "native"
  /\ stack[m] = {}
  /\ W!Detach(m)
  /\ toScan' = toScan \ {m}
  /\ Goto(m, "exiting")
  /\ UNCHANGED <<heapVars, markBitmap, finalBitmap, useFinalBitmap, work,
                 scanning, refVars, satbVars, flagVars, stack, op, ops, gcVars,
                 history>>

(* delete mutator: the destructor retires its node.                        *)
DeleteMutator(m) ==
  /\ pc[m] = "exiting"
  /\ retiredNodes' = retiredNodes \cup satbNode[m]
  /\ satbNode' = [satbNode EXCEPT ![m] = {}]
  /\ concurrentMarking' = [concurrentMarking EXCEPT ![m] = FALSE]
  /\ Goto(m, "absent")
  /\ UNCHANGED <<worldVars, heapVars, markVars, refVars, enqueueMap,
                 concurrentMarkRunning, stack, op, ops, gcVars, history>>

(* Mutant: a new object is left unmarked.                                  *)
NewObjUnmarked(m, o, v) ==
  /\ Managed(m) /\ ops < MaxOps
  /\ o \notin allocated
  /\ v \in IF o \in References THEN stack[m] \cup {Null} ELSE {Null}
  /\ allocated' = allocated \cup {o}
  /\ field' = [field EXCEPT ![o] = v]
  /\ resurrectable' = resurrectable \cup ({o} \cap Finalizables)
  /\ stack' = [stack EXCEPT ![m] = @ \cup {o}]
  /\ markBitmap' = markBitmap
  /\ ops' = ops + 1
  /\ dead' = dead \ {o}
  /\ UNCHANGED <<worldVars, finalizables, enqueueRefs, finalBitmap,
                 useFinalBitmap, work, scanning, toScan, refVars, satbVars,
                 flagVars, pc, op, gcVars, snapshot>>

(* NewObj() and PostNewObject(): a new object is marked during marking.    *)
(* The constructor of a Reference sets its referent, for good.             *)
NewObj(m, o, v) ==
  /\ Managed(m) /\ ops < MaxOps
  /\ o \notin allocated
  /\ v \in IF o \in References THEN stack[m] \cup {Null} ELSE {Null}
  /\ allocated' = allocated \cup {o}
  /\ field' = [field EXCEPT ![o] = v]
  /\ resurrectable' = resurrectable \cup ({o} \cap Finalizables)
  /\ stack' = [stack EXCEPT ![m] = @ \cup {o}]
  /\ markBitmap' = IF concurrentMarkRunning THEN markBitmap \cup {o}
                                            ELSE markBitmap
  /\ ops' = ops + 1
  /\ dead' = dead \ {o}
  /\ UNCHANGED <<worldVars, finalizables, enqueueRefs, finalBitmap,
                 useFinalBitmap, work, scanning, toScan, refVars, satbVars,
                 flagVars, pc, op, gcVars, snapshot>>

(* The frames of a mutator come to refer to what a slot holds,             *)
LoadRefField(m, s) ==
  /\ Managed(m) /\ ops < MaxOps
  /\ s \in (stack[m] \ References) \cup {Static}
  /\ field[s] # Null
  /\ stack' = [stack EXCEPT ![m] = @ \cup {field[s]}]
  /\ ops' = ops + 1
  /\ UNCHANGED <<worldVars, heapVars, markVars, refVars, satbVars, flagVars,
                 pc, op, gcVars, history>>

(* or no longer to an object.                                              *)
ReturnFromFrame(m, o) ==
  /\ Managed(m) /\ ops < MaxOps
  /\ o \in stack[m]
  /\ stack' = [stack EXCEPT ![m] = @ \ {o}]
  /\ ops' = ops + 1
  /\ UNCHANGED <<worldVars, heapVars, markVars, refVars, satbVars, flagVars,
                 pc, op, gcVars, history>>

(* MRT_ReferenceGetReferent(): the referent is loaded, then                *)
(* MRT_WeakRefGetBarrier() remembers it.                                   *)
ReferenceGetReferent(m, r) ==
  /\ Managed(m) /\ ops < MaxOps
  /\ r \in stack[m] \cap References
  /\ field[r] # Null
  /\ stack' = [stack EXCEPT ![m] = @ \cup {field[r]}]
  /\ op' = [op EXCEPT ![m] = <<field[r]>>]
  /\ Goto(m, "get")
  /\ ops' = ops + 1
  /\ UNCHANGED <<worldVars, heapVars, markVars, refVars, satbVars, flagVars,
                 gcVars, history>>

(* Mutant: Reference.get() does not remember the referent.                 *)
WeakRefGetNoBarrier(m) ==
  /\ pc[m] = "get"
  /\ UNCHANGED satbVars
  /\ op' = [op EXCEPT ![m] = <<>>]
  /\ Goto(m, "managed")
  /\ UNCHANGED <<worldVars, heapVars, markVars, refVars, flagVars, stack, ops,
                 gcVars, history>>

WeakRefGetBarrier(m) ==
  /\ pc[m] = "get"
  /\ SatbWriteBarrier(m, op[m][1])
  /\ op' = [op EXCEPT ![m] = <<>>]
  /\ Goto(m, "managed")
  /\ UNCHANGED <<worldVars, heapVars, markVars, refVars, flagVars, stack, ops,
                 gcVars, history>>

(* Mutant: the barrier remembers the new value.                            *)
GCWriteFieldNew(m, s, v) ==
  /\ Managed(m) /\ ops < MaxOps
  /\ s \in stack[m] \cup {Static}
  /\ v \in stack[m] \cup {Null}
  /\ s \in References => v = Null
  /\ SatbWriteBarrier(m, v)
  /\ op' = [op EXCEPT ![m] = <<s, v>>]
  /\ ops' = ops + 1
  /\ Goto(m, "store")
  /\ UNCHANGED <<worldVars, heapVars, markVars, refVars, flagVars, stack,
                 gcVars, history>>

(* GCWriteField(), UnsafePutObject(): the barrier for the old value, and   *)
(* then the store.  Static fields are written so, and referents cleared.   *)
GCWriteField(m, s, v) ==
  /\ Managed(m) /\ ops < MaxOps
  /\ s \in stack[m] \cup {Static}
  /\ v \in stack[m] \cup {Null}
  /\ s \in References => v = Null
  /\ SatbWriteBarrier(m, field[s])
  /\ op' = [op EXCEPT ![m] = <<s, v>>]
  /\ ops' = ops + 1
  /\ Goto(m, "store")
  /\ UNCHANGED <<worldVars, heapVars, markVars, refVars, flagVars, stack,
                 gcVars, history>>

StoreRefField(m) ==
  /\ pc[m] = "store"
  /\ field' = [field EXCEPT ![op[m][1]] = op[m][2]]
  /\ op' = [op EXCEPT ![m] = <<>>]
  /\ Goto(m, "managed")
  /\ UNCHANGED <<worldVars, allocated, resurrectable, finalizables,
                 enqueueRefs, markVars, refVars, satbVars, flagVars, stack,
                 ops, gcVars, history>>

(* EnqeueReferences() of the reference processor, outside a saferegion: it *)
(* takes the head of the chain, after the barrier for the next Reference.  *)
EnqueueReference(m) ==
  /\ Managed(m)
  /\ enqueueRefs # <<>>
  /\ IF Len(enqueueRefs) > 1 THEN SatbWriteBarrier(m, enqueueRefs[2])
                             ELSE UNCHANGED satbVars
  /\ stack' = [stack EXCEPT ![m] = @ \cup {Head(enqueueRefs)}]
  /\ enqueueRefs' = Tail(enqueueRefs)
  /\ UNCHANGED <<worldVars, allocated, field, resurrectable, finalizables,
                 markVars, refVars, flagVars, pc, op, ops, gcVars, history>>

(* ProcessFinalizablesList(): finalize() runs on an object of the queue.   *)
ProcessFinalizable(m, o) ==
  /\ Managed(m)
  /\ o \in finalizables
  /\ stack' = [stack EXCEPT ![m] = @ \cup {o}]
  /\ finalizables' = finalizables \ {o}
  /\ UNCHANGED <<worldVars, allocated, field, resurrectable, enqueueRefs,
                 markVars, refVars, satbVars, flagVars, pc, op, ops, gcVars,
                 history>>

-----------------------------------------------------------------------------
(* The GC thread and the workers of its thread pool.                       *)

(* The workers execute mark tasks.                                         *)
Marking == gcPc \in {"stacks", "drain", "remarkDrain", "cleanupDrain"}

(* ConcurrentMarkTask::Execute(): take an object, mark it,                 *)
MarkObject(o) ==
  /\ Marking
  /\ o \in work
  /\ work' = work \ {o}
  /\ markBitmap' = markBitmap \cup {o}
  /\ scanning' = IF o \in markBitmap THEN scanning ELSE scanning \cup {o}
  /\ UNCHANGED <<worldVars, heapVars, finalBitmap, useFinalBitmap, toScan,
                 refVars, satbVars, flagVars, mutVars, gcVars, history>>

(* A Reference that CopyChildRefs() finds with an unmarked referent, and   *)
(* that is in no list yet.                                                 *)
Discoverable(r) ==
  /\ r \in References
  /\ field[r] # Null
  /\ IsGarbage(field[r])

(* CopyChildRefs(): push the children, discover a Reference.               *)
CopyChildRefs(o) ==
  /\ o \in scanning
  /\ scanning' = scanning \ {o}
  /\ work' = work \cup Children(o)
  /\ discoverRefs' = IF Discoverable(o) THEN discoverRefs \cup {o}
                                        ELSE discoverRefs
  /\ UNCHANGED <<worldVars, heapVars, markBitmap, finalBitmap,
                 useFinalBitmap, toScan, resurrectCandidates,
                 finalizerFindReferences, finalWork, satbVars, flagVars,
                 mutVars, gcVars, history>>

(* ConcurrentMSPreSTW1(): SatbBuffer::Init().                              *)
ConcurrentMSPreSTW1 ==
  /\ gcPc = "idle" /\ collections < MaxCollections
  /\ collections' = collections + 1
  /\ retiredNodes' = {}
  /\ gcPc' = "stop1"
  /\ UNCHANGED <<worldVars, heapVars, markVars, refVars, satbNode, enqueueMap,
                 flagVars, mutVars, round, toSweep, history>>

(* The two stop-the-world phases.                                          *)
StopTheWorld ==
  /\ gcPc \in {"stop1", "stop2"}
  /\ ExitOvertaken \/ \A m \in Mutators : pc[m] # "exiting"
  /\ W!Stop
  /\ gcPc' = IF gcPc = "stop1" THEN "prepare" ELSE "cleanup"
  /\ UNCHANGED <<heapVars, markVars, refVars, satbVars, flagVars, mutVars,
                 round, toSweep, collections, history>>

StartTheWorld ==
  /\ gcPc \in {"start1", "start2"}
  /\ W!Start
  /\ gcPc' = IF gcPc = "start1" THEN "stacks" ELSE "reset"
  /\ UNCHANGED <<heapVars, markVars, refVars, satbVars, flagVars, mutVars,
                 round, toSweep, collections, history>>

(* ConcurrentMarkPreparePhase(): FastScanRoots(), ConcurrentMarkPrepare(). *)
ConcurrentMarkPrepare ==
  /\ gcPc = "prepare"
  /\ work' = QueueRoots
  /\ toScan' = attached
  /\ concurrentMarkRunning' = TRUE
  /\ concurrentMarking' = [m \in Mutators |-> \/ m \in attached
                                              \/ concurrentMarking[m]]
  /\ snapshot' = Live
  /\ dead' = allocated \ Attainable
  /\ gcPc' = "start1"
  /\ UNCHANGED <<worldVars, heapVars, markBitmap, finalBitmap,
                 useFinalBitmap, scanning, refVars, satbVars, mutVars, round,
                 toSweep, collections>>

(* ConcurrentStackScan(): the GC thread scans a stack;                     *)
ConcurrentStackScan(m) ==
  /\ gcPc = "stacks"
  /\ m \in toScan
  /\ toScan' = toScan \ {m}
  /\ work' = work \cup stack[m]
  /\ UNCHANGED <<worldVars, heapVars, markBitmap, finalBitmap,
                 useFinalBitmap, scanning, refVars, satbVars, flagVars,
                 mutVars, gcVars, history>>

(* ConcurrentStaticRootsScan().                                            *)
ConcurrentStaticRootsScan ==
  /\ gcPc = "stacks"
  /\ toScan = {}
  /\ work' = work \cup ({field[Static]} \ (markBitmap \cup {Null}))
  /\ gcPc' = "drain"
  /\ UNCHANGED <<worldVars, heapVars, markBitmap, finalBitmap, useFinalBitmap,
                 scanning, toScan, refVars, satbVars, flagVars, mutVars, round,
                 toSweep, collections, history>>

(* WaitFinish() of the thread pool returns.                                *)
Drained == work = {} /\ scanning = {}

(* ConcurrentMark() waits for the workers,                                 *)
ConcurrentMarkDrained ==
  /\ gcPc = "drain"
  /\ Drained
  /\ gcPc' = "wait"
  /\ UNCHANGED <<worldVars, heapVars, markVars, refVars, satbVars, flagVars,
                 mutVars, round, toSweep, collections, history>>

(* and for the mutators that scan their stacks, which may add tasks.  Then *)
(* ConcurrentProcessDisovered() keeps the References with a dead referent. *)
ConcurrentProcessDisovered ==
  /\ gcPc = "wait"
  /\ \A m \in Mutators : pc[m] # "scan"
  /\ discoverRefs' = {r \in discoverRefs : Discoverable(r)}
  /\ gcPc' = "candidates"
  /\ UNCHANGED <<worldVars, heapVars, markVars, resurrectCandidates,
                 finalizerFindReferences, finalWork, satbVars, flagVars,
                 mutVars, round, toSweep, collections, history>>

(* ConcurrentPrepareResurrection(): the unmarked finalizable objects.      *)
ConcurrentPrepareResurrection ==
  /\ gcPc = "candidates"
  /\ resurrectCandidates' = resurrectable \ markBitmap
  /\ finalWork' = resurrectable \ markBitmap
  /\ gcPc' = "markFinal"
  /\ UNCHANGED <<worldVars, heapVars, markVars, discoverRefs,
                 finalizerFindReferences, satbVars, flagVars, mutVars, round,
                 toSweep, collections, history>>

(* ConcurrentMarkFinalizer(): mark what they reach in the second bitmap.   *)
ConcurrentMarkFinalizer(o) ==
  /\ gcPc = "markFinal"
  /\ o \in finalWork
  /\ LET seen == o \in markBitmap \cup finalBitmap
     IN  /\ finalWork' = (finalWork \ {o}) \cup (IF seen THEN {} ELSE Children(o))
         /\ finalBitmap' = IF seen THEN finalBitmap ELSE finalBitmap \cup {o}
         /\ finalizerFindReferences' =
              IF ~seen /\ Discoverable(o) THEN finalizerFindReferences \cup {o}
                                          ELSE finalizerFindReferences
  /\ UNCHANGED <<worldVars, heapVars, markBitmap, useFinalBitmap, work,
                 scanning, toScan, discoverRefs, resurrectCandidates,
                 satbVars, flagVars, mutVars, gcVars, history>>

ConcurrentMarkFinalizerDone ==
  /\ gcPc = "markFinal"
  /\ finalWork = {}
  /\ gcPc' = "remark"
  /\ round' = 0
  /\ UNCHANGED <<worldVars, heapVars, markVars, refVars, satbVars, flagVars,
                 mutVars, toSweep, collections, history>>

(* kReMarkRounds.                                                          *)
ReMarkRounds == 2

(* ConcurrentReMark(): mark from the retired nodes and from late tasks.    *)
ConcurrentReMark ==
  /\ gcPc = "remark"
  /\ work' = work \cup retiredNodes
  /\ retiredNodes' = {}
  /\ round' = round + 1
  /\ gcPc' = IF work' = {} THEN "stop2" ELSE "remarkDrain"
  /\ UNCHANGED <<worldVars, heapVars, markBitmap, finalBitmap, useFinalBitmap,
                 scanning, toScan, refVars, satbNode, enqueueMap, flagVars,
                 mutVars, toSweep, collections, history>>

ConcurrentReMarkDrained ==
  /\ gcPc = "remarkDrain"
  /\ Drained
  /\ gcPc' = IF round < ReMarkRounds THEN "remark" ELSE "stop2"
  /\ UNCHANGED <<worldVars, heapVars, markVars, refVars, satbVars, flagVars,
                 mutVars, round, toSweep, collections, history>>

(* ConcurrentMarkCleanup(), in STW2: take all that is left in the buffers  *)
(* of the mutators on the list,                                            *)
ConcurrentMarkCleanup ==
  /\ gcPc = "cleanup"
  /\ work' = work \cup retiredNodes \cup UNION {satbNode[m] : m \in attached}
  /\ retiredNodes' = {}
  /\ satbNode' = [m \in Mutators |-> IF m \in attached THEN {}
                                                       ELSE satbNode[m]]
  /\ concurrentMarking' = [m \in Mutators |-> /\ m \notin attached
                                              /\ concurrentMarking[m]]
  /\ gcPc' = "cleanupDrain"
  /\ UNCHANGED <<worldVars, heapVars, markBitmap, finalBitmap, useFinalBitmap,
                 scanning, toScan, refVars, enqueueMap, concurrentMarkRunning,
                 mutVars, round, toSweep, collections, history>>

(* and mark from there.                                                    *)
ConcurrentMarkCleanupDrained ==
  /\ gcPc = "cleanupDrain"
  /\ Drained
  /\ concurrentMarkRunning' = FALSE
  /\ gcPc' = "resurrect"
  /\ UNCHANGED <<worldVars, heapVars, markVars, refVars, satbVars,
                 concurrentMarking, mutVars, round, toSweep, collections,
                 history>>

(* Mutant: the References that dead objects reach are forgotten.           *)
ResurrectionPhaseOnePass ==
  /\ gcPc = "resurrect"
  /\ LET first == {r \in discoverRefs : Discoverable(r)}
     IN  /\ field' = [s \in Slots |-> IF s \in first THEN Null ELSE field[s]]
         /\ \E new \in SetToSeqs(first) : enqueueRefs' = new \o enqueueRefs
  /\ discoverRefs' = {}
  /\ useFinalBitmap' = TRUE
  /\ gcPc' = "sweepPrepare"
  /\ UNCHANGED <<worldVars, allocated, resurrectable, finalizables,
                 markBitmap, finalBitmap, work, scanning, toScan,
                 resurrectCandidates, finalizerFindReferences, finalWork,
                 satbVars, flagVars, mutVars, round, toSweep, collections,
                 history>>

(* ResurrectionPhase(): ProcessDiscoveredReference() clears the discovered *)
(* References whose referent is unmarked; DoResurrection() adds those that *)
(* only dead finalizable objects reach, and they are cleared if the        *)
(* referent is in neither bitmap.                                          *)
ResurrectionPhase ==
  /\ gcPc = "resurrect"
  /\ LET first  == {r \in discoverRefs : Discoverable(r)}
         second == {r \in finalizerFindReferences :
                      Discoverable(r) /\ field[r] \notin finalBitmap}
     IN  /\ field' = [s \in Slots |-> IF s \in first \cup second THEN Null
                                                                ELSE field[s]]
         /\ \E new \in SetToSeqs(first \cup second) :
              enqueueRefs' = new \o enqueueRefs
  /\ discoverRefs' = {}
  /\ useFinalBitmap' = TRUE
  /\ gcPc' = "sweepPrepare"
  /\ UNCHANGED <<worldVars, allocated, resurrectable, finalizables,
                 markBitmap, finalBitmap, work, scanning, toScan,
                 resurrectCandidates, finalizerFindReferences, finalWork,
                 satbVars, flagVars, mutVars, round, toSweep, collections,
                 history>>

(* ConcurrentSweepPreparePhase().                                          *)
PrepareConcurrentSweep ==
  /\ gcPc = "sweepPrepare"
  /\ toSweep' = {o \in allocated : IsGarbage(o)}
  /\ gcPc' = "start2"
  /\ UNCHANGED <<worldVars, heapVars, markVars, refVars, satbVars, flagVars,
                 mutVars, round, collections, history>>

(* ConcurrentMSPostSTW2(): SatbBuffer::Reset().                            *)
ConcurrentMSPostSTW2 ==
  /\ gcPc = "reset"
  /\ retiredNodes' = {}
  /\ enqueueMap' = {}
  /\ gcPc' = "finalizers"
  /\ UNCHANGED <<worldVars, heapVars, markVars, refVars, satbNode, flagVars,
                 mutVars, round, toSweep, collections, history>>

(* Mutant: the candidates are not checked again.                           *)
AddStaleFinalizers ==
  /\ gcPc = "finalizers"
  /\ LET deadFinalizers == resurrectCandidates
     IN  /\ finalizables' = finalizables \cup deadFinalizers
         /\ resurrectable' = resurrectable \ deadFinalizers
  /\ resurrectCandidates' = {}
  /\ finalizerFindReferences' = {}
  /\ gcPc' = "sweep"
  /\ UNCHANGED <<worldVars, allocated, field, enqueueRefs, markVars,
                 discoverRefs, finalWork, satbVars, flagVars, mutVars, round,
                 toSweep, collections, history>>

(* ConcurrentAddFinalizerToRP(), then ResurrectionCleanup().               *)
ConcurrentAddFinalizerToRP ==
  /\ gcPc = "finalizers"
  /\ LET deadFinalizers == (resurrectCandidates \ markBitmap) \cap resurrectable
     IN  /\ finalizables' = finalizables \cup deadFinalizers
         /\ resurrectable' = resurrectable \ deadFinalizers
  /\ resurrectCandidates' = {}
  /\ finalizerFindReferences' = {}
  /\ gcPc' = "sweep"
  /\ UNCHANGED <<worldVars, allocated, field, enqueueRefs, markVars,
                 discoverRefs, finalWork, satbVars, flagVars, mutVars, round,
                 toSweep, collections, history>>

(* ConcurrentSweep().                                                      *)
ConcurrentSweep ==
  /\ gcPc = "sweep"
  /\ allocated' = allocated \ toSweep
  /\ toSweep' = {}
  /\ gcPc' = "swept"
  /\ UNCHANGED <<worldVars, field, resurrectable, finalizables, enqueueRefs,
                 markVars, refVars, satbVars, flagVars, mutVars, round,
                 collections, history>>

(* Mutant: the bitmaps keep the marks of this collection.                  *)
ResetBitmapNot ==
  /\ gcPc = "swept"
  /\ gcPc' = "idle"
  /\ UNCHANGED <<worldVars, heapVars, markVars, refVars, satbVars,
                 flagVars, mutVars, round, toSweep, collections, history>>

(* The end of RunMarkAndSweep(): ResetBitmap().                            *)
ResetBitmap ==
  /\ gcPc = "swept"
  /\ markBitmap' = {} /\ finalBitmap' = {} /\ useFinalBitmap' = FALSE
  /\ gcPc' = "idle"
  /\ UNCHANGED <<worldVars, heapVars, work, scanning, toScan, refVars,
                 satbVars, flagVars, mutVars, round, toSweep, collections,
                 history>>

-----------------------------------------------------------------------------
Mutate(m) ==
  \/ InitYieldpoint(m) \/ EnterSaferegion(m) \/ LeaveSaferegion(m)
  \/ ScanStackAndMark(m) \/ FiniYieldpoint(m) \/ DeleteMutator(m)
  \/ \E o \in Objects, v \in Objects \cup {Null} : NewObj(m, o, v)
  \/ \E s \in Slots : LoadRefField(m, s)
  \/ \E o \in Objects : ReturnFromFrame(m, o) \/ ProcessFinalizable(m, o)
  \/ \E r \in References : ReferenceGetReferent(m, r)
  \/ \E s \in Slots, v \in Objects \cup {Null} : GCWriteField(m, s, v)
  \/ WeakRefGetBarrier(m) \/ StoreRefField(m) \/ EnqueueReference(m)

Collect ==
  \/ \E o \in Objects : \/ MarkObject(o) \/ CopyChildRefs(o)
                        \/ ConcurrentMarkFinalizer(o)
  \/ \E m \in Mutators : ConcurrentStackScan(m)
  \/ ConcurrentMSPreSTW1 \/ StopTheWorld \/ StartTheWorld
  \/ ConcurrentMarkPrepare \/ ConcurrentStaticRootsScan
  \/ ConcurrentMarkDrained \/ ConcurrentProcessDisovered
  \/ ConcurrentPrepareResurrection \/ ConcurrentMarkFinalizerDone
  \/ ConcurrentReMark \/ ConcurrentReMarkDrained
  \/ ConcurrentMarkCleanup \/ ConcurrentMarkCleanupDrained
  \/ ResurrectionPhase \/ PrepareConcurrentSweep \/ ConcurrentMSPostSTW2
  \/ ConcurrentAddFinalizerToRP \/ ConcurrentSweep \/ ResetBitmap

Next == Collect \/ \E m \in Mutators : Mutate(m)

Spec == Init /\ [][Next]_vars

-----------------------------------------------------------------------------
(* Properties.                                                             *)

TypeOK ==
  /\ attached \in SUBSET Mutators /\ running \in SUBSET attached
  /\ stopped \in BOOLEAN
  /\ allocated \in SUBSET Objects
  /\ field \in [Slots -> Objects \cup {Null}]
  /\ stack \in [Mutators -> SUBSET Objects]
  /\ resurrectable \in SUBSET Finalizables
  /\ finalizables \in SUBSET Finalizables
  /\ enqueueRefs \in Seq(References)
  /\ markBitmap \in SUBSET Objects /\ finalBitmap \in SUBSET Objects
  /\ useFinalBitmap \in BOOLEAN
  /\ work \in SUBSET Objects /\ scanning \in SUBSET Objects
  /\ toScan \in SUBSET Mutators
  /\ discoverRefs \in SUBSET References
  /\ resurrectCandidates \in SUBSET Finalizables
  /\ finalizerFindReferences \in SUBSET References
  /\ finalWork \in SUBSET Objects
  /\ satbNode \in [Mutators -> SUBSET Objects]
  /\ retiredNodes \in SUBSET Objects /\ enqueueMap \in SUBSET Objects
  /\ concurrentMarkRunning \in BOOLEAN
  /\ concurrentMarking \in [Mutators -> BOOLEAN]
  /\ pc \in [Mutators -> {"absent", "managed", "native", "scan", "exiting",
                          "get", "store"}]
  /\ \A m \in Mutators :
       /\ pc[m] = "get" => op[m] \in Seq(Objects)
       /\ pc[m] = "store" => op[m] \in Slots \X (Objects \cup {Null})
  /\ gcPc \in {"idle", "stop1", "prepare", "start1", "stacks", "drain", "wait",
               "candidates", "markFinal", "remark", "remarkDrain", "stop2",
               "cleanup", "cleanupDrain", "resurrect", "sweepPrepare",
               "start2", "reset", "finalizers", "sweep", "swept"}
  /\ round \in 0 .. ReMarkRounds
  /\ toSweep \in SUBSET Objects
  /\ ops \in 0 .. MaxOps /\ collections \in 0 .. MaxCollections
  /\ snapshot \in SUBSET Objects /\ dead \in SUBSET Objects

(* What a mutator can reach is never freed.                                *)
ReachableAllocated == Live \subseteq allocated

(* A Reference that can be reached refers to no freed object: it was       *)
(* cleared before its referent was freed.                                  *)
NoDanglingReferent ==
  \A r \in Live \cap References : field[r] \in allocated \cup {Null}

(* Snapshot at the beginning: at the end of marking everything that was    *)
(* strongly reachable in the first stop-the-world is marked.               *)
SnapshotMarked == gcPc = "resurrect" => snapshot \subseteq markBitmap

(* An object that enqueueMap keeps out of the SATB buffers is marked, or   *)
(* is still on the way there.                                              *)
LoggedNotLost ==
  concurrentMarkRunning =>
    enqueueMap \subseteq markBitmap \cup work \cup retiredNodes
                         \cup UNION {satbNode[m] : m \in Mutators}

(* All that is reachable when marking has ended is marked, as marking      *)
(* again in the second stop-the-world, for a test, would find.             *)
LiveMarked == gcPc = "resurrect" => Live \subseteq markBitmap

(* When the pages of the SATB buffers are returned nobody holds a node.    *)
NodesReturned ==
  gcPc \in {"finalizers", "sweep", "swept", "idle", "stop1"} =>
    \A m \in Mutators : satbNode[m] = {}

(* The SATB buffers are consistent: well-typed, they lose no entry that    *)
(* enqueueMap has seen, also when a full node is retired or its mutator    *)
(* exits, and no node outlives their pages.                                *)
SatbConsistent == TypeOK /\ LoggedNotLost /\ NodesReturned

(* Only objects that nobody can reach are queued for finalize(), although  *)
(* they were chosen while Reference.get() could still return them.         *)
FinalizedOnlyIfDead ==
  [][\A o \in finalizables' \ finalizables : o \notin Live]_vars

(* What nobody could get at in the first stop-the-world is freed.          *)
GarbageFreed == gcPc = "swept" => dead \cap allocated = {}

(* The collector clears a Reference only if no mutator can reach the       *)
(* referent.                                                               *)
ClearedOnlyIfDead ==
  [][\A r \in References :
       (gcPc = "resurrect" /\ field[r] # field'[r]) => field[r] \notin Live]_vars

=============================================================================
