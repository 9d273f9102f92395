# TLA+ models of the Maple runtime

This directory specifies and verifies the part of openmaple/MapleCompiler in
which threads meet: the memory-management core of the Maple runtime under
`src/mrt/compiler-rt`. The compiler itself (`src/mapleall`, `src/mplfe`) is
mostly sequential translation; the runtime is where interleavings, lost
wake-ups and stale values decide whether a program is correct, and where unit
tests reach little.

Source paths below are relative to `src/mrt/compiler-rt/` unless they start
with `src/`.

## 1. Inventory

### Saferegions, yieldpoints, stop-the-world

`include/saferegion.h`, `include/mutator_list.h`, `include/yieldpoint.h`,
`src/yieldpoint.cpp`

* State: the 64-bit word `SaferegionState` (`saferegionCount`,
  `pendingCount`), `Mutator::inSaferegion`, the mutator list and its mutex,
  the runtime's `threadListLock`, the recursive `stwMutex`, the protection of
  the polling page, `worldStopped`, `saferegionStateChanged`.
* Operations: `EnterSaferegion`, `LeaveSaferegion` and their slow paths,
  `MRT_YieldpointHandler`, `InitYieldpoint`, `FiniYieldpoint`, `StopTheWorld`,
  `WaitForAllMutatorsStopped`, `StartTheWorld`, `LockStopTheWorld`.
* Hard: a mutator leaves its saferegion while another thread is about to stop
  the world; two futexes with the usual check-then-sleep races; threads that
  attach and detach during a stop; mutators that stop the world themselves;
  a global (`saferegionStateChanged`) that outlives the function setting it.
* Correct when: a stopped world has no mutator in managed code, the counter is
  exact, both waits end, no `LOG(FATAL)` branch but those of the time-outs is
  reachable.

### GC requests and the GC thread

`include/collector/task_queue.h`, `src/collector/collector_tracing.cpp`,
`src/collector/gc_reason.cpp`, hooks of `src/collector/collector_ms.cpp`

* State: the lock-free bit set `tqWord`, the locked FIFO `syncTaskQueue`,
  `queueSyncIndex`, `finishedGcIndex`, `isGcTriggered`, `gcThreadRunning`.
* Operations: `InvokeGC` (blocking, lite-blocking, non-blocking),
  `WaitGCStopped`, `Dequeue`, `GCTask::Execute`, `NotifyGCFinished`,
  `StartThread`, `StopThread`, `JoinThread`, the stop and restart round a fork.
* Hard: requests during a collection, merging of requests, tasks that override
  others, a Timeout task racing a request, termination with requests pending,
  indices that restart from one.
* Correct when: a blocking request returns, and not before a collection of its
  own; nobody sleeps without a wake-up to come; the queue is bounded.

### GC worker thread pool

`include/collector/mpl_thread_pool.h`, `src/collector/mpl_thread_pool.cpp`

* State: flags `running` and `exit`, the task queue, `maxActiveThreadNum`,
  `currActiveThreadNum`, `currWaittingThreadNum`, four condition variables.
* Operations: `WorkerFunc`, `AddTask`, `SetMaxActiveThreadNum`, `Start`,
  `WaitFinish`, `Stop`, `DrainTaskQueue`, `Exit`, the destructor.
* Hard: termination detection while tasks add tasks, `Exit()` from another
  thread at any moment, counters changed on both sides of every wait.
* Correct when: `WaitFinish()` returns, with every task executed and every
  worker quiet; the limit on active threads is kept; the destructor returns.

### Concurrent stack scanning

`src/collector/collector_ms.cpp` (`StackScanBarrier`, `ScanStackAndMark`,
`ConcurrentStackScan`, `ConcurrentMark`, `ConcurrentReMark`,
`ConcurrentMarkCleanup`), `include/collector/collector.h` (`TrySetScanState`,
`FinishStackScan`), `FastScanRoots` in `src/collector/collector_tracing.cpp`

* State: `Mutator::scanState`, `snapshotMutators`, `numMutatorToBeScan`,
  mark tasks.
* Hard: two threads may scan the same stack; a mutator may end while the GC
  thread holds a pointer to it; a mutator may add roots after marking has
  "finished"; a condition variable notified without its mutex.
* Correct when: each stack is scanned exactly once, while frozen, before its
  owner runs again; its roots are marked; both waits end.

### Concurrent marking, SATB buffers, weak references and finalizers

`src/collector/collector_ms.cpp`, `include/collector/collector_ms.h`,
`include/collector/satb_buffer.h`, `Mutator` in `include/collector/collector.h`,
the write barriers of `src/cinterface.cpp`,
`src/collector/gc_reference_processor.cpp`, `src/collector/rp_base.cpp`

* State: `markBitmap`, `finalBitmap`, `useFinalBitmap`, work stacks and mark
  tasks, the SATB node of each mutator, `retiredNodes`, `enqueueMap`, the
  collector's flag `concurrentMarkRunning` and each mutator's copy of it, the
  lists of discovered References and of finalizable candidates, the chain of
  cleared References and the queue of objects to finalize.
* Operations: allocation, loads, `GCWriteField`, `MRT_ReferenceGetReferent`,
  attach and exit of mutators; the phases of `RunMarkAndSweep` from
  `ConcurrentMSPreSTW1` to `ResetBitmap`.
* Hard: the graph changes while it is traversed; barrier and store are two
  steps; an object is logged once only, so an entry that gets lost is lost for
  good; references are discovered against a bitmap that goes on growing;
  finalizable objects are chosen long before they are queued.
* Correct when: what was reachable at the first stop is marked at the second;
  nothing reachable is freed and all garbage of the snapshot is; References are
  cleared and objects finalized exactly when nobody can reach them.

### Allocator and concurrent sweep

`src/allocator/ros_allocator.cpp`, `include/allocator/ros_allocator.h`,
`include/allocator/ros_allocator_inlined.h`, `include/allocator/ros_alloc_run.h`

* State: page map and free pages, runs with their free list, the lists of
  non-full runs, each mutator's local run and local free list, the list saved
  during a sweep (`freeListHeads`), `globalMutator` and its lock; of the sweep
  `SweepContext` (a copy of the page map, `refCount`, `highestPageIndex`).
* Operations: allocation (local, global, new run, large object), `FreeInternal`
  from any thread, exit of a mutator; `PrepareConcurrentSweep`, `SweepPages`,
  `SetSweeping`, `WaitUntilSwept`, `DoSweep`, `SetSwept`, release.
* Hard: workers and mutators race for each page; a mutator may use a run only
  after it is swept; a run found empty may be in a mutator's hands; the page
  map is freed while its entries may still be read; a condition variable
  notified without its mutex, saved by a time-out.
* Correct when: no object in use is freed, no slot is lost or handed out twice,
  a run has one holder, the sweep ends and leaves no garbage, callers return.

### How they interact

The GC thread takes a task from the queue (GCRequest), holds
`LockStopTheWorld` for the collection and stops the world twice (Saferegion).
Between the two stops it scans stacks together with the mutators (StackScan)
and marks with the worker pool (ThreadPool), while the mutators log what they
overwrite (ConcurrentMark). After the second stop the pool sweeps, together
with every mutator that allocates or frees (ConcurrentSweep). A mutator that
leaves a saferegion passes the counters of Saferegion first and the barrier of
StackScan next. `NotifyGCFinished` wakes the requesters.

### Parts that are not modelled

| Part | Why |
| --- | --- |
| reference counting collectors | planned, section 8 |
| cycle patterns | graph matching, of interest only with reference counting |
| reference processor thread | what it takes from its queues is in ConcurrentMark; its start, stop and notification are planned |
| `src/mapleall/maple_util` `MplScheduler` | planned; same technique as ThreadPool |
| C entry points, watchdog, logging, profiling | forward to modelled parts, or keep statistics |
| linker, class loader | large, data-driven, mostly sequential |
| exceptions, unwinding | machine-level stack walking |
| middle end, back end, driver, front ends | sequential algorithms over large data |

The compiler proper is about nine tenths of the lines of the repository: an IR
with hundreds of node kinds, optimisation phases and an AArch64 code generator.
They translate one data structure into another, in one thread; their faults are
in the treatment of single opcodes, which a state model would have to repeat
line by line. The project therefore covers the concurrent core of the runtime
in depth and a small share of the repository by lines.

## 2. Modules

| Module | Models | Uses |
| --- | --- | --- |
| `World` | what stop-the-world promises | |
| `Saferegion` | the saferegion protocol | `World`, as refinement |
| `GCRequest` | task queues, requests, life of the GC thread | |
| `ThreadPool` | `MplThreadPool` | |
| `StackScan` | stack scanning and its barrier | `World`, composed |
| `ConcurrentMark` | SATB marking, weak references, finalizers | `World`, composed |
| `ConcurrentSweep` | allocator and concurrent sweep | |
| `...Proofs` | theorems about the module of that name | that module, TLAPS |
| `SweepHeapProofs` | theorems about the heap of `ConcurrentSweep` | `ConcurrentSweepProofs` |
| `MC...` | small instances for TLC | |

`World` is the hinge: `Saferegion` is shown to implement it, and `StackScan` and
`ConcurrentMark` build their actions on the actions of `World` instead of
repeating the protocol. `ConcurrentMark` takes from `StackScan` that a stack is
frozen while it is scanned; `ConcurrentSweep` starts where `ConcurrentMark`
ends, from any set of marked objects.

A step is one access to state other threads use: an atomic operation, a futex
call, a critical section. A critical section is split where the code releases
the lock (a wait) or touches state the lock does not protect. `pc` says where a
thread is; names of variables and actions are those of the source. Definitions
marked "Mutant" are variants of the definition that follows them with a
plausible bug; no specification uses them. They document that each property can
fail.

### Saferegion

* `saferegionCount` and `pendingCount` share a word, so one step may read both.
  `EnterInc` is the atomic add; `EnterSet` stores the flag and compares the
  values from the add (`last`), not the current ones.
* `LeaveDec`, `SlowInc`, `SlowWait`, `SlowDec` are the loop of
  `LeaveSaferegionSlowPath`: the futex call compares before it sleeps, and may
  end early (`SlowInterrupted`).
* `FiniYieldpoint` holds the list lock from the removal to `RemoveMutatorFini`,
  as `RemoveMutator` does, with the whole `LeaveSaferegion` in between.
* `StopTheWorld` may be called by a GC thread, which may hold `stwMutex`
  already, and by a mutator inside or outside a saferegion. The spin loops on
  the two locks are the guards of `StwThreadList` and `StwMutatorList`.
* External: other holders of `threadListLock` (`RuntimeThreadListLock`).
* Left out: real time, so also the fatal errors after thirty time-outs of
  `WaitForAllMutatorsStopped` and after thirty seconds in a spin loop; stack
  bounds, signal masks, the dumps, the sanity check of
  `YieldpointInitAfterFork`. `StackScanBarrier`, called at the end of leaving a
  saferegion, is module `StackScan`.

### GCRequest

* `tqWord` is the set of its one-bits. `Push` of an overriding task erases the
  bits above it, in one compare-and-exchange.
* `Enqueue` is the critical section of `EnqueueSync` with the filter of
  `RequestGCAndWait`; `EnqueueAsync` and `NotifyAsync` are two steps because
  the push takes no lock. `Dequeue` is split at its operations on `tqWord`
  (`QueueLocked` says that it keeps the lock meanwhile).
* `queueSyncIndex` has no initialiser: it starts as any of three values.
* `since` and `owed` are history variables: what collections have done since a
  blocking request, and which non-blocking requests no collection has followed.
* Before a fork all other threads have been stopped and none asks for a
  collection until the GC thread is restarted (`MRT_GCPreFork`,
  `MRT_GCPostForkCommon` in `src/cinterface.cpp`): `forking`.
* `EarlyRequests` lets requests come before `TaskQueue::Init()`; only run
  `gcrequest_early` sets it.
* Left out: `ShouldIgnore` (a rejected request changes nothing), statistics,
  what a collection does (between `StartGC` and `FinishGC`).

### ThreadPool

* The GC thread is the caller of all operations except `Exit`, which another
  thread may call at any time, and `AddTask`, which tasks and mutators call.
* A notified thread is at "resumeSleep" or "resumeWait" until it gets the lock
  again; it still counts as asleep or waiting, as in the code.
* `SetMaxActiveThreadNum` happens on a stopped pool only, which is what
  `mpl_thread_pool.h` asks for and what every caller does.
* Tasks are numbers; one may add tasks while it executes. `executed` is a
  history variable. `SetPriority` changes no state of the pool.

### StackScan

* A mutator that has left its saferegion passes `StackScanBarrier`: compare and
  exchange on `scanState`, or a futex wait while the GC thread scans.
* `MutatorSub` and `MutatorNotify` are two steps, without `snapshotMutex`;
  `WaitPred` and `WaitSleep` are the two halves of a condition variable's wait.
* Roots become a member of `tasks`, or nothing if the stack has none. Marking is
  "all tasks are executed"; the three places that do so are `ConcurrentMark`,
  `ConcurrentReMark` and `ConcurrentMarkCleanup`.

### ConcurrentMark

* An object has one reference field; that of a Reference is its referent, which
  a constructor sets and a mutator can only clear. A static field and the
  stacks are the roots, with the chain of cleared References and the queue of
  objects to finalize.
* `GCWriteField` is the barrier, `StoreRefField` the store after it.
  `ReferenceGetReferent` and `WeakRefGetBarrier` are the load and the barrier
  after it. `MarkObject` sets the bit, `CopyChildRefs` reads the children in a
  later step. `FiniYieldpoint` takes an exiting mutator off the list,
  `DeleteMutator` retires its node.
* `snapshot` and `dead` are history variables, set in the first stop: what is
  strongly reachable, and what nobody can get at even through Reference.get()
  or finalize().
* `ExitOvertaken` lets the world be stopped between `FiniYieldpoint` and
  `DeleteMutator`. Only run `mark_exit` sets it; the others show what holds
  apart from that disagreement (section 5).
* The dirty bit of objects is never set in this build (`SetDirty` has no
  caller), so the barrier does not test it here.
* External: `ReturnFromFrame`, compiled code that drops a reference.
* Left out: the stop-the-world mode, soft and phantom References and the order
  of the kinds, weak global references, the string table, the collector that
  counts references too. The sweep frees in one step what `ConcurrentSweep`
  frees in many.

### ConcurrentSweep

* `th[t]` holds where thread `t` is and the locals it takes across steps. The
  sweep of a page is one procedure, called by workers and mutators; `ret` is
  where the caller goes on.
* `SetSweeping` is the compare-and-exchange loop on a page's state.
  `WaitUntilSwept` and `BlockUntilSwept` are the two halves of the wait;
  `SetSwept` notifies without `contextMutex`; its `TryIncRC`, store, notification
  and `DecRC` are one step, since the reference held in between only lets the
  copy of the page map live on. `SweepTimeout` is the time-out of
  three seconds, taken only once the page is swept: no page takes three seconds.
* `DoSweep` frees slot by slot, without a lock (`SweepSlot`), and then updates
  the lists (`DoSweepDone`).
* `live` is a history variable: what is marked in the second stop, and what was
  allocated since and not freed.
* Left out: size classes other than one, runs of more than one page, the
  cartesian tree of free regions, trimming, the pages shared after a fork. A
  failed allocation ends the operation; the code asks for a collection and
  tries again.

## 3. Runs

| Run | Instance | Shows |
| --- | --- | --- |
| `saferegion` | 2 mutators, 1 GC thread | `CountExact`, `StoppedWorldIsQuiet`, `NoFatal`, `OwnStateRestored`, `ListHolderNeverBlocks`, `ListFrozen`, `StopCompletes`, `BlockedMutatorsResume`, `ImplementsWorld` |
| `gcrequest` | 2 requesters, reasons of all modes, 2 starts | `BlockingServed`, `NoWaiterStranded`, `BlockingReturns`, `WaitStoppedReturns` |
| `gcrequest_early` | requests before `TaskQueue::Init()` | violates `BlockingServed`, section 5 |
| `gcrequest_async` | non-blocking requests only | violates `AsyncServed`, section 5 |
| `threadpool` | 3 workers, 4 tasks per round | `CountersExact`, `QuietAfterStop`, `WaitFinishComplete`, `WaitFinishReturns`, `ExitCompletes` |
| `stackscan` | 2 mutators | `StackFrozen`, `ScannedBeforeRunning`, `CountMatches`, `AllRootsMarked`, `BarrierReturns` |
| `stackscan_wakeup` | 2 mutators | violates `ConcurrentMarkReturns`, section 5 |
| `mark` | 2 mutators, 2 objects, 2 collections | `ReachableAllocated`, `SnapshotMarked`, `SatbConsistent`, `GarbageFreed` |
| `mark_refs` | 1 mutator, 2 weak References, 1 finalizable object | `NoDanglingReferent`, `ClearedOnlyIfDead`, `FinalizedOnlyIfDead` |
| `mark_exit` | 1 mutator, `ExitOvertaken` | violates `LiveMarked`, section 5 |
| `sweep` | 2 mutators, 1 worker, 2 pages of 2 slots | `LiveKept`, `HeapConsistent`, `MapHeld`, `SweepComplete` |
| `sweep_live` | 2 mutators, 1 worker, 1 page | `SweepEnds`, `CallsReturn` |

The first four modules also check `TypeOK`, which is part of `SatbConsistent` and
of `HeapConsistent` in the last two.

Bounds. Two mutators and the GC thread make a stopper, a thread on its way out
of a saferegion and one that attaches or detaches, in changing roles; a mutator
stops the world too. `MaxIndex = 5`
hands out enough indices for each requester to have a task queued during a
collection and after it, with a Terminate between; `MaxStarts = 2` covers one
restart. Four tasks for three workers and the GC thread let a worker find
nothing, take a task and add one in every order. Stops of the world, rounds of
the pool and stack scans repeat for ever.

In ConcurrentMark `NodeCapacity = 1` makes the second entry of a mutator retire
a node. `MaxOps = 3` is what hiding an object takes: load it, overwrite its slot
(the barrier), store it elsewhere; the run `mark_exit` needs a fourth.
`MaxCollections = 2` lets state of one collection reach the next. The initial
heaps are full and all reachable, one thread is attached, and the other attaches
at any time. In ConcurrentSweep the first page is a run with one free slot,
non-full or local; the second a full run, a large object, or beyond the end of
the space, so that an extension of the space during the sweep happens too.
`MaxOps = 2` gives every pair of operations, by one thread or two; all sets of
marked objects are tried.

Symmetry is used in runs of invariants and action properties only: over plain
objects in the runs of ConcurrentMark, over mutators in `sweep`.

Deadlock is checked in Saferegion and StackScan, which never stop, and in
ConcurrentMark, where a mutator can always enter and leave a saferegion. It is
not in GCRequest, where indices and starts run out and the GC thread may have
been terminated, nor in ThreadPool, which ends "deleted", nor in
ConcurrentSweep, where operations and sweeps run out.

## 4. Fairness

Weak fairness stands for "a thread that can run is scheduled". It is given to
the steps a thread takes inside a runtime function. Beyond that:

* `Yieldpoint`: managed code reaches a yieldpoint, which the compiler inserts.
* `StopTheWorld`'s spin loops get no fairness. `StopCompletes` therefore starts
  from the moment both locks are held.
* `DequeueTimedOut`: a wait of at most one second ends.
* `GCStep`, `WorkerStep`, `Collect`: collections and tasks end.
* `ConcurrentSweep`: the workers, the GC thread during the sweep, and a mutator
  inside an operation (`Continue`), the time-out of `WaitUntilSwept` included.
  `CallsReturn` leans on that time-out, as the code does: without it the mutant
  `SweepTimeoutNever` is stuck.
* None for requests, calls, attaching, futex time-outs and interruptions. In
  particular `StopCompletes` does not lean on `kStopTheWorldTimeoutMs`, the time-out of
  the futex wait, which would hide a lost wake-up.

Two liveness properties carry a hypothesis. `StopCompletes` assumes that signals
do not interrupt a blocked mutator for ever (`InterruptsCease`): each
interruption takes the mutator out of the count for a moment.
`WaitStoppedReturns` assumes that collections cease (`CollectionsCease`):
non-blocking collections do not change `finishedGcIndex`, so a woken thread may
find the next one under way each time.

## 5. Disagreements between code and intent

* `stackscan_wakeup`: `ScanStackAndMark` decrements `numMutatorToBeScan` and
  notifies `concurrentPhaseBarrier` without holding `snapshotMutex`
  (`collector_ms.cpp:862`). Both can fall between the GC thread's check and its
  sleep; nobody notifies again and `ConcurrentMark` waits for ever. Spurious
  wake-ups, which the library may but need not give, would end the wait; the
  model assumes none. The barrier itself never waits for the GC thread in that
  state (`BarrierReturns` of run `stackscan`), so the mutators run on and only collection stops.
* `gcrequest_async`: a Timeout task erases the pending non-blocking requests
  (`task_queue.h:191`) on the ground that "the force gc removes all other gcs".
  That force GC only runs with native epoch statistics and after four minutes
  without one; otherwise the erased request is served by nobody.
* `gcrequest_early`: `StartThread` returns before the GC thread has set
  `finishedGcIndex` and `queueSyncIndex`. A blocking request made in between
  gets an index that already counts as finished, and returns without a
  collection. The other runs assume that no request is that early.

* `mark_exit`: `MRT_GCFiniThreadLocal` (`src/cinterface.cpp:350`) takes the
  mutator off the list in `FiniYieldpoint` and retires its SATB node in
  `delete mutator`, after that. If the second stop-the-world falls between the
  two, `ConcurrentMarkCleanup` visits neither the node, which is not retired
  yet, nor the mutator, which is no longer listed. An object that this mutator
  logged and moved elsewhere stays unmarked, and the sweep frees it although it
  is reachable. The test build (`MRT_TEST_CONCURRENT_MARK`) marks again in the
  second stop and treats such an object as an error. No other part of the model
  depends on it: the runs `mark` and `mark_refs` assume that the two steps are
  not separated by a stop.

## 6. Proofs

Each component has a module of proofs. All are for every value of the constants
that the assumption of its module admits: finite sets of threads (and of
objects), special values different from them, bounds that are natural numbers.
The bounds of section 3 are therefore bounds of the runs only. In each module
`IInv` is the inductive invariant, `InductiveInvariant` proves `Spec => []IInv`
with one lemma or step per action, and the other theorems follow from it.
The heap of ConcurrentSweep has a second invariant `HInv`, inductive relative to
`IInv`, in a module of its own. Every invariant, action property and
refinement that a passing run checks is stated by a theorem.

| Module | Hypothesis | Properties proved |
| --- | --- | --- |
| `SaferegionProofs` | | `TypeOK`, `CountExact`, `StoppedWorldIsQuiet`, `NoFatal`, `OwnStateRestored`, `ListHolderNeverBlocks`, `ListFrozen`, `ImplementsWorld` |
| `StackScanProofs` | | `TypeOK`, `StackFrozen`, `ScannedBeforeRunning`, `CountMatches`, `AllRootsMarked` |
| `ThreadPoolProofs` | | `TypeOK`, `CountersExact`, `QuietAfterStop`, `WaitFinishComplete` |
| `GCRequestProofs` | `~EarlyRequests`, but for `TypeOK` | `TypeOK`, `BlockingServed`, `NoWaiterStranded` |
| `ConcurrentMarkProofs` | `~ExitOvertaken` | `SatbConsistent`, `SnapshotMarked`, `LiveMarked`, `ReachableAllocated`, `NoDanglingReferent`, `GarbageFreed`, `ClearedOnlyIfDead`, `FinalizedOnlyIfDead` |
| `ConcurrentSweepProofs` | | `MapHeld` |
| `SweepHeapProofs` | | `LiveKept`, `HeapConsistent`, `SweepComplete` |

The two hypotheses are those of the passing runs, and the runs `gcrequest_early`
and `mark_exit` show that they are needed: with `EarlyRequests` the property
`BlockingServed`, and with `ExitOvertaken` the property `LiveMarked`, is
violated. `FinalizedOnlyIfDead` assumes moreover that no Reference is itself
finalizable (`References \cap Finalizables = {}`): the constructor of a class
of References with a `finalize()` of its own would make it so, and the order in
which the two lists are then processed is left out of the model.

### Saferegion

`StoppedWorldIsQuiet` is not inductive. Its proof needs to know what the counter
means at the moment `StwLoad` finds `saferegionCount = pendingCount`. `IInv` is
`CountExact` together with `Shape`, a conjunction of:

* `PcInv`, `FlagInv`: which threads can be where, and what `inSaferegion` is
  there;
* `ListInv`, `ListLockInv`, `StwLockInv`: who is registered, and who holds
  which lock where;
* `PendingInv`: `pendingCount` is set exactly while some thread is between
  `SetPendingCount(n)` and `SetPendingCount(0)`, and then is the size of the
  list;
* `QuietInv`, `StoppedInv`: what holds once the count was found complete, and
  when `worldStopped` is set;
* `RestoreInv`: the stopper's local and the global agree.

The central step: the stopper holds the list lock, so no thread is inside
`RemoveMutator` and every counted mutator is registered (`CountBelowPending`).
A subset of a finite set with as many elements is the whole set; hence equal
counters mean that every registered mutator is counted. From then on a mutator
that decrements sees `pendingCount # 0` in the same atomic operation and goes to
the slow path, so the set stays parked until `SetPendingCount(0)`. The same
inclusion shows that `pendingCount < saferegionCount` is impossible, which is the
fatal branch.

`ListHolderDoesNotBlock` follows from `ListLockInv`, `StwLockInv` and
`PendingInv`: a detaching thread that holds the list lock finds `pendingCount`
zero, since only a thread that holds the same lock sets it. So a thread that
spins for the lock, as `StopTheWorld` does with `stwMutex` held, never waits for
one that waits for the world to start.

For the refinement, a mutator is `running` when it is registered and not parked.
Only a decrement that sees `pendingCount = 0` makes a mutator running, and then
the world is not stopped (`NoPendingNotStopped`). A lemma per group of actions
shows that each step is a step of `World` or leaves its variables alone.

### StackScan

`StackFrozen` says that whom the GC thread may take from `snapshotMutators`
exists, and whose stack it scans changes nothing on it. It and
`ScannedBeforeRunning` need to know that a stack is in the
scan of exactly one of the two threads. `OwnerInv` says so: `scanState` is "in"
exactly while the mutator is past its compare and exchange or the GC thread
works on that mutator, and "need" only while the mutator is in its saferegion or
at the beginning of the barrier; a mutator that is still in `snapshotMutators`
is "need", or between its compare and exchange and its erasure. `CountMatches` is kept by counting who enters
and leaves the set of stacks to be scanned. `RootsInv` follows the roots of each
stack of the snapshot: marked, in a task, or still to be found. When the count
is zero nobody is left to find them (`CountedDownInv`), and the GC thread
executes the tasks that remain in the second stop; so `AllRootsMarked`. The theorem
`RespectsWorld` shows that the module only takes steps of `World`.

### ThreadPool

`PhaseInv` says what the flags and the workers do while the GC thread is at each
place of its operations, `LimitInv` bounds the active workers of a running pool.
`OwnTaskInv` and `TaskInv` say where each task of the round is: executed, in the
queue, or with the one thread that executes it. When `WaitFinish()` has drained
the queue after `Stop()` nobody has a task, so all are executed, whatever `Exit()` did.

### GCRequest

The argument is about the order of the indices. `finishedGcIndex` is below the
index that is executed, that is below every index in the queue, and the queue is
ascending (`IndexInv`, `ExecuteInv`). `WaitInv`: a request that has seen no
collection start has its task in the queue, one that has seen it start has it in
execution. So the index of a request counts as finished only after its
collection. `LifeInv` and `TerminateInv` treat the start and the end of the
thread: Terminate is enqueued once, and no request is in the queue when the
indices start again.

### ConcurrentMark

The snapshot is a graph that the program does not keep. `MarkInv` therefore
says: there are a graph `g` (the references of the first stop-the-world) and a
value `s0` (the static field then) such that

* `EdgeInv`: an edge of `g` is still in the heap or its target is safe, that is
  marked, in the work stack or in an SATB node; in particular when its source
  is marked and scanned, and when a mutator is between the barrier and the store;
* `CoverInv`: with `Cov` the least set closed under `g` that contains what is
  safe and the roots that nobody has scanned, the snapshot, all stacks, the
  static field and all fields of allocated objects lie in `Cov`, or follow an
  edge of `g`;
* `FinalInv`: the second bitmap is closed in the same way, and what
  `resurrectable` holds is in one of the two.

The barrier keeps `EdgeInv`: it logs the old value before the store. `CoverInv`
then holds because a mutator gets at objects only through edges that are in
`Cov`. When marking has ended, the safe objects are the marked ones, so the
bitmap is closed under `g` and `Cov` is the bitmap itself: that is
`SnapshotMarked` and `LiveMarked`. `KeptInv` carries this over to what the sweep
will keep; `UsableInv` says that no root and no usable object refers to
something the collector has given up: `ReachableAllocated`,
`NoDanglingReferent`, and with the history variable `dead`, `GarbageFreed`.
`ChosenInv` keeps the objects chosen for finalization out of reach until they
are queued. The sets of `MarkInv` are found by TLC too: the invariant was
evaluated on the instances of the runs `mark` and `mark_refs` before it was proved.

### ConcurrentSweep

`IInv` is well-typedness, which locals a thread has at which step (`LocalInv`),
who has free slots (`RunInv`), which pages the tasks and the workers still have
to take (`WorkInv`), and `CountInv`: `refCount` is the number of threads between
`TryIncRC()` and `DecRC()`, and one for the GC thread from `Init()` to
`Release()`. `MapHeld` is a consequence.

`HInv` is about the heap. Its idea: while a page is `Undone`, that is in the
states before `swept` or being swept, nobody but the thread that sweeps it
changes what is on it, and its marked objects are exactly those in use
(`MarkInv`). In use is what is live, or live until a mutator's `FreeInternal` in
progress; between that call and the free the object is in nobody else's hands
(`FreeInv`). The other conjuncts say why nobody interferes, and what the
sweep leaves:

* `SweepingInv`, `ReturnInv`, `OffInv`: a page in the sweeping state has one
  sweeper; `Sweep()` returns only when the page is swept, whoever swept it; a
  mutator's free list is set aside by `PrepareConcurrentSweep` and used again only after its
  run is swept;
* `OwnInv`, `CallInv`, `SlotInv`, `SpaceInv`: a local run has one owner, which
  is the one that works on it; each slot of a run is an object, in
  the free list of the run or in that of its owner; free pages are empty, and
  in one place;
* `NonFullInv`, `HolderInv`, `LoneInv`, `FullInv`: a run is in `nonFullRuns`, is
  local, or is in the hands of the one thread that has fetched it or frees it. A
  run outside all of these is full, or was full when its sweep began: what
  `DoSweep` saw at its start is what `DoSweepDone` decides on, and still right;
* `DeadInv`, `SweptInv`, `LargeInv`: an object not in use is on an unswept page,
  or on a page a worker is about to free; what is left on a run at the end of
  its sweep is marked, and a large object that is removed is not in use;
* `ProgressInv`: each unswept page is in a task, ahead of the cursor of a worker
  within its task (`Ahead`), or in a worker's hands. The lemma `TaskOf` shows
  that the tasks of `PrepareConcurrentSweep` cover all pages. So when no task is left and the
  workers are idle, no page is unswept: `SweepComplete`, with `DeadInv`.

`LiveKept` is in `MarkInv`; `HeapConsistent` follows from the slot and run
conjuncts by counting. For each action a lemma shows that `HInv` is kept, with
frame lemmas (`...Kept`, `...Frame`) for the conjuncts the action does not
touch. `HInv` was evaluated by TLC on the instance of the run `sweep`, a million
states, before it was proved.

### Only model-checked

All liveness: `StopCompletes`, `BlockedMutatorsResume`, `BlockingReturns`,
`WaitStoppedReturns`, `WaitFinishReturns`, `ExitCompletes`, `BarrierReturns`,
`SweepEnds`, `CallsReturn`; TLAPS does not treat fairness and ENABLED.

## 7. Running

    tlc -config Saferegion.cfg MCSaferegion
    tlapm SaferegionProofs.tla

and likewise for the other configurations, each with the `MC` module whose name
starts its own, and for the other modules of proofs. `PROJECT.json` lists the
runs, which source lines each definition models, the mutants, the hazards and
the theorems. The longest proof, `SweepHeapProofs`, takes about eight minutes.

## 8. Plan

Done: `World`, `Saferegion` and its refinement, `GCRequest`, `ThreadPool`,
`StackScan`, `ConcurrentMark`, `ConcurrentSweep`, each with its proofs; every
safety property of the passing runs is a theorem.

Modules next:

1. `NaiveRC`: strong and weak counts in one header word, atomic updates against
   weak collection.
2. `MplScheduler`: run and finish threads of the compiler's parallel phases.
3. `ReferenceProcessor`: the processor thread, its notification, the stop before
   a fork.
