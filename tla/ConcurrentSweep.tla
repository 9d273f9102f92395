-------------------------- MODULE ConcurrentSweep --------------------------
(***************************************************************************)
(* The concurrent sweep and the allocator: the workers of the GC thread    *)
(* pool sweep the pages of the heap while mutators allocate, free and      *)
(* exit, and a mutator sweeps a run itself before it uses it               *)
(* (ros_allocator.cpp, ros_allocator.h, ros_allocator_inlined.h).          *)
(*                                                                         *)
(* Marking is over: PrepareConcurrentSweep() runs in the second            *)
(* stop-the-world with some set of marked objects, and module              *)
(* ConcurrentMark says which.  An object allocated later is not marked, so *)
(* it lives only because its page has been swept before.                   *)
(*                                                                         *)
(* There is one size class; a run and a large object take one page.  A     *)
(* critical section of a run lock, of runLocks or of globalLock is one     *)
(* step.  The allocator has no safepoint inside an operation, so the world *)
(* is stopped only between operations.  Heap trimming, forking and the     *)
(* dead neighbours of reference counting are left out.                     *)
(***************************************************************************)
EXTENDS Naturals, FiniteSets

CONSTANTS
  Mutators,
  Workers,       \* threads that execute sweep tasks
  Global,        \* RosAllocImpl::globalMutator
  None,
  NPages,        \* bound: pages the space may have
  NSlots,        \* slots of a run
  PagesPerTask,  \* pages of one sweep task
  MaxOps,        \* bound: operations of the mutators
  MaxSweeps      \* bound: collections

ASSUME ConstantsAssumption ==
  /\ IsFiniteSet(Mutators) /\ IsFiniteSet(Workers)
  /\ Mutators \cap Workers = {}
  /\ Global \notin Mutators
  /\ NPages \in Nat \ {0} /\ NSlots \in Nat \ {0}
  /\ PagesPerTask \in Nat \ {0}
  /\ MaxOps \in Nat /\ MaxSweeps \in Nat
  /\ None \notin Mutators \cup {Global} \cup (1 .. NPages)

Pages   == 1 .. NPages
Slots   == 1 .. NSlots
Objs    == Pages \X Slots        \* a large object is in slot 1 of its page
Owners  == Mutators \cup {Global}
Threads == Mutators \cup Workers

VARIABLES
  label, avail, spaceEnd,   \* PageMap; free regions and end of the Space
  objects,                  \* slots with the allocated bit
  freeList, nonFullRuns, isLocal,              \* RunSlots
  useLocal, localRun, localFree, freeListHeads, \* ROSAllocMutator
  globalLock,               \* who holds the lock of globalMutator
  marked,                   \* the mark bitmaps
  sweepRunning,             \* isConcurrentSweeping
  pageState, highestPageIndex, refCount, mapped, \* SweepContext
  th,                       \* each thread: where it is and its locals
  tasks, cursor, buffer,    \* first pages of tasks; SweepPages() of a worker
  gcPc, ops, sweeps,
  live                      \* history: objects that are still in use

spaceVars == <<label, avail, spaceEnd>>
runVars   == <<freeList, nonFullRuns, isLocal>>
localVars == <<useLocal, localRun, localFree, freeListHeads>>
ctxVars   == <<pageState, highestPageIndex, refCount, mapped>>
taskVars  == <<tasks, cursor, buffer>>
gcVars    == <<marked, sweepRunning, gcPc, sweeps>>
vars == <<spaceVars, objects, runVars, localVars, globalLock, ctxVars, th,
          taskVars, gcVars, ops, live>>

Rest == [pc |-> "idle", ret |-> "idle", page |-> None, slot |-> 1,
         owner |-> None, full |-> FALSE, freed |-> FALSE, remove |-> FALSE]

At(t, l)   == th[t].pc = l
Set(t, r)  == th' = [th EXCEPT ![t] = r]
Goto(t, l) == th' = [th EXCEPT ![t].pc = l]

IsGarbage(o) == o \notin marked

(* FreeList::Fetch(): the slots of a list are interchangeable.             *)
Fetch(list) == CHOOSE s \in list : \A x \in list : s <= x

(* Between two collections, with some heap: each page is free, or holds a  *)
(* large object or a run, and each mutator may have a local run.           *)
Init ==
  /\ spaceEnd \in Pages
  /\ label \in [Pages -> {"free", "run", "large"}]
  /\ \A p \in Pages : p > spaceEnd => label[p] = "free"
  /\ avail = {p \in 1 .. spaceEnd : label[p] = "free"}
  /\ objects \in SUBSET {o \in Objs : \/ label[o[1]] = "run"
                                      \/ label[o[1]] = "large" /\ o[2] = 1}
  /\ \A p \in Pages : label[p] = "large" => <<p, 1>> \in objects
  /\ localRun \in [Owners -> {p \in Pages : label[p] = "run"} \cup {None}]
  /\ \A a, b \in Owners : localRun[a] = localRun[b] /\ a # b
                            => localRun[a] = None
  /\ useLocal = [m \in Mutators |-> localRun[m] # None]
  /\ isLocal = [p \in Pages |-> \E a \in Owners : localRun[a] = p]
  /\ LET Free(p) == {s \in Slots : <<p, s>> \notin objects}
     IN  /\ freeList = [p \in Pages |-> IF label[p] = "run" /\ ~isLocal[p]
                                        THEN Free(p) ELSE {}]
         /\ localFree = [a \in Owners |-> IF localRun[a] = None THEN {}
                                          ELSE Free(localRun[a])]
         /\ nonFullRuns = {p \in Pages : freeList[p] # {}}
         /\ \A p \in nonFullRuns : freeList[p] # Slots
  /\ freeListHeads = [a \in Owners |-> {}]
  /\ globalLock = None
  /\ marked = {} /\ sweepRunning = FALSE
  /\ pageState = label /\ highestPageIndex = 0
  /\ refCount = 0 /\ mapped = FALSE
  /\ th = [t \in Threads |-> Rest]
  /\ tasks = {} /\ cursor = [w \in Workers |-> 1]
  /\ buffer = [w \in Workers |-> {}]
  /\ gcPc = "idle" /\ ops = 0 /\ sweeps = 0
  /\ live = objects

-----------------------------------------------------------------------------
(* Sweeping one page: SweepContext and RunSlots::DoSweep().                *)

(* The locals r of a thread that calls RunSlots::Sweep() for p, if the     *)
(* sweep is running, and goes on at l.                                     *)
CallSweep(r, p, l) ==
  [r EXCEPT !.pc = IF sweepRunning THEN "tryInc" ELSE l,
            !.page = p, !.ret = l, !.freed = FALSE, !.remove = FALSE]

(* DecRC(), with ReleaseMap().                                             *)
DecRC == refCount' = refCount - 1 /\ mapped' = (mapped /\ refCount # 1)

(* Mutant: the page map is in use but not counted.                         *)
TryIncRCNot(t) ==
  /\ At(t, "tryInc")
  /\ IF refCount = 0 \/ th[t].page > highestPageIndex
     THEN Goto(t, th[t].ret)
     ELSE Goto(t, "label")
  /\ UNCHANGED <<spaceVars, objects, runVars, localVars, globalLock, ctxVars,
                 taskVars, gcVars, ops, live>>

(* SetSweeping(): ScopedAliveClosure, TryIncRC();                          *)
TryIncRC(t) ==
  /\ At(t, "tryInc")
  /\ IF refCount = 0 \/ th[t].page > highestPageIndex
     THEN /\ Goto(t, th[t].ret)
          /\ UNCHANGED refCount
     ELSE /\ Goto(t, "label")
          /\ refCount' = refCount + 1
  /\ UNCHANGED <<spaceVars, objects, runVars, localVars, globalLock, pageState,
                 highestPageIndex, mapped, taskVars, gcVars, ops, live>>

(* a thread that finds a page not yet swept takes it (and DoSweep() reads  *)
(* whether the run is full, SweepPage() whether the large object is dead), *)
(* one that finds another thread at it waits.                              *)
SetSweeping(t) ==
  LET p == th[t].page
      s == pageState[p]
  IN  /\ At(t, "label")
      /\ \/ /\ s = "sweeping"
            /\ Goto(t, "wait")
            /\ UNCHANGED <<pageState, refCount, mapped>>
         \/ /\ s = "run"
            /\ pageState' = [pageState EXCEPT ![p] = "sweeping"]
            /\ Set(t, [th[t] EXCEPT !.pc = "doSweep",
                                    !.full = freeList[p] = {}])
            /\ DecRC
         \/ /\ s = "large"
            /\ pageState' = [pageState EXCEPT ![p] = "sweeping"]
            /\ Set(t, [th[t] EXCEPT !.pc = "setSwept",
                         !.remove = t \in Workers /\ IsGarbage(<<p, 1>>)])
            /\ DecRC
         \/ /\ s \in {"free", "swept"}
            /\ Goto(t, th[t].ret)
            /\ UNCHANGED pageState
            /\ DecRC
      /\ UNCHANGED <<spaceVars, objects, runVars, localVars, globalLock,
                     highestPageIndex, taskVars, gcVars, ops, live>>

(* WaitUntilSwept(): the predicate under contextMutex,                     *)
WaitUntilSwept(t) ==
  /\ At(t, "wait")
  /\ IF pageState[th[t].page] = "swept"
     THEN Goto(t, th[t].ret) /\ DecRC
     ELSE Goto(t, "block") /\ UNCHANGED <<refCount, mapped>>
  /\ UNCHANGED <<spaceVars, objects, runVars, localVars, globalLock, pageState,
                 highestPageIndex, taskVars, gcVars, ops, live>>

(* then the sleep: SetSwept() does not take contextMutex and may notify    *)
(* just before it.                                                         *)
BlockUntilSwept(t) ==
  /\ At(t, "block")
  /\ Goto(t, "blocked")
  /\ UNCHANGED <<spaceVars, objects, runVars, localVars, globalLock, ctxVars,
                 taskVars, gcVars, ops, live>>

(* Mutant: the wait has no timeout.                                        *)
SweepTimeoutNever(t) == FALSE /\ UNCHANGED vars

(* kSweepTimeout: the predicate again.  No page takes that long to sweep.  *)
SweepTimeout(t) ==
  /\ At(t, "blocked")
  /\ pageState[th[t].page] = "swept"
  /\ Goto(t, th[t].ret)
  /\ DecRC
  /\ UNCHANGED <<spaceVars, objects, runVars, localVars, globalLock, pageState,
                 highestPageIndex, taskVars, gcVars, ops, live>>

(* DoSweep() frees the dead objects of the run, with no lock.              *)
SweepSlot(t) ==
  LET p == th[t].page
      dead == {x \in Slots : <<p, x>> \in objects /\ IsGarbage(<<p, x>>)}
      s == Fetch(dead)
  IN  /\ At(t, "doSweep")
      /\ dead # {}
      /\ objects' = objects \ {<<p, s>>}
      /\ freeList' = [freeList EXCEPT ![p] = @ \cup {s}]
      /\ Set(t, [th[t] EXCEPT !.freed = TRUE])
      /\ UNCHANGED <<spaceVars, nonFullRuns, isLocal, localVars, globalLock,
                     ctxVars, taskVars, gcVars, ops, live>>

(* UpdateGlobalsAfterFree() for run p, now with the free list fl:          *)
(* the list of non-full runs,                                              *)
NonFullAfterFree(p, wasFull, fl) ==
  IF isLocal[p] THEN nonFullRuns
  ELSE IF fl = Slots THEN nonFullRuns \ {p}
  ELSE IF wasFull /\ fl # {} THEN nonFullRuns \cup {p}
  ELSE nonFullRuns

(* Mutant: every empty run is freed.                                       *)
RemoveIfEmpty(p, wasFull, fl) == ~isLocal[p] /\ fl = Slots

(* and whether the run is to be freed: not one that a mutator has fetched. *)
RemoveAfterFree(p, wasFull, fl) ==
  ~isLocal[p] /\ fl = Slots /\ (p \in nonFullRuns \/ wasFull)

(* Mutant: a run without dead objects stays in the sweeping state.         *)
DoSweepDoneEarly(t) ==
  LET p == th[t].page
      r == th[t]
  IN  /\ At(t, "doSweep")
      /\ \A s \in Slots : <<p, s>> \in objects => ~IsGarbage(<<p, s>>)
      /\ nonFullRuns' = IF r.freed
                        THEN NonFullAfterFree(p, r.full, freeList[p])
                        ELSE nonFullRuns
      /\ Set(t, [r EXCEPT !.pc = IF r.freed THEN "setSwept" ELSE r.ret,
                   !.remove = r.freed /\ RemoveAfterFree(p, r.full, freeList[p])])
      /\ UNCHANGED <<spaceVars, objects, freeList, isLocal, localVars,
                     globalLock, ctxVars, taskVars, gcVars, ops, live>>

DoSweepDone(t) ==
  LET p == th[t].page
      r == th[t]
  IN  /\ At(t, "doSweep")
      /\ \A s \in Slots : <<p, s>> \in objects => ~IsGarbage(<<p, s>>)
      /\ nonFullRuns' = IF r.freed
                        THEN NonFullAfterFree(p, r.full, freeList[p])
                        ELSE nonFullRuns
      /\ Set(t, [r EXCEPT !.pc = "setSwept",
                   !.remove = r.freed /\ RemoveAfterFree(p, r.full, freeList[p])])
      /\ UNCHANGED <<spaceVars, objects, freeList, isLocal, localVars,
                     globalLock, ctxVars, taskVars, gcVars, ops, live>>

(* SetSwept(), and notify_all().  SweepPage() then frees an empty run or a *)
(* dead large object; the mutators ignore what Sweep() returns.            *)
SetSwept(t) ==
  /\ At(t, "setSwept")
  /\ pageState' = IF refCount = 0 THEN pageState
                  ELSE [pageState EXCEPT ![th[t].page] = "swept"]
  /\ th' = [u \in Threads |->
              IF u = t
              THEN [th[t] EXCEPT !.pc = IF t \in Workers /\ th[t].remove
                                        THEN "freeRun" ELSE th[t].ret]
              ELSE IF th[u].pc = "blocked" THEN [th[u] EXCEPT !.pc = "wait"]
                                           ELSE th[u]]
  /\ UNCHANGED <<spaceVars, objects, runVars, localVars, globalLock,
                 highestPageIndex, refCount, mapped, taskVars, gcVars, ops,
                 live>>

(* FreeRun(), FreeLargeObj(): a worker delays the release of the region.   *)
FreeRun(t) ==
  LET p == th[t].page
  IN  /\ At(t, "freeRun")
      /\ label' = [label EXCEPT ![p] = "free"]
      /\ freeList' = [freeList EXCEPT ![p] = {}]
      /\ objects' = {o \in objects : o[1] # p}
      /\ IF t \in Workers
         THEN /\ buffer' = [buffer EXCEPT ![t] = @ \cup {p}]
              /\ UNCHANGED avail
         ELSE /\ avail' = avail \cup {p}
              /\ UNCHANGED buffer
      /\ Set(t, [Rest EXCEPT !.pc = th[t].ret])
      /\ UNCHANGED <<spaceEnd, nonFullRuns, isLocal, localVars, globalLock,
                     ctxVars, tasks, cursor, gcVars, ops, live>>

Sweep(t) ==
  \/ TryIncRC(t) \/ SetSweeping(t) \/ WaitUntilSwept(t) \/ BlockUntilSwept(t)
  \/ SweepTimeout(t) \/ SweepSlot(t) \/ DoSweepDone(t) \/ SetSwept(t)
  \/ FreeRun(t)

-----------------------------------------------------------------------------
(* The GC thread and its workers.                                          *)

StartConcurrentMark ==
  /\ gcPc = "idle" /\ sweeps < MaxSweeps
  /\ gcPc' = "mark"
  /\ sweeps' = sweeps + 1
  /\ UNCHANGED <<spaceVars, objects, runVars, localVars, globalLock, ctxVars,
                 th, taskVars, marked, sweepRunning, ops, live>>

(* PrepareConcurrentSweep(), in STW2: SweepContext::Init() takes a copy of *)
(* the page map, DisableLocalBeforeSweep() keeps the mutators off their    *)
(* local free lists; and the tasks that ConcurrentSweep() adds.            *)
PrepareConcurrentSweep ==
  /\ gcPc = "mark"
  /\ \A m \in Mutators : th[m].pc \in {"idle", "absent"}
  /\ marked' \in SUBSET objects
  /\ live' = marked'
  /\ pageState' = label
  /\ highestPageIndex' = spaceEnd
  /\ refCount' = 1 /\ mapped' = TRUE
  /\ LET off == {m \in Mutators : useLocal[m] /\ localFree[m] # {}}
     IN  /\ freeListHeads' = [a \in Owners |-> IF a \in off THEN localFree[a]
                                               ELSE freeListHeads[a]]
         /\ localFree' = [a \in Owners |-> IF a \in off THEN freeListHeads[a]
                                           ELSE localFree[a]]
  /\ sweepRunning' = TRUE
  /\ tasks' = {p \in 1 .. spaceEnd : (p - 1) % PagesPerTask = 0}
  /\ gcPc' = "sweep"
  /\ UNCHANGED <<spaceVars, objects, runVars, useLocal, localRun, globalLock,
                 th, cursor, buffer, sweeps, ops>>

(* A worker executes SweepPages() for the pages of a task:                 *)
SweepPages(w) ==
  /\ At(w, "idle")
  /\ \E p \in tasks :
        /\ tasks' = tasks \ {p}
        /\ cursor' = [cursor EXCEPT ![w] = p]
        /\ Goto(w, "next")
  /\ UNCHANGED <<spaceVars, objects, runVars, localVars, globalLock, ctxVars,
                 buffer, gcVars, ops, live>>

TaskEnd(p) == (p - 1) % PagesPerTask = PagesPerTask - 1 \/ p = highestPageIndex

(* SweepPage() for the next page,                                          *)
SweepPage(w) ==
  /\ At(w, "next")
  /\ cursor[w] # 0
  /\ Set(w, CallSweep(Rest, cursor[w], "next"))
  /\ cursor' = [cursor EXCEPT ![w] = IF TaskEnd(@) THEN 0 ELSE @ + 1]
  /\ UNCHANGED <<spaceVars, objects, runVars, localVars, globalLock, ctxVars,
                 tasks, buffer, gcVars, ops, live>>

(* and, after the last, clearBufferFunc().                                 *)
ClearBuffer(w) ==
  /\ At(w, "next")
  /\ cursor[w] = 0
  /\ avail' = avail \cup buffer[w]
  /\ buffer' = [buffer EXCEPT ![w] = {}]
  /\ cursor' = [cursor EXCEPT ![w] = 1]
  /\ Set(w, Rest)
  /\ UNCHANGED <<label, spaceEnd, objects, runVars, localVars, globalLock,
                 ctxVars, tasks, gcVars, ops, live>>

(* Mutant: the GC thread does not wait for the workers.                    *)
ConcurrentSweepNoWait ==
  /\ gcPc = "sweep"
  /\ tasks = {}
  /\ sweepRunning' = FALSE
  /\ gcPc' = "release"
  /\ UNCHANGED <<spaceVars, objects, runVars, localVars, globalLock, ctxVars,
                 th, taskVars, marked, sweeps, ops, live>>

(* The end of ConcurrentSweep(): WaitFinish(), the flag,                   *)
ConcurrentSweepDone ==
  /\ gcPc = "sweep"
  /\ tasks = {}
  /\ \A w \in Workers : At(w, "idle")
  /\ sweepRunning' = FALSE
  /\ gcPc' = "release"
  /\ UNCHANGED <<spaceVars, objects, runVars, localVars, globalLock, ctxVars,
                 th, taskVars, marked, sweeps, ops, live>>

(* SweepContext::Release(), and ResetBitmap().                             *)
Release ==
  /\ gcPc = "release"
  /\ DecRC
  /\ marked' = {}
  /\ gcPc' = "idle"
  /\ UNCHANGED <<spaceVars, objects, runVars, localVars, globalLock,
                 pageState, highestPageIndex, th, taskVars, sweepRunning,
                 sweeps, ops, live>>

Work(w) == Sweep(w) \/ SweepPages(w) \/ SweepPage(w) \/ ClearBuffer(w)

Collect == StartConcurrentMark \/ PrepareConcurrentSweep
             \/ ConcurrentSweepDone \/ Release

-----------------------------------------------------------------------------
(* Mutators.                                                               *)

(* Pages that AllocPagesInternal() may return: it extends the space only   *)
(* if no page is free.                                                     *)
NewPages == IF avail # {} THEN avail ELSE {spaceEnd + 1} \cap Pages

TakePage(p, l) ==
  /\ label' = [label EXCEPT ![p] = l]
  /\ avail' = avail \ {p}
  /\ spaceEnd' = IF p > spaceEnd THEN p ELSE spaceEnd

Unlock(m) == globalLock' = IF globalLock = m THEN None ELSE globalLock

(* An operation returns object o.                                          *)
NewObj(m, o) ==
  /\ objects' = objects \cup {o}
  /\ live' = live \cup {o}
  /\ Set(m, Rest)
  /\ Unlock(m)

(* FastNewObj(): from the local free list.                                 *)
FastNewObj(m) ==
  /\ At(m, "idle") /\ ops < MaxOps
  /\ localFree[m] # {}
  /\ NewObj(m, <<localRun[m], Fetch(localFree[m])>>)
  /\ localFree' = [localFree EXCEPT ![m] = @ \ {Fetch(@)}]
  /\ ops' = ops + 1
  /\ UNCHANGED <<spaceVars, runVars, useLocal, localRun, freeListHeads,
                 ctxVars, taskVars, gcVars>>

(* AllocFromRun(): from the local run, or with the lock of globalMutator   *)
(* from its run; that run is swept first.                                  *)
AllocFromRun(m, a) ==
  /\ At(m, "idle") /\ ops < MaxOps
  /\ \/ /\ a = m
        /\ localFree[m] = {}
        /\ useLocal' = [useLocal EXCEPT ![m] = TRUE]
        /\ UNCHANGED globalLock
     \/ /\ a = Global
        /\ ~useLocal[m]
        /\ globalLock = None
        /\ globalLock' = m
        /\ UNCHANGED useLocal
  /\ LET r == [Rest EXCEPT !.owner = a]
     IN  Set(m, IF localRun[a] = None THEN [r EXCEPT !.pc = "local"]
                ELSE CallSweep(r, localRun[a], "local"))
  /\ ops' = ops + 1
  /\ UNCHANGED <<spaceVars, objects, runVars, localRun, localFree,
                 freeListHeads, ctxVars, taskVars, gcVars, live>>

(* AllocFromLocalRun(): EnableLocalAfterSweep(), then from the local free  *)
(* list, or from that of the run, which Localise() takes over; a full run  *)
(* is given up.                                                            *)
AllocFromLocalRun(m) ==
  LET a    == th[m].owner
      run  == localRun[a]
      list == localFree[a] \cup freeListHeads[a]
      more == IF run = None THEN {} ELSE freeList[run]
  IN  /\ At(m, "local")
      /\ freeListHeads' = [freeListHeads EXCEPT ![a] = {}]
      /\ \/ /\ list # {}
            /\ NewObj(m, <<run, Fetch(list)>>)
            /\ localFree' = [localFree EXCEPT ![a] = list \ {Fetch(list)}]
            /\ UNCHANGED <<freeList, isLocal, localRun>>
         \/ /\ list = {} /\ more # {}
            /\ NewObj(m, <<run, Fetch(more)>>)
            /\ localFree' = [localFree EXCEPT ![a] = more \ {Fetch(more)}]
            /\ freeList' = [freeList EXCEPT ![run] = {}]
            /\ UNCHANGED <<isLocal, localRun>>
         \/ /\ list = {} /\ more = {}
            /\ localRun' = [localRun EXCEPT ![a] = None]
            /\ isLocal' = [p \in Pages |-> p # run /\ isLocal[p]]
            /\ Goto(m, "fetch")
            /\ UNCHANGED <<objects, live, globalLock, localFree, freeList>>
      /\ UNCHANGED <<spaceVars, nonFullRuns, useLocal, ctxVars, taskVars,
                     gcVars, ops>>

(* Mutant: the run is used as it is.                                       *)
FetchUnsweptRun(m) ==
  /\ At(m, "fetch")
  /\ \/ \E p \in nonFullRuns :
          /\ nonFullRuns' = nonFullRuns \ {p}
          /\ Set(m, [th[m] EXCEPT !.pc = "localise", !.page = p])
     \/ /\ nonFullRuns = {}
        /\ Goto(m, "allocRun")
        /\ UNCHANGED nonFullRuns
  /\ UNCHANGED <<spaceVars, objects, freeList, isLocal, localVars, globalLock,
                 ctxVars, taskVars, gcVars, ops, live>>

(* FetchOrAllocRun(): a non-full run, which is swept before it is used,    *)
FetchRunFromNonFulls(m) ==
  /\ At(m, "fetch")
  /\ \/ \E p \in nonFullRuns :
          /\ nonFullRuns' = nonFullRuns \ {p}
          /\ Set(m, CallSweep(th[m], p, "localise"))
     \/ /\ nonFullRuns = {}
        /\ Goto(m, "allocRun")
        /\ UNCHANGED nonFullRuns
  /\ UNCHANGED <<spaceVars, objects, freeList, isLocal, localVars, globalLock,
                 ctxVars, taskVars, gcVars, ops, live>>

(* or a new one; without a page the allocation fails.                      *)
AllocRun(m) ==
  /\ At(m, "allocRun")
  /\ \/ \E p \in NewPages :
          /\ TakePage(p, "run")
          /\ freeList' = [freeList EXCEPT ![p] = Slots]
          /\ Set(m, CallSweep(th[m], p, "localise"))
          /\ UNCHANGED globalLock
     \/ /\ NewPages = {}
        /\ Set(m, Rest)
        /\ Unlock(m)
        /\ UNCHANGED <<spaceVars, freeList>>
  /\ UNCHANGED <<objects, nonFullRuns, isLocal, localVars, ctxVars, taskVars,
                 gcVars, ops, live>>

(* Localise() for the new local run.                                       *)
LocaliseRun(m) ==
  LET a == th[m].owner
      p == th[m].page
  IN  /\ At(m, "localise")
      /\ freeList[p] # {}
      /\ NewObj(m, <<p, Fetch(freeList[p])>>)
      /\ localFree' = [localFree EXCEPT ![a] = freeList[p] \ {Fetch(freeList[p])}]
      /\ freeList' = [freeList EXCEPT ![p] = {}]
      /\ isLocal' = [isLocal EXCEPT ![p] = TRUE]
      /\ localRun' = [localRun EXCEPT ![a] = p]
      /\ UNCHANGED <<spaceVars, nonFullRuns, useLocal, freeListHeads, ctxVars,
                     taskVars, gcVars, ops>>

AllocLargeObject(m, p) ==
  /\ At(m, "idle") /\ ops < MaxOps
  /\ p \in NewPages
  /\ TakePage(p, "large")
  /\ NewObj(m, <<p, 1>>)
  /\ ops' = ops + 1
  /\ UNCHANGED <<runVars, localVars, ctxVars, taskVars, gcVars>>

(* FreeInternal(): reference counting frees an object that no one else     *)
(* uses; its page is swept first.                                          *)
FreeInternal(m, o) ==
  /\ At(m, "idle") /\ ops < MaxOps
  /\ o \in live
  /\ live' = live \ {o}
  /\ Set(m, CallSweep([Rest EXCEPT !.slot = o[2]], o[1],
                      IF label[o[1]] = "run" THEN "free" ELSE "freeLarge"))
  /\ ops' = ops + 1
  /\ UNCHANGED <<spaceVars, objects, runVars, localVars, globalLock, ctxVars,
                 taskVars, gcVars>>

(* FreeFromRun(): to the local free list of the owner, or to the run.      *)
FreeFromRun(m) ==
  LET p  == th[m].page
      fl == freeList[p] \cup {th[m].slot}
  IN  /\ At(m, "free")
      /\ objects' = objects \ {<<p, th[m].slot>>}
      /\ IF localRun[m] = p
         THEN /\ localFree' = [localFree EXCEPT ![m] =
                                 @ \cup freeListHeads[m] \cup {th[m].slot}]
              /\ freeListHeads' = [freeListHeads EXCEPT ![m] = {}]
              /\ Set(m, Rest)
              /\ UNCHANGED <<freeList, nonFullRuns>>
         ELSE /\ freeList' = [freeList EXCEPT ![p] = fl]
              /\ nonFullRuns' = NonFullAfterFree(p, freeList[p] = {}, fl)
              /\ Set(m, IF RemoveAfterFree(p, freeList[p] = {}, fl)
                        THEN [Rest EXCEPT !.pc = "freeRun", !.page = p]
                        ELSE Rest)
              /\ UNCHANGED <<localFree, freeListHeads>>
      /\ UNCHANGED <<spaceVars, isLocal, useLocal, localRun, globalLock,
                     ctxVars, taskVars, gcVars, ops, live>>

(* The end of FreeInternal() for a large object: FreeLargeObj().           *)
FreeLargeObj(m) ==
  /\ At(m, "freeLarge")
  /\ Set(m, [Rest EXCEPT !.pc = "freeRun", !.page = th[m].page])
  /\ UNCHANGED <<spaceVars, objects, runVars, localVars, globalLock, ctxVars,
                 taskVars, gcVars, ops, live>>

(* RosBasedMutator::Fini(): RevokeLocalRuns() sweeps the local run,        *)
RevokeLocalRuns(m) ==
  /\ At(m, "idle") /\ ops < MaxOps
  /\ Set(m, IF localRun[m] = None THEN [Rest EXCEPT !.pc = "absent"]
            ELSE CallSweep(Rest, localRun[m], "revoke"))
  /\ useLocal' = [useLocal EXCEPT ![m] = useLocal[m] /\ localRun[m] # None]
  /\ ops' = ops + 1
  /\ UNCHANGED <<spaceVars, objects, runVars, localRun, localFree,
                 freeListHeads, globalLock, ctxVars, taskVars, gcVars, live>>

(* RevokeLocalRun() gives it up, and frees it if it is empty, unless       *)
(* marking is running.                                                     *)
RevokeLocalRun(m) ==
  LET p  == localRun[m]
      fl == freeList[p] \cup localFree[m] \cup freeListHeads[m]
      remove == fl = Slots /\ gcPc # "mark"
  IN  /\ At(m, "revoke")
      /\ freeList' = [freeList EXCEPT ![p] = fl]
      /\ localFree' = [localFree EXCEPT ![m] = {}]
      /\ freeListHeads' = [freeListHeads EXCEPT ![m] = {}]
      /\ isLocal' = [isLocal EXCEPT ![p] = FALSE]
      /\ localRun' = [localRun EXCEPT ![m] = None]
      /\ useLocal' = [useLocal EXCEPT ![m] = FALSE]
      /\ nonFullRuns' = IF remove \/ fl = {} THEN nonFullRuns
                                             ELSE nonFullRuns \cup {p}
      /\ Set(m, IF remove THEN [Rest EXCEPT !.pc = "freeRun", !.page = p,
                                            !.ret = "absent"]
                ELSE [Rest EXCEPT !.pc = "absent"])
      /\ UNCHANGED <<spaceVars, objects, globalLock, ctxVars, taskVars, gcVars,
                     ops, live>>

(* A new thread: RosBasedMutator::Init().                                  *)
AddAllocMutator(m) ==
  /\ At(m, "absent")
  /\ Set(m, Rest)
  /\ UNCHANGED <<spaceVars, objects, runVars, localVars, globalLock, ctxVars,
                 taskVars, gcVars, ops, live>>

(* What a mutator does without a choice, inside an operation.              *)
Continue(m) ==
  \/ Sweep(m) \/ AllocFromLocalRun(m) \/ FetchRunFromNonFulls(m)
  \/ AllocRun(m) \/ LocaliseRun(m) \/ FreeFromRun(m) \/ FreeLargeObj(m)
  \/ RevokeLocalRun(m)

Call(m) ==
  \/ FastNewObj(m)
  \/ \E a \in Owners : AllocFromRun(m, a)
  \/ \E p \in Pages : AllocLargeObject(m, p)
  \/ \E o \in Objs : FreeInternal(m, o)
  \/ RevokeLocalRuns(m) \/ AddAllocMutator(m)

Next ==
  \/ Collect
  \/ \E w \in Workers : Work(w)
  \/ \E m \in Mutators : Call(m) \/ Continue(m)

(* The scheduler runs every thread that is inside an operation, and the GC *)
(* thread; mutators need not call.                                         *)
Fairness ==
  /\ WF_vars(ConcurrentSweepDone \/ Release)
  /\ \A w \in Workers : WF_vars(Work(w))
  /\ \A m \in Mutators : WF_vars(Continue(m))

Spec == Init /\ [][Next]_vars /\ Fairness

-----------------------------------------------------------------------------
(* Properties.                                                             *)

SweepPcs == {"tryInc", "label", "wait", "block", "blocked", "doSweep",
             "setSwept"}

TypeOK ==
  /\ label \in [Pages -> {"free", "run", "large"}]
  /\ avail \in SUBSET Pages /\ spaceEnd \in Pages
  /\ objects \in SUBSET Objs /\ marked \in SUBSET Objs /\ live \in SUBSET Objs
  /\ freeList \in [Pages -> SUBSET Slots]
  /\ nonFullRuns \in SUBSET Pages /\ isLocal \in [Pages -> BOOLEAN]
  /\ useLocal \in [Mutators -> BOOLEAN]
  /\ localRun \in [Owners -> Pages \cup {None}]
  /\ localFree \in [Owners -> SUBSET Slots]
  /\ freeListHeads \in [Owners -> SUBSET Slots]
  /\ globalLock \in Mutators \cup {None}
  /\ sweepRunning \in BOOLEAN /\ mapped \in BOOLEAN
  /\ pageState \in [Pages -> {"free", "run", "large", "sweeping", "swept"}]
  /\ highestPageIndex \in 0 .. NPages
  /\ refCount \in 0 .. Cardinality(Threads) + 1
  /\ \A t \in Threads :
       /\ th[t].pc \in SweepPcs \cup {"idle", "absent", "next", "freeRun",
              "local", "fetch", "allocRun", "localise", "free", "freeLarge",
              "revoke"}
       /\ th[t].page \in Pages \cup {None}
       /\ th[t].owner \in Owners \cup {None}
  /\ tasks \in SUBSET Pages
  /\ cursor \in [Workers -> 0 .. NPages]
  /\ buffer \in [Workers -> SUBSET Pages]
  /\ gcPc \in {"idle", "mark", "sweep", "release"}
  /\ ops \in 0 .. MaxOps /\ sweeps \in 0 .. MaxSweeps

(* The sweep frees no object that is in use: neither one that was marked   *)
(* nor one allocated while the sweep runs.                                 *)
LiveKept == live \subseteq objects

(* In every run each slot is in exactly one place: allocated, or in the    *)
(* free list of the run or of its owner, the saved one included.           *)
SlotsConserved ==
  \A p \in {q \in Pages : label[q] = "run"} :
    LET own == {a \in Owners : localRun[a] = p}
        parts == {{s \in Slots : <<p, s>> \in objects}, freeList[p]}
        lists == {localFree[a] : a \in own} \cup {freeListHeads[a] : a \in own}
    IN  /\ \A s \in Slots : \E x \in parts \cup lists : s \in x
        /\ {s \in Slots : <<p, s>> \in objects} \cap freeList[p] = {}
        /\ \A a \in own :
             /\ localFree[a] \cap freeListHeads[a] = {}
             /\ \A x \in parts : x \cap (localFree[a] \cup freeListHeads[a]) = {}

(* Threads that have taken run p out of nonFullRuns, to use or to free it. *)
Holders(p) ==
  {t \in Threads :
     /\ th[t].page = p
     /\ \/ th[t].pc = "freeRun"
        \/ th[t].pc = "localise"
        \/ th[t].pc \in SweepPcs /\ th[t].ret = "localise"
        \/ th[t].pc = "setSwept" /\ th[t].remove}

(* A run has one holder, never two: nonFullRuns, the mutator whose local   *)
(* run it is, or the thread that has fetched it or is about to free it.    *)
(* Only a full run, or one being swept that was full, has none.            *)
RunHeldOnce ==
  \A p \in Pages :
    LET n == (IF p \in nonFullRuns THEN 1 ELSE 0)
               + Cardinality({a \in Owners : localRun[a] = p})
               + Cardinality(Holders(p))
    IN  /\ n > 0 => label[p] # "free"
        /\ n < 2
        /\ label[p] = "run" /\ n = 0 =>
             \/ freeList[p] = {}
             \/ \E t \in Threads : At(t, "doSweep") /\ th[t].page = p

(* The heap stays consistent under concurrent allocation, free and sweep:  *)
(* well-typed, no slot lost or handed out twice, no run used by two.       *)
HeapConsistent == TypeOK /\ SlotsConserved /\ RunHeldOnce

(* Nobody reads a page state after the copy of the page map is released,   *)
(* and it is released when the last user is done.                          *)
MapHeld ==
  /\ (\E t \in Threads : th[t].pc \in {"label", "wait", "block", "blocked"})
       => mapped
  /\ mapped <=> refCount > 0

(* A thread with the locals r is inside Sweep() or back from it, in the    *)
(* call that goes on at l.                                                 *)
In(r, l) == r.pc = l \/ (r.pc \in SweepPcs /\ r.ret = l)

Frees(r) == In(r, "free") \/ In(r, "freeLarge")

(* Mutator m is in FreeInternal(o), and has not freed it yet.              *)
Freeing(m, o) ==
  /\ o = <<th[m].page, th[m].slot>>
  /\ Frees(th[m]) \/ (th[m].pc = "freeRun" /\ label[th[m].page] = "large")

InUse(o) == o \in live \/ \E m \in Mutators : Freeing(m, o)

(* When the sweep is over no dead object is left, but one that a mutator   *)
(* is about to free, and no page is half swept: the flag is reset only     *)
(* then, and mutators stop helping.                                        *)
SweepComplete ==
  gcPc = "release" =>
    /\ \A o \in objects : InUse(o)
    /\ \A p \in 1 .. highestPageIndex : pageState[p] \in {"free", "swept"}

(* The sweep ends, although mutators keep pages in the sweeping state.     *)
SweepEnds == (gcPc = "sweep") ~> (gcPc = "idle")

(* Every operation of a mutator returns: one that waits for a page gets    *)
(* on, although SetSwept() may notify just before it sleeps.               *)
CallsReturn ==
  \A m \in Mutators :
    (th[m].pc \notin {"idle", "absent"}) ~> (th[m].pc \in {"idle", "absent"})

=============================================================================
