-------------------------- MODULE SweepHeapProofs --------------------------
(***************************************************************************)
(* Proofs about the heap in module ConcurrentSweep: the sweep frees what   *)
(* is dead and nothing else, no slot is lost or handed out twice, and no   *)
(* run is used by two.                                                     *)
(*                                                                         *)
(* HInv is inductive relative to IInv of ConcurrentSweepProofs.  Its idea: *)
(* while a page is not swept, nobody but the thread that sweeps it changes *)
(* what is on it, and its marked objects are exactly those in use.         *)
(***************************************************************************)
EXTENDS ConcurrentSweepProofs

-----------------------------------------------------------------------------
(* What a thread with the locals r is doing.                               *)

Sweeps(r)  == r.pc \in {"doSweep", "setSwept"}
Fetched(r) == In(r, "localise")
Seeks(r)   == r.pc \in {"fetch", "allocRun"} \/ Fetched(r)
Removes(r) == r.pc = "freeRun" \/ (r.pc = "setSwept" /\ r.remove)
Holds(r)   == Fetched(r) \/ Removes(r)

(* The page has still to be swept, or is being swept.                      *)
Undone(p) == gcPc = "sweep" /\ pageState[p] \in {"run", "large", "sweeping"}

-----------------------------------------------------------------------------
(* The inductive invariant.                                                *)

(* Local runs, and the threads that use, replace or revoke them.           *)
OwnInv ==
  /\ \A a \in Owners : localRun[a] # None => label[localRun[a]] = "run"
  /\ \A a, b \in Owners :
       localRun[a] = localRun[b] /\ localRun[a] # None => a = b
  /\ \A p \in Pages : isLocal[p] <=> \E a \in Owners : localRun[a] = p
  /\ \A a \in Owners : localFree[a] = {} \/ freeListHeads[a] = {}
  /\ freeListHeads[Global] = {}

CallInv ==
  \A m \in Mutators :
    /\ localRun[m] # None => useLocal[m]
    /\ Allocating(th[m]) /\ th[m].owner = m => useLocal[m]
    /\ Allocating(th[m]) /\ th[m].owner = Global => globalLock = m
    /\ In(th[m], "local") => th[m].page = localRun[th[m].owner]
    /\ Seeks(th[m]) => localRun[th[m].owner] = None
    /\ Revoking(th[m]) => th[m].page = localRun[m]

(* The states of the pages: what is to be swept is a run or a large        *)
(* object, and after the sweep everything is swept.                        *)
LabelInv ==
  /\ sweepRunning <=> gcPc = "sweep"
  /\ \A p \in Pages : Undone(p) =>
       /\ label[p] # "free" /\ p <= highestPageIndex
       /\ pageState[p] # "sweeping" => label[p] = pageState[p]
  /\ gcPc = "release" \/ (gcPc \in {"idle", "mark"} /\ refCount > 0) =>
       \A p \in Pages : pageState[p] \in {"free", "swept"}

(* A page in the sweeping state has one thread that sweeps it.             *)
SweepingInv ==
  /\ \A t \in Threads :
       /\ Sweeps(th[t]) => gcPc = "sweep" /\ pageState[th[t].page] = "sweeping"
       /\ th[t].pc = "doSweep" => label[th[t].page] = "run"
  /\ \A t, u \in Threads :
       Sweeps(th[t]) /\ Sweeps(th[u]) /\ th[t].page = th[u].page => t = u

(* A page that Sweep() was called for is swept when it returns.            *)
ReturnInv ==
  \A t \in Threads : \A p \in Pages :
    th[t].pc \in CallRets \cup {"freeRun"} /\ th[t].page = p => ~Undone(p)

(* The mutators' own free lists are out of use until the run is swept.     *)
OffInv ==
  \A m \in Mutators : \A p \in Pages :
    localFree[m] # {} /\ localRun[m] = p => ~Undone(p)

(* Free pages are empty, and free once.                                    *)
SpaceInv ==
  /\ \A p \in Pages : label[p] = "free" =>
       freeList[p] = {} /\ \A o \in objects : o[1] # p
  /\ \A p \in Pages : label[p] = "large" =>
       freeList[p] = {} /\ \A o \in objects : o[1] = p => o[2] = 1
  /\ \A p \in avail : label[p] = "free" /\ p <= spaceEnd
  /\ \A w \in Workers : \A p \in buffer[w] :
       label[p] = "free" /\ p <= spaceEnd /\ p \notin avail
  /\ \A v, w \in Workers : v # w => buffer[v] \cap buffer[w] = {}
  /\ \A p \in Pages : p > spaceEnd => label[p] = "free"

(* Each slot of a run is in one place.                                     *)
SlotInv ==
  /\ \A p \in Pages : label[p] = "run" => \A s \in Slots :
       \/ <<p, s>> \in objects \/ s \in freeList[p]
       \/ \E a \in Owners : /\ localRun[a] = p
                            /\ s \in localFree[a] \cup freeListHeads[a]
  /\ \A p \in Pages : \A s \in freeList[p] : <<p, s>> \notin objects
  /\ \A a \in Owners : localRun[a] # None =>
       \A s \in localFree[a] \cup freeListHeads[a] :
         <<localRun[a], s>> \notin objects /\ s \notin freeList[localRun[a]]

(* A run is in nonFullRuns, local, or with the thread that has fetched it  *)
(* or frees it,                                                            *)
NonFullInv ==
  \A p \in nonFullRuns :
    /\ label[p] = "run" /\ freeList[p] # {} /\ ~isLocal[p]
    /\ \A t \in Threads : ~(Holds(th[t]) /\ th[t].page = p)

HolderInv ==
  /\ \A t \in Threads :
       /\ Holds(th[t]) => label[th[t].page] # "free" /\ ~isLocal[th[t].page]
       /\ Fetched(th[t]) => label[th[t].page] = "run" /\ freeList[th[t].page] # {}
       /\ Removes(th[t]) /\ label[th[t].page] = "run" => freeList[th[t].page] = Slots
  /\ \A t, u \in Threads :
       Holds(th[t]) /\ Holds(th[u]) /\ th[t].page = th[u].page => t = u

(* and only a full one, or one that was full when its sweep began, is in   *)
(* none of these.                                                          *)
LoneInv ==
  \A p \in Pages :
    /\ label[p] = "run" /\ freeList[p] # {}
    /\ p \notin nonFullRuns /\ ~isLocal[p]
    /\ \A t \in Threads : ~(Holds(th[t]) /\ th[t].page = p)
    => \E t \in Threads : th[t].pc = "doSweep" /\ th[t].page = p /\ th[t].full

(* What a thread that sweeps a run knows of it.                            *)
FreshInv == \A t \in Threads : th[t].pc \in UserPcs \cup {"tryInc"} => ~th[t].freed

FullInv ==
  \A t \in Threads : th[t].pc = "doSweep" =>
    /\ th[t].freed \/ ~th[t].full => freeList[th[t].page] # {}
    /\ ~th[t].freed /\ th[t].full => freeList[th[t].page] = {}
    /\ th[t].full /\ ~isLocal[th[t].page] =>
         /\ th[t].page \notin nonFullRuns
         /\ \A u \in Threads : ~(Holds(th[u]) /\ th[u].page = th[t].page)

FreeInv ==
  /\ \A m \in Mutators : \A o \in Objs : Freeing(m, o) =>
       o \in objects /\ o \notin live
  /\ \A m, n \in Mutators : \A o \in Objs : Freeing(m, o) /\ Freeing(n, o) => m = n
  /\ \A m \in Mutators :
       /\ In(th[m], "free") => label[th[m].page] = "run"
       /\ In(th[m], "freeLarge") => label[th[m].page] = "large"
       /\ th[m].pc = "freeRun" /\ label[th[m].page] = "large" => th[m].slot = 1

(* On a page that is not swept the marked objects are those in use.        *)
MarkInv ==
  /\ live \subseteq objects
  /\ \A o \in objects : Undone(o[1]) => (o \in marked <=> InUse(o))

(* What is not in use will be freed.                                       *)
DeadInv ==
  \A o \in objects :
    \/ Undone(o[1]) \/ InUse(o)
    \/ \E w \in Workers : th[w].pc = "freeRun" /\ th[w].page = o[1]

(* When the sweep of a page is over all that is left there is marked; a    *)
(* large object that is not is freed by the worker.                        *)
SweptInv ==
  \A t \in Threads : th[t].pc = "setSwept" =>
    /\ th[t].remove => t \in Workers
    /\ \A o \in objects : o[1] = th[t].page =>
         o \in marked \/ (th[t].remove /\ label[th[t].page] = "large")

LargeInv ==
  \A w \in Workers : Removes(th[w]) /\ label[th[w].page] = "large" =>
    \A o \in objects : o[1] = th[w].page => ~InUse(o)

(* Every page that is not swept is still to come, in a task, after the     *)
(* cursor of a worker, or in its hands.                                    *)
Ahead(c, p) == c <= p /\ \A q \in Pages : c <= q /\ q < p => ~TaskEnd(q)

WorkLeft(p) ==
  \/ \E c \in tasks : Ahead(c, p)
  \/ \E w \in Workers :
       /\ th[w].pc # "idle"
       /\ \/ cursor[w] # 0 /\ Ahead(cursor[w], p)
          \/ th[w].pc \in SweepPcs /\ th[w].page = p

ProgressInv == \A p \in Pages : Undone(p) => WorkLeft(p)

HInv ==
  /\ OwnInv /\ CallInv /\ LabelInv /\ SweepingInv /\ ReturnInv /\ OffInv
  /\ SpaceInv /\ SlotInv /\ NonFullInv /\ HolderInv /\ LoneInv
  /\ FreshInv /\ FullInv /\ FreeInv
  /\ MarkInv /\ DeadInv /\ SweptInv /\ LargeInv /\ ProgressInv

-----------------------------------------------------------------------------
(* What threads do.                                                        *)

(* A thread with the locals q does what one with the locals r did, as far  *)
(* as the invariants can tell: in its call, to the runs it holds, and to   *)
(* the page it sweeps.                                                     *)
SameCall(r, q) ==
  /\ Allocating(q) <=> Allocating(r)
  /\ Revoking(q) <=> Revoking(r)
  /\ Seeks(q) <=> Seeks(r)
  /\ Frees(q) <=> Frees(r)
  /\ In(q, "local") <=> In(r, "local")
  /\ In(q, "free") <=> In(r, "free")
  /\ In(q, "freeLarge") <=> In(r, "freeLarge")
  /\ q.pc = "freeRun" <=> r.pc = "freeRun"
  /\ \/ Allocating(r) \/ Revoking(r) \/ Seeks(r) \/ Frees(r) \/ In(r, "local")
     \/ In(r, "free") \/ In(r, "freeLarge") \/ r.pc = "freeRun"
     => q.page = r.page /\ q.slot = r.slot /\ q.owner = r.owner

SameHold(r, q) ==
  /\ Fetched(q) <=> Fetched(r)
  /\ Removes(q) <=> Removes(r)
  /\ Holds(q) <=> Holds(r)
  /\ Holds(r) => q.page = r.page

SameSweep(r, q) ==
  /\ Sweeps(q) <=> Sweeps(r)
  /\ q.pc = "doSweep" <=> r.pc = "doSweep"
  /\ q.pc = "setSwept" <=> r.pc = "setSwept"
  /\ Sweeps(r) => /\ q.page = r.page /\ q.full = r.full
                  /\ q.freed = r.freed /\ q.remove = r.remove

Same(r, q) == SameCall(r, q) /\ SameHold(r, q) /\ SameSweep(r, q)

(* A thread that does nothing to any page.                                 *)
Idle(r) ==
  /\ ~Allocating(r) /\ ~Revoking(r) /\ ~Seeks(r) /\ ~Frees(r) /\ ~Fetched(r)
  /\ ~In(r, "local") /\ ~In(r, "free") /\ ~In(r, "freeLarge")
  /\ ~Removes(r) /\ ~Holds(r) /\ ~Sweeps(r)
  /\ r.pc \notin {"doSweep", "setSwept", "freeRun"}
  /\ r.pc \notin CallRets

LEMMA SameSelf ==
  ASSUME NEW r
  PROVE  Same(r, r) /\ SameCall(r, r) /\ SameHold(r, r) /\ SameSweep(r, r)
BY DEF Same, SameCall, SameHold, SameSweep

LEMMA IdleRoles ==
  ASSUME NEW r, r.pc \in {"idle", "absent", "next"}
  PROVE  Idle(r)
BY DEF Idle, In, CallRets, SweepPcs, Allocating, Revoking, Seeks, Frees,
       Fetched, Removes, Holds, Sweeps

LEMMA IdleSame ==
  ASSUME NEW r, NEW q, Idle(r), Idle(q)
  PROVE  Same(r, q)
BY DEF Idle, Same, SameCall, SameHold, SameSweep

(* A step of thread t alone.                                               *)
LEMMA Alone ==
  ASSUME LocalInv, LocalInv', NEW t \in Threads, NEW r,
         th' = [th EXCEPT ![t] = r]
  PROVE  /\ th'[t] = r
         /\ \A u \in Threads \ {t} : th'[u] = th[u]
         /\ th[t] \in Locals /\ r \in Locals
<1>1. th \in [Threads -> Locals] /\ th' \in [Threads -> Locals]
  BY DEF LocalInv
<1>2. th'[t] = r /\ \A u \in Threads \ {t} : th'[u] = th[u]
  BY <1>1
<1> QED
  BY <1>1, <1>2

LEMMA AllSame ==
  ASSUME NEW t \in Threads, Same(th[t], th'[t]),
         \A u \in Threads \ {t} : th'[u] = th[u]
  PROVE  /\ \A u \in Threads : SameHold(th[u], th'[u]) /\ SameSweep(th[u], th'[u])
         /\ \A m \in Mutators : SameCall(th[m], th'[m])
<1>1. \A u \in Threads : Same(th[u], th'[u])
  BY SameSelf
<1> QED
  BY <1>1 DEF Same, Threads

LEMMA MutatorIsThread ==
  /\ \A m \in Mutators : m \in Threads /\ m \in Owners /\ m # Global /\ m \notin Workers
  /\ \A w \in Workers : w \in Threads /\ w \notin Mutators
  /\ Global \in Owners
BY ConstantsAssumption DEF Threads, Owners

LEMMA NoneIsNoPage == None \notin Pages
BY ConstantsAssumption DEF Pages

LEMMA SlotExists == Slots # {} /\ 1 \in Slots
BY ConstantsAssumption DEF Slots

LEMMA NextTypes == TypeOK' => HeapOK'
BY DEF TypeOK, HeapOK

-----------------------------------------------------------------------------
(* Steps that leave parts of the invariant alone.                          *)

LEMMA OwnKept ==
  ASSUME OwnInv,
         UNCHANGED <<label, isLocal, localRun, localFree, freeListHeads>>
  PROVE  OwnInv'
BY DEF OwnInv

LEMMA CallKept ==
  ASSUME CallInv, UNCHANGED <<localRun, useLocal, globalLock>>,
         \A m \in Mutators : SameCall(th[m], th'[m])
  PROVE  CallInv'
BY DEF CallInv, SameCall

LEMMA LabelKept ==
  ASSUME LabelInv,
         UNCHANGED <<sweepRunning, gcPc, pageState, label, highestPageIndex>>,
         refCount' > 0 => refCount > 0
  PROVE  LabelInv'
BY DEF LabelInv, Undone

LEMMA SweepingKept ==
  ASSUME SweepingInv, UNCHANGED <<gcPc, pageState, label>>,
         \A t \in Threads : SameSweep(th[t], th'[t])
  PROVE  SweepingInv'
<1>1. ASSUME NEW t \in Threads
      PROVE  /\ Sweeps(th'[t]) <=> Sweeps(th[t])
             /\ th'[t].pc = "doSweep" <=> th[t].pc = "doSweep"
             /\ th[t].pc = "doSweep" => Sweeps(th[t])
             /\ Sweeps(th[t]) => th'[t].page = th[t].page
  <2>1. th[t].pc = "doSweep" => Sweeps(th[t])
    BY DEF Sweeps
  <2> QED
    BY <2>1, <1>1 DEF SameSweep
<1> QED
  BY <1>1 DEF SweepingInv

LEMMA OffKept ==
  ASSUME OffInv, UNCHANGED <<localRun, localFree>>,
         \A p \in Pages : Undone(p)' => Undone(p)
  PROVE  OffInv'
BY DEF OffInv

LEMMA SpaceKept ==
  ASSUME SpaceInv, UNCHANGED <<label, freeList, avail, spaceEnd, buffer>>,
         objects' \subseteq objects
  PROVE  SpaceInv'
BY DEF SpaceInv

LEMMA SlotKept ==
  ASSUME SlotInv,
         UNCHANGED <<label, objects, freeList, localRun, localFree, freeListHeads>>
  PROVE  SlotInv'
BY DEF SlotInv

LEMMA NonFullKept ==
  ASSUME NonFullInv, UNCHANGED <<nonFullRuns, label, freeList, isLocal>>,
         \A t \in Threads : SameHold(th[t], th'[t])
  PROVE  NonFullInv'
BY DEF NonFullInv, SameHold

LEMMA HolderKept ==
  ASSUME HolderInv, UNCHANGED <<label, freeList, isLocal>>,
         \A t \in Threads : SameHold(th[t], th'[t])
  PROVE  HolderInv'
<1>1. ASSUME NEW t \in Threads
      PROVE  /\ Fetched(th'[t]) <=> Fetched(th[t])
             /\ Removes(th'[t]) <=> Removes(th[t])
             /\ Holds(th'[t]) <=> Holds(th[t])
             /\ Fetched(th[t]) \/ Removes(th[t]) => Holds(th[t])
             /\ Holds(th[t]) => th'[t].page = th[t].page
  <2>1. Fetched(th[t]) \/ Removes(th[t]) => Holds(th[t])
    BY DEF Holds
  <2> QED
    BY <2>1, <1>1 DEF SameHold
<1> QED
  BY <1>1 DEF HolderInv

LEMMA LoneKept ==
  ASSUME LoneInv, UNCHANGED <<nonFullRuns, label, freeList, isLocal>>,
         \A t \in Threads : SameHold(th[t], th'[t]),
         \A t \in Threads : th[t].pc = "doSweep" =>
           th'[t].pc = "doSweep" /\ th'[t].page = th[t].page /\ th'[t].full = th[t].full
  PROVE  LoneInv'
BY DEF LoneInv, SameHold

LEMMA FullKept ==
  ASSUME FullInv, UNCHANGED <<nonFullRuns, freeList, isLocal>>,
         \A t \in Threads : SameHold(th[t], th'[t]),
         \A t \in Threads : th'[t].pc = "doSweep" =>
           /\ th[t].pc = "doSweep" /\ th'[t].page = th[t].page
           /\ th'[t].full = th[t].full /\ th'[t].freed = th[t].freed
  PROVE  FullInv'
BY DEF FullInv, SameHold

(* The same objects are being freed.                                       *)
LEMMA FreeingKept ==
  ASSUME UNCHANGED label, \A m \in Mutators : SameCall(th[m], th'[m]),
         NEW m \in Mutators, NEW o
  PROVE  Freeing(m, o)' <=> Freeing(m, o)
<1>1. SameCall(th[m], th'[m])
  OBVIOUS
<1> QED
  BY <1>1 DEF Freeing, SameCall

LEMMA FreeKept ==
  ASSUME FreeInv, UNCHANGED label,
         \A m \in Mutators : SameCall(th[m], th'[m]),
         \A m \in Mutators : \A o \in Objs :
           Freeing(m, o) => o \in objects' /\ o \notin live'
  PROVE  FreeInv'
<1>1. \A m \in Mutators : \A o \in Objs : Freeing(m, o)' <=> Freeing(m, o)
  BY FreeingKept
<1>2. /\ \A m \in Mutators : \A o \in Objs : Freeing(m, o)' =>
           o \in objects' /\ o \notin live'
      /\ \A m, n \in Mutators : \A o \in Objs :
           Freeing(m, o)' /\ Freeing(n, o)' => m = n
  BY <1>1 DEF FreeInv
<1>3. \A m \in Mutators :
        /\ In(th'[m], "free") => label'[th'[m].page] = "run"
        /\ In(th'[m], "freeLarge") => label'[th'[m].page] = "large"
        /\ th'[m].pc = "freeRun" /\ label'[th'[m].page] = "large" => th'[m].slot = 1
  BY DEF FreeInv, SameCall
<1> QED
  BY <1>2, <1>3 DEF FreeInv

LEMMA UseKept ==
  ASSUME UNCHANGED <<label, live>>, \A m \in Mutators : SameCall(th[m], th'[m]),
         NEW o
  PROVE  InUse(o)' <=> InUse(o)
BY FreeingKept DEF InUse

LEMMA ObjectsHavePages ==
  ASSUME TypeOK
  PROVE  \A o \in objects : o \in Objs /\ o[1] \in Pages /\ o[2] \in Slots
                              /\ o = <<o[1], o[2]>>
BY DEF TypeOK, Objs

LEMMA MarkKept ==
  ASSUME MarkInv, TypeOK, UNCHANGED <<objects, live, marked>>,
         \A o \in objects : InUse(o)' <=> InUse(o),
         \A p \in Pages : Undone(p)' => Undone(p)
  PROVE  MarkInv'
BY ObjectsHavePages DEF MarkInv

LEMMA DeadKept ==
  ASSUME DeadInv, TypeOK, objects' \subseteq objects,
         \A o \in objects : InUse(o) => InUse(o)',
         \A p \in Pages : Undone(p) => Undone(p)',
         \A w \in Workers : th[w].pc = "freeRun" =>
           th'[w].pc = "freeRun" /\ th'[w].page = th[w].page
  PROVE  DeadInv'
<1> SUFFICES ASSUME NEW o \in objects'
             PROVE  \/ Undone(o[1])' \/ InUse(o)'
                    \/ \E w \in Workers : th'[w].pc = "freeRun" /\ th'[w].page = o[1]
  BY DEF DeadInv
<1>1. o \in objects /\ o[1] \in Pages
  BY ObjectsHavePages
<1>2. \/ Undone(o[1]) \/ InUse(o)
      \/ \E w \in Workers : th[w].pc = "freeRun" /\ th[w].page = o[1]
  BY <1>1 DEF DeadInv
<1> QED
  BY <1>1, <1>2

LEMMA SweptKept ==
  ASSUME SweptInv, UNCHANGED label, marked' = marked, objects' \subseteq objects,
         \A t \in Threads : th'[t].pc = "setSwept" =>
           /\ th[t].pc = "setSwept" /\ th'[t].page = th[t].page
           /\ th'[t].remove = th[t].remove
  PROVE  SweptInv'
BY DEF SweptInv

LEMMA LargeKept ==
  ASSUME LargeInv, UNCHANGED label, objects' \subseteq objects,
         \A o \in objects' : InUse(o)' => InUse(o),
         \A w \in Workers : Removes(th'[w]) =>
           Removes(th[w]) /\ th'[w].page = th[w].page
  PROVE  LargeInv'
BY DEF LargeInv

LEMMA ProgressKept ==
  ASSUME ProgressInv, UNCHANGED <<tasks, cursor, highestPageIndex>>,
         \A p \in Pages : Undone(p)' => Undone(p),
         \A w \in Workers :
           /\ th[w].pc # "idle" => th'[w].pc # "idle"
           /\ \A p \in Pages : th[w].pc \in SweepPcs /\ th[w].page = p /\ Undone(p)' =>
                th'[w].pc \in SweepPcs /\ th'[w].page = p
  PROVE  ProgressInv'
<1>1. \A c, p : Ahead(c, p)' <=> Ahead(c, p)
  BY DEF Ahead, TaskEnd
<1>2. ASSUME NEW p \in Pages, Undone(p)'
      PROVE  WorkLeft(p)'
  <2>1. Undone(p)
    BY <1>2
  <2>2. WorkLeft(p)
    BY <2>1 DEF ProgressInv
  <2> QED
    BY <1>1, <1>2, <2>2 DEF WorkLeft
<1> QED
  BY <1>2 DEF ProgressInv

LEMMA ReturnKept ==
  ASSUME ReturnInv, \A p \in Pages : Undone(p)' => Undone(p),
         \A t \in Threads : th'[t].pc \in CallRets \cup {"freeRun"} =>
           \/ th[t].pc \in CallRets \cup {"freeRun"} /\ th'[t].page = th[t].page
           \/ \A p \in Pages : th'[t].page = p => ~Undone(p)'
  PROVE  ReturnInv'
BY DEF ReturnInv

LEMMA FreshKept ==
  ASSUME FreshInv, NEW t \in Threads, \A u \in Threads \ {t} : th'[u] = th[u],
         th'[t].pc \in UserPcs \cup {"tryInc"} => ~th'[t].freed
  PROVE  FreshInv'
BY DEF FreshInv

-----------------------------------------------------------------------------
(* Steps of Sweep().                                                       *)

(* A thread moves on inside Sweep(), or returns with its page swept.       *)
LEMMA MoveStep ==
  ASSUME IInv, IInv', HInv, NEW t \in Threads, NEW l,
         th[t].pc \in UserPcs \cup {"tryInc"},
         l \in UserPcs \/ (l = th[t].ret /\ ~Undone(th[t].page)),
         th' = [th EXCEPT ![t] = [th[t] EXCEPT !.pc = l]],
         UNCHANGED <<spaceVars, objects, runVars, localVars, globalLock,
                     pageState, highestPageIndex, taskVars, gcVars, live>>,
         refCount' > 0 => refCount > 0
  PROVE  HInv'
<1> DEFINE r == [th[t] EXCEPT !.pc = l]
<1>1. LocalInv /\ LocalInv' /\ RunInv /\ TypeOK
  BY DEF IInv
<1>2. /\ th'[t] = r /\ th[t] \in Locals
      /\ \A u \in Threads \ {t} : th'[u] = th[u]
  BY <1>1, Alone
<1>3. /\ r.pc = l /\ r.ret = th[t].ret /\ r.page = th[t].page
      /\ r.slot = th[t].slot /\ r.owner = th[t].owner /\ r.full = th[t].full
      /\ r.freed = th[t].freed /\ r.remove = th[t].remove
  BY <1>2 DEF Locals
<1>4. th[t].pc \in SweepPcs /\ th[t].pc \notin {"doSweep", "setSwept"}
  BY DEF UserPcs, SweepPcs
<1>5. th[t].ret \in CallRets \cup {"next"} /\ th[t].page \in Pages
  BY <1>1, <1>4, RetOutside
<1>6. Same(th[t], r)
  <2>1. CASE l \in UserPcs
    BY <2>1, <1>3, <1>4 DEF Same, SameCall, SameHold, SameSweep, In, Allocating,
       Revoking, Seeks, Frees, Fetched, Removes, Holds, Sweeps, UserPcs, SweepPcs,
       CallRets
  <2>2. CASE l = th[t].ret
    BY <2>2, <1>3, <1>4, <1>5 DEF Same, SameCall, SameHold, SameSweep, In,
       Allocating, Revoking, Seeks, Frees, Fetched, Removes, Holds, Sweeps,
       SweepPcs, CallRets
  <2> QED
    BY <2>1, <2>2
<1> HIDE DEF r
<1>7. /\ \A u \in Threads : SameHold(th[u], th'[u]) /\ SameSweep(th[u], th'[u])
      /\ \A m \in Mutators : SameCall(th[m], th'[m])
  BY <1>2, <1>6, AllSame
<1>8. /\ \A p : Undone(p)' <=> Undone(p)
      /\ \A o : InUse(o)' <=> InUse(o)
  BY <1>7, UseKept DEF Undone, gcVars, spaceVars
<1>9. \A u \in Threads :
        /\ Sweeps(th'[u]) \/ Sweeps(th[u]) \/ Removes(th'[u]) \/ th[u].pc = "freeRun"
             => th'[u] = th[u]
        /\ th[u].pc # "idle" => th'[u].pc # "idle"
        /\ th[u].pc \in SweepPcs => th'[u].page = th[u].page
        /\ th[u].pc \in SweepPcs => th'[u].pc \in SweepPcs \/ ~Undone(th[u].page)
  <2>1. /\ ~Sweeps(r) /\ ~Sweeps(th[t]) /\ ~Removes(r) /\ r.pc # "idle"
        /\ th[t].pc # "freeRun" /\ (r.pc \in SweepPcs \/ ~Undone(th[t].page))
    BY <1>3, <1>4, <1>5 DEF Sweeps, Removes, UserPcs, SweepPcs, CallRets
  <2> QED
    BY <2>1, <1>2, <1>3
<1>10. OwnInv' /\ SlotInv' /\ SpaceInv' /\ CallInv'
  BY <1>7, OwnKept, SlotKept, SpaceKept, CallKept
     DEF HInv, spaceVars, runVars, localVars, taskVars
<1>11. LabelInv' /\ SweepingInv' /\ OffInv'
  BY <1>7, <1>8, LabelKept, SweepingKept, OffKept
     DEF HInv, spaceVars, localVars, gcVars
<1>12. ReturnInv'
  <2>1. \A u \in Threads : th'[u].pc \in CallRets \cup {"freeRun"} =>
           \/ th[u].pc \in CallRets \cup {"freeRun"} /\ th'[u].page = th[u].page
           \/ \A p \in Pages : th'[u].page = p => ~Undone(p)'
    BY <1>2, <1>3, <1>8 DEF UserPcs, CallRets
  <2> QED
    BY <2>1, <1>8, ReturnKept DEF HInv
<1>13. NonFullInv' /\ HolderInv'
  BY <1>7, NonFullKept, HolderKept DEF HInv, spaceVars, runVars
<1>14. LoneInv' /\ FullInv'
  <2>1. \A u \in Threads : th[u].pc = "doSweep" \/ th'[u].pc = "doSweep" => th'[u] = th[u]
    BY <1>9 DEF Sweeps
  <2> QED
    BY <2>1, <1>7, LoneKept, FullKept DEF HInv, spaceVars, runVars
<1>15. FreshInv'
  BY <1>2, <1>3, FreshKept DEF HInv, FreshInv
<1>16. FreeInv'
  BY <1>7, FreeKept DEF HInv, FreeInv, spaceVars
<1>17. MarkInv' /\ DeadInv'
  BY <1>1, <1>8, <1>9, MutatorIsThread, MarkKept, DeadKept DEF HInv, gcVars
<1>18. SweptInv' /\ LargeInv'
  <2>1. \A u \in Threads : th'[u].pc = "setSwept" => th'[u] = th[u]
    BY <1>9 DEF Sweeps
  <2> QED
    BY <2>1, <1>8, <1>9, MutatorIsThread, SweptKept, LargeKept
       DEF HInv, gcVars, spaceVars
<1>19. ProgressInv'
  <2>1. \A w \in Workers :
           /\ th[w].pc # "idle" => th'[w].pc # "idle"
           /\ \A p \in Pages : th[w].pc \in SweepPcs /\ th[w].page = p /\ Undone(p)' =>
                th'[w].pc \in SweepPcs /\ th'[w].page = p
    BY <1>8, <1>9, MutatorIsThread
  <2> QED
    BY <2>1, <1>8, ProgressKept DEF HInv, taskVars
<1> QED
  BY <1>10, <1>11, <1>12, <1>13, <1>14, <1>15, <1>16, <1>17, <1>18, <1>19 DEF HInv

(* During the sweep the GC thread keeps the page map.                      *)
LEMMA MapThere ==
  ASSUME IInv, gcPc = "sweep"
  PROVE  refCount > 0
<1>1. Held = 1
  BY DEF Held
<1> QED
  BY <1>1, UsersFinite DEF IInv, CountInv

LEMMA GotoPc ==
  ASSUME LocalInv, NEW t \in Threads, NEW l, Goto(t, l)
  PROVE  th' = [th EXCEPT ![t] = [th[t] EXCEPT !.pc = l]]
<1>1. th \in [Threads -> Locals]
  BY DEF LocalInv
<1> QED
  BY <1>1 DEF Goto

(* A user of the page map, counted.                                        *)
LEMMA UserCounts ==
  ASSUME IInv, NEW t \in Threads, th[t].pc \in UserPcs
  PROVE  refCount > 0 /\ refCount \in Nat
<1>1. Users # {}
  BY DEF Users
<1>2. Cardinality(Users) # 0
  BY <1>1, UsersFinite, FS_EmptySet
<1>3. Held \in {0, 1}
  BY DEF Held
<1> QED
  BY <1>2, <1>3, UsersFinite DEF IInv, CountInv

LEMMA HeapTryIncRC ==
  ASSUME IInv, IInv', HInv, NEW t \in Threads, TryIncRC(t)
  PROVE  HInv'
<1>1. LocalInv /\ LabelInv /\ refCount \in Nat /\ highestPageIndex \in Nat
  <2>1. refCount \in Nat
    <3>1. Held \in {0, 1}
      BY DEF Held
    <3> QED
      BY <3>1, UsersFinite DEF IInv, CountInv
  <2> QED
    BY <2>1 DEF IInv, HInv, TypeOK
<1>2. th[t].pc = "tryInc" /\ th[t].pc \in SweepPcs
  BY DEF TryIncRC, At, SweepPcs
<1>3. /\ UNCHANGED <<spaceVars, objects, runVars, localVars, globalLock,
                     pageState, highestPageIndex, taskVars, gcVars, live>>
  BY DEF TryIncRC
<1>4. th[t].page \in Pages
  BY <1>1, <1>2, RetOutside
<1>5. CASE refCount = 0 \/ th[t].page > highestPageIndex
  <2>1. Goto(t, th[t].ret) /\ refCount' = refCount
    BY <1>5 DEF TryIncRC
  <2>2. ~Undone(th[t].page)
    <3>1. refCount = 0 => gcPc # "sweep"
      BY MapThere
    <3>2. Undone(th[t].page) => th[t].page <= highestPageIndex /\ gcPc = "sweep"
      BY <1>1, <1>4 DEF LabelInv, Undone
    <3>3. th[t].page \in Nat
      BY <1>4 DEF Pages
    <3> QED
      BY <3>1, <3>2, <3>3, <1>1, <1>5
  <2>3. th' = [th EXCEPT ![t] = [th[t] EXCEPT !.pc = th[t].ret]]
    BY <2>1, <1>1, GotoPc
  <2> QED
    BY <2>1, <2>2, <2>3, <1>2, <1>3, MoveStep
<1>6. CASE ~(refCount = 0 \/ th[t].page > highestPageIndex)
  <2>1. Goto(t, "label") /\ refCount > 0
    BY <1>1, <1>6 DEF TryIncRC
  <2>2. th' = [th EXCEPT ![t] = [th[t] EXCEPT !.pc = "label"]]
    BY <2>1, <1>1, GotoPc
  <2>3. "label" \in UserPcs
    BY DEF UserPcs
  <2> QED
    BY <2>1, <2>2, <2>3, <1>2, <1>3, MoveStep
<1> QED
  BY <1>5, <1>6

LEMMA HeapWait ==
  ASSUME IInv, IInv', HInv, NEW t \in Threads,
         WaitUntilSwept(t) \/ BlockUntilSwept(t) \/ SweepTimeout(t)
  PROVE  HInv'
<1>1. LocalInv
  BY DEF IInv
<1>2. /\ th[t].pc \in UserPcs
      /\ UNCHANGED <<spaceVars, objects, runVars, localVars, globalLock,
                     pageState, highestPageIndex, taskVars, gcVars, live>>
  BY DEF WaitUntilSwept, BlockUntilSwept, SweepTimeout, At, UserPcs, ctxVars
<1>3. refCount > 0
  BY <1>2, UserCounts
<1>4. CASE pageState[th[t].page] = "swept" /\ Goto(t, th[t].ret)
  <2>1. ~Undone(th[t].page)
    BY <1>4 DEF Undone
  <2>2. th' = [th EXCEPT ![t] = [th[t] EXCEPT !.pc = th[t].ret]]
    BY <1>1, <1>4, GotoPc
  <2> QED
    BY <2>1, <2>2, <1>2, <1>3, MoveStep
<1>5. ASSUME NEW l \in UserPcs, Goto(t, l)
      PROVE  HInv'
  <2>1. th' = [th EXCEPT ![t] = [th[t] EXCEPT !.pc = l]]
    BY <1>1, <1>5, GotoPc
  <2> QED
    BY <2>1, <1>2, <1>3, MoveStep
<1>6. \/ pageState[th[t].page] = "swept" /\ Goto(t, th[t].ret)
      \/ Goto(t, "block") \/ Goto(t, "blocked")
  BY DEF WaitUntilSwept, BlockUntilSwept, SweepTimeout
<1>7. "block" \in UserPcs /\ "blocked" \in UserPcs
  BY DEF UserPcs
<1> QED
  BY <1>4, <1>5, <1>6, <1>7

(* A page that is still to be swept is seen during the sweep only.         *)
LEMMA SeenInSweep ==
  ASSUME IInv, LabelInv, NEW t \in Threads, th[t].pc \in UserPcs,
         th[t].page \in Pages, pageState[th[t].page] \in {"run", "large", "sweeping"}
  PROVE  gcPc = "sweep" /\ Undone(th[t].page)
<1>1. refCount > 0
  BY UserCounts
<1>2. gcPc \in {"idle", "mark", "sweep", "release"}
  BY DEF IInv, TypeOK
<1> QED
  BY <1>1, <1>2 DEF LabelInv, Undone

(* A mutator in Sweep() has a page of the right kind.                      *)
LEMMA SweptFor ==
  ASSUME IInv, HInv, NEW t \in Mutators, th[t].pc \in SweepPcs
  PROVE  /\ label[th[t].page] = "run" \/ In(th[t], "freeLarge")
         /\ \/ isLocal[th[t].page] \/ Fetched(th[t])
            \/ In(th[t], "free") \/ In(th[t], "freeLarge")
<1>1. /\ LocalInv /\ OwnInv /\ CallInv /\ HolderInv /\ FreeInv
      /\ t \in Threads /\ th[t] \in Locals /\ LocalOK(t, th[t])
  BY DEF IInv, HInv, LocalInv, Threads
<1>2. th[t].page \in Pages /\ th[t].ret \in CallRets
  BY <1>1 DEF LocalOK
<1>3. CASE th[t].ret = "local"
  <2>1. th[t].page = localRun[th[t].owner]
    BY <1>1, <1>3 DEF CallInv, In
  <2>2. th[t].owner \in {t, Global}
    BY <1>1, <1>3 DEF LocalOK, Allocating
  <2>3. th[t].owner \in Owners
    BY <2>2 DEF Owners
  <2>4. localRun[th[t].owner] # None
    BY <2>1, <1>2, ConstantsAssumption DEF Pages
  <2> QED
    BY <2>1, <2>3, <2>4, <1>1, <1>2 DEF OwnInv
<1>4. CASE th[t].ret = "revoke"
  <2>1. th[t].page = localRun[t]
    BY <1>1, <1>4 DEF CallInv, Revoking
  <2>2. t \in Owners /\ localRun[t] # None
    BY <2>1, <1>2, ConstantsAssumption DEF Pages, Owners
  <2> QED
    BY <2>1, <2>2, <1>1, <1>2 DEF OwnInv
<1>5. CASE th[t].ret = "localise"
  <2>1. Fetched(th[t])
    BY <1>5 DEF Fetched, In
  <2> QED
    BY <2>1, <1>1 DEF HolderInv
<1>6. CASE th[t].ret = "free"
  <2>1. In(th[t], "free")
    BY <1>6 DEF In
  <2> QED
    BY <2>1, <1>1 DEF FreeInv
<1>7. CASE th[t].ret = "freeLarge"
  BY <1>7 DEF In
<1> QED
  BY <1>2, <1>3, <1>4, <1>5, <1>6, <1>7 DEF CallRets

(* What a mutator frees is there.                                          *)
LEMMA FreedThere ==
  ASSUME IInv, HInv, NEW m \in Mutators, Frees(th[m])
  PROVE  /\ th[m].page \in Pages /\ th[m].slot \in Slots
         /\ <<th[m].page, th[m].slot>> \in objects
         /\ Freeing(m, <<th[m].page, th[m].slot>>)
<1>1. LocalInv /\ FreeInv /\ m \in Threads /\ th[m] \in Locals /\ LocalOK(m, th[m])
  BY DEF IInv, HInv, LocalInv, Threads
<1>2. th[m].pc \in SweepPcs \cup {"free", "freeLarge"}
  BY DEF Frees, In
<1>3. th[m].page \in Pages /\ th[m].slot \in Slots
  BY <1>1, <1>2 DEF LocalOK, Locals
<1>4. Freeing(m, <<th[m].page, th[m].slot>>)
  BY DEF Freeing
<1> QED
  BY <1>1, <1>3, <1>4 DEF FreeInv, Objs

(* Each thread that has something to do with a page has a page.            *)
LEMMA PageOf ==
  ASSUME LocalInv, NEW t \in Threads
  PROVE  /\ th[t].page \in Pages \cup {None}
         /\ Holds(th[t]) \/ Sweeps(th[t]) \/ Frees(th[t]) \/ th[t].pc = "doSweep"
              => th[t].page \in Pages
<1>1. th[t] \in Locals /\ LocalOK(t, th[t])
  BY DEF LocalInv
<1>2. Holds(th[t]) \/ Sweeps(th[t]) \/ Frees(th[t]) \/ th[t].pc = "doSweep" =>
        th[t].pc \in SweepPcs \cup {"freeRun", "localise", "free", "freeLarge"}
  BY DEF Holds, Fetched, Removes, In, Sweeps, Frees, SweepPcs
<1> QED
  BY <1>1, <1>2 DEF LocalOK, Locals

(* A thread takes a page that is still to be swept.                        *)
LEMMA HeapTakePage ==
  ASSUME IInv, IInv', HInv, NEW t \in Threads, NEW r \in Locals, NEW p \in Pages,
         th[t].pc = "label", p = th[t].page,
         pageState' = [pageState EXCEPT ![p] = "sweeping"],
         th' = [th EXCEPT ![t] = r],
         r.page = p, r.ret = th[t].ret, r.slot = th[t].slot,
         r.owner = th[t].owner, r.freed = th[t].freed,
         \/ /\ pageState[p] = "run" /\ r.pc = "doSweep"
            /\ r.full <=> freeList[p] = {}
         \/ /\ pageState[p] = "large" /\ r.pc = "setSwept"
            /\ r.remove <=> (t \in Workers /\ <<p, 1>> \notin marked),
         UNCHANGED <<spaceVars, objects, runVars, localVars, globalLock,
                     highestPageIndex, taskVars, gcVars, ops, live>>
  PROVE  HInv'
<1>1. LocalInv /\ LocalInv' /\ RunInv /\ TypeOK /\ HeapOK'
  BY NextTypes DEF IInv
<1>2. /\ th'[t] = r /\ th[t] \in Locals
      /\ \A u \in Threads \ {t} : th'[u] = th[u]
  BY <1>1, Alone
<1>3. th[t].pc \in SweepPcs /\ th[t].pc \in UserPcs
  BY DEF UserPcs, SweepPcs
<1>4. gcPc = "sweep" /\ Undone(p) /\ label[p] = pageState[p] /\ ~th[t].freed
  <2>1. gcPc = "sweep" /\ Undone(p)
    BY <1>3, SeenInSweep DEF HInv
  <2>2. label[p] = pageState[p] /\ ~th[t].freed
    BY <2>1, <1>3 DEF HInv, LabelInv, FreshInv
  <2> QED
    BY <2>1, <2>2
<1>5. /\ pageState'[p] = "sweeping"
      /\ \A q \in Pages \ {p} : pageState'[q] = pageState[q]
  BY <1>1 DEF TypeOK
<1>6. \A q \in Pages : Undone(q)' <=> Undone(q)
  BY <1>4, <1>5 DEF Undone, gcVars
<1>7. /\ SameCall(th[t], r) /\ (Fetched(r) <=> Fetched(th[t]))
      /\ (Removes(r) <=> (pageState[p] = "large" /\ r.remove)) /\ ~Removes(th[t])
      /\ Sweeps(r) /\ ~Sweeps(th[t]) /\ th[t].pc # "doSweep" /\ r.pc # "freeRun"
      /\ r.pc \in SweepPcs /\ r.pc \notin CallRets \cup UserPcs \cup {"tryInc"}
  BY <1>3 DEF SameCall, In, Allocating, Revoking, Seeks, Frees, Fetched,
     Removes, Sweeps, SweepPcs, CallRets, UserPcs
<1>8. /\ \A m \in Mutators : SameCall(th[m], th'[m])
      /\ \A u \in Threads : th'[u].page = th[u].page
      /\ \A u \in Threads : Fetched(th'[u]) <=> Fetched(th[u])
      /\ \A u \in Threads : th'[u].pc = "freeRun" <=> th[u].pc = "freeRun"
      /\ \A o : InUse(o)' <=> InUse(o)
  <2>1. \A m \in Mutators : SameCall(th[m], th'[m])
    BY <1>2, <1>7, SameSelf, MutatorIsThread
  <2> QED
    BY <2>1, <1>2, <1>7, UseKept DEF spaceVars
<1>9. UNCHANGED <<label, freeList, nonFullRuns, isLocal, objects, live, marked>>
  BY DEF spaceVars, runVars, gcVars
<1>10. /\ \A u \in Threads : ~(Sweeps(th[u]) /\ th[u].page = p)
       /\ \A u \in Threads : ~(Removes(th[u]) /\ th[u].page = p)
  <2>1. \A u \in Threads : ~(Sweeps(th[u]) /\ th[u].page = p)
    BY DEF HInv, SweepingInv
  <2>2. \A u \in Threads : ~(th[u].pc = "freeRun" /\ th[u].page = p)
    BY <1>4 DEF HInv, ReturnInv
  <2> QED
    BY <2>1, <2>2 DEF Removes, Sweeps
(* Only a large object that is dead gets a new holder.                     *)
<1>11. /\ \A u \in Threads : Holds(th[u]) => Holds(th'[u])
       /\ \A u \in Threads \ {t} : Holds(th'[u]) => Holds(th[u])
       /\ Holds(r) => \/ Holds(th[t])
                      \/ (label[p] = "large" /\ Removes(r))
  BY <1>2, <1>4, <1>7 DEF Holds
<1>12. label[p] = "large" =>
         /\ \A u \in Threads : ~(Holds(th[u]) /\ th[u].page = p)
         /\ p \notin nonFullRuns /\ ~isLocal[p]
  <2>1. label[p] = "large" => ~isLocal[p]
    BY NoneIsNoPage DEF HInv, OwnInv
  <2>2. label[p] = "large" => p \notin nonFullRuns
    BY DEF HInv, NonFullInv
  <2> QED
    BY <2>1, <2>2, <1>10 DEF HInv, HolderInv, Holds
<1>13. OwnInv' /\ SlotInv' /\ SpaceInv' /\ CallInv' /\ OffInv'
  BY <1>6, <1>8, OwnKept, SlotKept, SpaceKept, CallKept, OffKept
     DEF HInv, spaceVars, runVars, localVars, taskVars
<1>14. FreeInv'
  BY <1>8, FreeKept DEF HInv, FreeInv, spaceVars
<1>15. LabelInv'
  <2>1. \A q \in Pages : Undone(q)' =>
          /\ label[q] # "free" /\ q <= highestPageIndex
          /\ pageState'[q] # "sweeping" => label[q] = pageState'[q]
    BY <1>5, <1>6 DEF HInv, LabelInv
  <2> QED
    BY <2>1, <1>4 DEF HInv, LabelInv, gcVars, spaceVars
<1>16. SweepingInv'
  <2>1. ASSUME NEW u \in Threads
        PROVE  /\ Sweeps(th'[u]) => pageState'[th'[u].page] = "sweeping"
               /\ th'[u].pc = "doSweep" => label[th'[u].page] = "run"
    <3>1. CASE u = t
      BY <3>1, <1>2, <1>4, <1>5
    <3>2. CASE u # t
      BY <3>2, <1>1, <1>2, <1>5, PageOf DEF HInv, SweepingInv
    <3> QED
      BY <3>1, <3>2
  <2>2. \A u, v \in Threads :
          Sweeps(th'[u]) /\ Sweeps(th'[v]) /\ th'[u].page = th'[v].page => u = v
    BY <1>2, <1>10 DEF HInv, SweepingInv
  <2> QED
    BY <2>1, <2>2, <1>4, <1>9 DEF SweepingInv, gcVars
<1>17. ReturnInv'
  <2>1. \A u \in Threads : th'[u].pc \in CallRets \cup {"freeRun"} =>
          th[u].pc \in CallRets \cup {"freeRun"} /\ th'[u].page = th[u].page
    BY <1>2, <1>7
  <2> QED
    BY <2>1, <1>6, ReturnKept DEF HInv
<1>18. NonFullInv'
  BY <1>2, <1>8, <1>9, <1>11, <1>12 DEF HInv, NonFullInv
<1>19. HolderInv'
  <2>1. ASSUME NEW u \in Threads
        PROVE  /\ Holds(th'[u]) => label[th'[u].page] # "free" /\ ~isLocal[th'[u].page]
               /\ Removes(th'[u]) /\ label[th'[u].page] = "run" =>
                    freeList[th'[u].page] = Slots
    <3>1. CASE u = t
      BY <3>1, <1>2, <1>4, <1>7, <1>11, <1>12 DEF HInv, HolderInv
    <3>2. CASE u # t
      BY <3>2, <1>2 DEF HInv, HolderInv
    <3> QED
      BY <3>1, <3>2
  <2>2. \A u \in Threads : Fetched(th'[u]) =>
          label[th'[u].page] = "run" /\ freeList[th'[u].page] # {}
    BY <1>8 DEF HInv, HolderInv
  <2>3. \A u, v \in Threads :
          Holds(th'[u]) /\ Holds(th'[v]) /\ th'[u].page = th'[v].page => u = v
    <3>1. \A u \in Threads \ {t} : Holds(th'[u]) /\ th'[u].page = p => ~Holds(r)
      BY <1>2, <1>11, <1>12 DEF HInv, HolderInv
    <3> QED
      BY <3>1, <1>2 DEF HInv, HolderInv
  <2> QED
    BY <2>1, <2>2, <2>3, <1>9 DEF HolderInv
<1>20. LoneInv'
  <2>1. \A u \in Threads : th[u].pc = "doSweep" => th'[u] = th[u]
    BY <1>2, <1>7
  <2> QED
    BY <2>1, <1>8, <1>9, <1>11 DEF HInv, LoneInv
<1>21. FreshInv'
  BY <1>2, <1>7, FreshKept DEF HInv
<1>22. FullInv'
  <2>1. ASSUME freeList[p] = {}, label[p] = "run"
        PROVE  p \notin nonFullRuns /\ \A u \in Threads : ~(Holds(th[u]) /\ th[u].page = p)
    BY <2>1, <1>10 DEF HInv, HolderInv, NonFullInv, Holds
  <2>2. ASSUME NEW u \in Threads, th'[u].pc = "doSweep"
        PROVE  /\ th'[u].freed \/ ~th'[u].full => freeList[th'[u].page] # {}
               /\ ~th'[u].freed /\ th'[u].full => freeList[th'[u].page] = {}
               /\ th'[u].full /\ ~isLocal[th'[u].page] =>
                    /\ th'[u].page \notin nonFullRuns
                    /\ \A v \in Threads : ~(Holds(th[v]) /\ th[v].page = th'[u].page)
    <3>1. CASE u = t
      BY <3>1, <2>1, <2>2, <1>2, <1>4
    <3>2. CASE u # t
      BY <3>2, <2>2, <1>2 DEF HInv, FullInv
    <3> QED
      BY <3>1, <3>2
  <2>3. \A u, v \in Threads : th'[u].pc = "doSweep" /\ th'[u].page = th'[v].page =>
           (Holds(th'[v]) => Holds(th[v]))
    <3>1. \A u \in Threads : th'[u].pc = "doSweep" => label[th'[u].page] = "run"
      BY <1>9, <1>16 DEF SweepingInv
    <3> QED
      BY <3>1, <1>2, <1>11
  <2> QED
    BY <2>2, <2>3, <1>8, <1>9 DEF FullInv
<1>23. MarkInv' /\ DeadInv'
  BY <1>1, <1>6, <1>8, <1>9, MutatorIsThread, MarkKept, DeadKept DEF HInv
<1>24. SweptInv' /\ LargeInv'
  <2>1. ASSUME NEW o \in objects, o[1] = p, label[p] = "large"
        PROVE  /\ o = <<p, 1>> /\ (o \in marked <=> InUse(o))
               /\ t \in Mutators => o \in marked
    <3>1. o = <<p, 1>>
      BY <2>1, <1>1, ObjectsHavePages DEF HInv, SpaceInv
    <3>2. o \in marked <=> InUse(o)
      BY <2>1, <1>4 DEF HInv, MarkInv
    <3>3. ASSUME t \in Mutators
          PROVE  InUse(o)
      <4>1. In(th[t], "freeLarge") /\ Frees(th[t])
        BY <3>3, <2>1, <1>3, SweptFor DEF Frees
      <4>2. <<p, th[t].slot>> \in objects /\ Freeing(t, <<p, th[t].slot>>)
        BY <4>1, <3>3, FreedThere
      <4>3. th[t].slot = 1
        BY <4>2, <2>1 DEF HInv, SpaceInv
      <4> QED
        BY <4>2, <4>3, <3>1, <3>3 DEF InUse
    <3> QED
      BY <3>1, <3>2, <3>3
  <2>2. SweptInv'
    <3>1. ASSUME r.pc = "setSwept"
          PROVE  /\ label[p] = "large" /\ (r.remove => t \in Workers)
                 /\ \A o \in objects : o[1] = p => o \in marked \/ r.remove
      BY <3>1, <2>1, <1>4 DEF Threads
    <3> QED
      BY <3>1, <1>2, <1>9 DEF HInv, SweptInv
  <2>3. LargeInv'
    <3>1. ASSUME Removes(r), NEW o \in objects, o[1] = p
          PROVE  ~InUse(o)
      BY <3>1, <2>1, <1>4, <1>7
    <3> QED
      BY <3>1, <1>2, <1>8, <1>9, MutatorIsThread DEF HInv, LargeInv
  <2> QED
    BY <2>2, <2>3
<1>25. ProgressInv'
  <2>1. \A u \in Threads : th[u].pc # "idle" => th'[u].pc # "idle"
    BY <1>2, <1>7 DEF SweepPcs
  <2> QED
    BY <2>1, <1>2, <1>6, <1>7, MutatorIsThread, ProgressKept DEF HInv, taskVars
<1> QED
  BY <1>13, <1>14, <1>15, <1>16, <1>17, <1>18, <1>19, <1>20, <1>21, <1>22, <1>23,
     <1>24, <1>25 DEF HInv

LEMMA HeapSetSweeping ==
  ASSUME IInv, IInv', HInv, NEW t \in Threads, SetSweeping(t)
  PROVE  HInv'
<1> DEFINE p == th[t].page
<1>1. /\ LocalInv /\ th[t].pc = "label"
      /\ UNCHANGED <<spaceVars, objects, runVars, localVars, globalLock,
                     highestPageIndex, taskVars, gcVars, ops, live>>
  BY DEF IInv, SetSweeping, At
<1>2. th[t].pc \in SweepPcs /\ th[t].pc \in UserPcs
  BY <1>1 DEF UserPcs, SweepPcs
<1>3. p \in Pages /\ th[t] \in Locals
  BY <1>1, <1>2, RetOutside
<1>4. refCount > 0
  BY <1>2, UserCounts
<1>5. CASE /\ pageState[p] = "sweeping" /\ Goto(t, "wait")
           /\ UNCHANGED <<pageState, refCount>>
  <2>1. th' = [th EXCEPT ![t] = [th[t] EXCEPT !.pc = "wait"]]
    BY <1>1, <1>5, GotoPc
  <2>2. "wait" \in UserPcs
    BY DEF UserPcs
  <2> QED
    BY <2>1, <2>2, <1>1, <1>2, <1>4, <1>5, MoveStep
<1>6. CASE /\ pageState[p] \in {"free", "swept"} /\ Goto(t, th[t].ret)
           /\ UNCHANGED pageState
  <2>1. th' = [th EXCEPT ![t] = [th[t] EXCEPT !.pc = th[t].ret]]
    BY <1>1, <1>6, GotoPc
  <2>2. ~Undone(p)
    BY <1>6 DEF Undone
  <2> QED
    BY <2>1, <2>2, <1>1, <1>2, <1>4, <1>6, MoveStep
<1>7. CASE /\ pageState[p] = "run"
           /\ pageState' = [pageState EXCEPT ![p] = "sweeping"]
           /\ th' = [th EXCEPT ![t] = [th[t] EXCEPT !.pc = "doSweep",
                                         !.full = freeList[p] = {}]]
  <2> DEFINE r == [th[t] EXCEPT !.pc = "doSweep", !.full = freeList[p] = {}]
  <2>1. /\ r \in Locals /\ r.pc = "doSweep" /\ r.page = p /\ r.ret = th[t].ret
        /\ r.slot = th[t].slot /\ r.owner = th[t].owner /\ r.freed = th[t].freed
    BY <1>3 DEF Locals, Pcs, SweepPcs
  <2>2. r.full <=> freeList[p] = {}
    BY <1>3 DEF Locals
  <2> HIDE DEF r
  <2>3. th' = [th EXCEPT ![t] = r]
    BY <1>7 DEF r
  <2> QED
    BY <2>1, <2>2, <2>3, <1>1, <1>3, <1>7, HeapTakePage
<1>8. CASE /\ pageState[p] = "large"
           /\ pageState' = [pageState EXCEPT ![p] = "sweeping"]
           /\ th' = [th EXCEPT ![t] = [th[t] EXCEPT !.pc = "setSwept",
                         !.remove = t \in Workers /\ <<p, 1>> \notin marked]]
  <2> DEFINE r == [th[t] EXCEPT !.pc = "setSwept",
                         !.remove = t \in Workers /\ <<p, 1>> \notin marked]
  <2>1. /\ r \in Locals /\ r.pc = "setSwept" /\ r.page = p /\ r.ret = th[t].ret
        /\ r.slot = th[t].slot /\ r.owner = th[t].owner /\ r.freed = th[t].freed
    BY <1>3 DEF Locals, Pcs, SweepPcs
  <2>2. r.remove <=> (t \in Workers /\ <<p, 1>> \notin marked)
    BY <1>3 DEF Locals
  <2> HIDE DEF r
  <2>3. th' = [th EXCEPT ![t] = r]
    BY <1>8 DEF r
  <2> QED
    BY <2>1, <2>2, <2>3, <1>1, <1>3, <1>8, HeapTakePage
<1> QED
  BY <1>5, <1>6, <1>7, <1>8 DEF SetSweeping, Set, IsGarbage

(* DoSweep() frees a dead object.                                          *)
LEMMA HeapSweepSlot ==
  ASSUME IInv, IInv', HInv, NEW t \in Threads, SweepSlot(t)
  PROVE  HInv'
<1> DEFINE p == th[t].page
           r == [th[t] EXCEPT !.freed = TRUE]
           dead == {x \in Slots : <<p, x>> \in objects /\ IsGarbage(<<p, x>>)}
           s == Fetch(dead)
<1>1. LocalInv /\ LocalInv' /\ RunInv /\ TypeOK /\ HeapOK'
  BY NextTypes DEF IInv
<1>2. th[t].pc = "doSweep" /\ th' = [th EXCEPT ![t] = r]
  BY DEF SweepSlot, At, Set
<1>3. /\ th'[t] = r /\ th[t] \in Locals
      /\ \A u \in Threads \ {t} : th'[u] = th[u]
  BY <1>1, <1>2, Alone
<1>4. /\ r.pc = th[t].pc /\ r.ret = th[t].ret /\ r.page = p /\ r.slot = th[t].slot
      /\ r.owner = th[t].owner /\ r.full = th[t].full /\ r.freed
      /\ r.remove = th[t].remove
  BY <1>3 DEF Locals
<1>5. p \in Pages /\ s \in Slots /\ <<p, s>> \in objects /\ <<p, s>> \notin marked
  <2>1. p \in Pages
    BY <1>1, <1>2, PageOf
  <2>2. s \in dead
    BY FetchTakesOne DEF SweepSlot
  <2> QED
    BY <2>1, <2>2 DEF IsGarbage
<1> HIDE DEF r, s
<1>6. /\ objects' = objects \ {<<p, s>>}
      /\ freeList' = [freeList EXCEPT ![p] = @ \cup {s}]
      /\ UNCHANGED <<spaceVars, nonFullRuns, isLocal, localVars, globalLock,
                     ctxVars, taskVars, gcVars, ops, live>>
  BY DEF SweepSlot, s
<1>7. /\ freeList'[p] = freeList[p] \cup {s}
      /\ \A q \in Pages \ {p} : freeList'[q] = freeList[q]
  BY <1>1, <1>5, <1>6 DEF TypeOK
<1>8. Sweeps(th[t]) /\ gcPc = "sweep" /\ Undone(p) /\ label[p] = "run"
  BY <1>2, <1>5 DEF HInv, SweepingInv, Sweeps, Undone
<1>9. SameCall(th[t], r) /\ SameHold(th[t], r) /\ Sweeps(r)
  BY <1>2, <1>4 DEF SameCall, SameHold, In, Allocating, Revoking, Seeks, Frees,
     Fetched, Removes, Holds, Sweeps, SweepPcs, CallRets
<1>10. /\ \A m \in Mutators : SameCall(th[m], th'[m])
       /\ \A u \in Threads : SameHold(th[u], th'[u])
       /\ \A u \in Threads : th'[u].page = th[u].page /\ th'[u].pc = th[u].pc
       /\ \A u \in Threads : Sweeps(th'[u]) <=> Sweeps(th[u])
       /\ \A o : InUse(o)' <=> InUse(o)
       /\ \A q : Undone(q)' <=> Undone(q)
  <2>1. \A m \in Mutators : SameCall(th[m], th'[m])
    BY <1>3, <1>9, SameSelf, MutatorIsThread
  <2>2. \A o : InUse(o)' <=> InUse(o)
    BY <2>1, <1>6, UseKept DEF spaceVars
  <2> QED
    BY <2>1, <2>2, <1>3, <1>4, <1>6, <1>8, <1>9, SameSelf DEF Undone, gcVars, ctxVars
<1>11. ~InUse(<<p, s>>)
  BY <1>5, <1>8 DEF HInv, MarkInv
<1>12. \A u \in Threads : Sweeps(th[u]) /\ th[u].page = p => u = t
  BY <1>8 DEF HInv, SweepingInv
<1>13. UNCHANGED <<label, nonFullRuns, isLocal, localRun, localFree, freeListHeads>>
  BY <1>6 DEF spaceVars, localVars
<1>14. OwnInv' /\ CallInv' /\ LabelInv' /\ OffInv'
  BY <1>6, <1>10, OwnKept, CallKept, LabelKept, OffKept
     DEF HInv, spaceVars, localVars, ctxVars, gcVars
<1>15. SweepingInv'
  BY <1>6, <1>10 DEF HInv, SweepingInv, gcVars, ctxVars, spaceVars
<1>16. ReturnInv'
  BY <1>10, ReturnKept DEF HInv
<1>17. SpaceInv'
  <2>1. \A q \in Pages : label[q] # "run" => freeList'[q] = freeList[q]
    BY <1>7, <1>8
  <2> QED
    BY <2>1, <1>6 DEF HInv, SpaceInv, spaceVars, taskVars
<1>18. SlotInv'
  <2>1. \A q \in Pages : label[q] = "run" => \A x \in Slots :
           \/ <<q, x>> \in objects' \/ x \in freeList'[q]
           \/ \E a \in Owners : /\ localRun[a] = q
                                /\ x \in localFree[a] \cup freeListHeads[a]
    BY <1>6, <1>7 DEF HInv, SlotInv
  <2>2. \A q \in Pages : \A x \in freeList'[q] : <<q, x>> \notin objects'
    BY <1>6, <1>7 DEF HInv, SlotInv
  <2>3. \A a \in Owners : localRun[a] # None =>
          \A x \in localFree[a] \cup freeListHeads[a] :
            <<localRun[a], x>> \notin objects' /\ x \notin freeList'[localRun[a]]
    <3>1. \A a \in Owners : localRun[a] # None => localRun[a] \in Pages
      BY <1>1 DEF TypeOK
    <3> QED
      BY <3>1, <1>5, <1>6, <1>7 DEF HInv, SlotInv
  <2> QED
    BY <2>1, <2>2, <2>3, <1>13 DEF SlotInv
<1>19. NonFullInv'
  <2>1. \A q \in nonFullRuns : q \in Pages
    BY <1>1 DEF TypeOK
  <2> QED
    BY <2>1, <1>7, <1>10, <1>13 DEF HInv, NonFullInv, SameHold
<1>20. HolderInv'
  <2>1. ASSUME NEW u \in Threads
        PROVE  /\ Holds(th'[u]) => label[th'[u].page] # "free" /\ ~isLocal[th'[u].page]
               /\ Fetched(th'[u]) =>
                    label[th'[u].page] = "run" /\ freeList'[th'[u].page] # {}
               /\ Removes(th'[u]) /\ label[th'[u].page] = "run" =>
                    freeList'[th'[u].page] = Slots
    <3>1. Fetched(th[u]) \/ Removes(th[u]) => Holds(th[u])
      BY DEF Holds
    <3>2. Holds(th[u]) => th[u].page \in Pages
      BY <1>1, PageOf
    <3>3. /\ Holds(th[u]) => label[th[u].page] # "free" /\ ~isLocal[th[u].page]
          /\ Fetched(th[u]) => label[th[u].page] = "run" /\ freeList[th[u].page] # {}
          /\ Removes(th[u]) /\ label[th[u].page] = "run" => freeList[th[u].page] = Slots
      BY DEF HInv, HolderInv
    <3>4. \A q \in Pages : /\ freeList[q] # {} => freeList'[q] # {}
                           /\ freeList[q] = Slots => freeList'[q] = Slots
      BY <1>5, <1>7
    <3>5. SameHold(th[u], th'[u]) /\ th'[u].page = th[u].page
      BY <1>10
    <3> QED
      BY <3>1, <3>2, <3>3, <3>4, <3>5 DEF SameHold
  <2> QED
    BY <2>1, <1>10, <1>13 DEF HInv, HolderInv, SameHold
<1>21. LoneInv'
  <2>1. freeList[p] = {} => th[t].full
    BY <1>2 DEF HInv, FullInv
  <2>2. \A u \in Threads : th'[u].full = th[u].full
    BY <1>3, <1>4
  <2>3. ASSUME NEW q \in Pages, label[q] = "run", freeList'[q] # {},
               q \notin nonFullRuns, ~isLocal[q],
               \A u \in Threads : ~(Holds(th'[u]) /\ th'[u].page = q)
        PROVE  \E u \in Threads : th[u].pc = "doSweep" /\ th[u].page = q /\ th[u].full
    <3>1. \A u \in Threads : ~(Holds(th[u]) /\ th[u].page = q)
      BY <2>3, <1>10 DEF SameHold
    <3>2. CASE freeList[q] # {}
      BY <3>1, <3>2, <2>3 DEF HInv, LoneInv
    <3>3. CASE freeList[q] = {}
      BY <3>3, <2>1, <2>3, <1>2, <1>7
    <3> QED
      BY <3>2, <3>3
  <2> QED
    BY <2>2, <2>3, <1>10, <1>13 DEF LoneInv
<1>22. FreshInv'
  BY <1>2, <1>3, <1>4, FreshKept DEF HInv, UserPcs
<1>23. FullInv'
  <2>1. ASSUME NEW u \in Threads, th'[u].pc = "doSweep"
        PROVE  /\ th'[u].freed \/ ~th'[u].full => freeList'[th'[u].page] # {}
               /\ ~th'[u].freed /\ th'[u].full => freeList'[th'[u].page] = {}
               /\ th'[u].full /\ ~isLocal[th'[u].page] =>
                    /\ th'[u].page \notin nonFullRuns
                    /\ \A v \in Threads : ~(Holds(th[v]) /\ th[v].page = th'[u].page)
    <3>1. CASE u = t
      BY <3>1, <2>1, <1>2, <1>3, <1>4, <1>7 DEF HInv, FullInv
    <3>2. CASE u # t
      <4>1. Sweeps(th[u]) /\ th'[u] = th[u] /\ th[u].pc = "doSweep"
        BY <3>2, <2>1, <1>3 DEF Sweeps
      <4>2. th[u].page \in Pages \ {p}
        BY <4>1, <3>2, <1>1, <1>12, PageOf
      <4> QED
        BY <4>1, <4>2, <1>7 DEF HInv, FullInv
    <3> QED
      BY <3>1, <3>2
  <2> QED
    BY <2>1, <1>10, <1>13 DEF FullInv, SameHold
<1>24. FreeInv'
  <2>1. \A m \in Mutators : \A o \in Objs :
           Freeing(m, o) => o \in objects' /\ o \notin live'
    BY <1>6, <1>11 DEF HInv, FreeInv, InUse
  <2> QED
    BY <2>1, <1>10, <1>13, FreeKept DEF HInv
<1>25. MarkInv'
  <2>1. live \subseteq objects'
    BY <1>6, <1>11 DEF HInv, MarkInv, InUse
  <2> QED
    BY <2>1, <1>6, <1>10 DEF HInv, MarkInv, gcVars
<1>26. DeadInv' /\ SweptInv' /\ LargeInv'
  <2>1. objects' \subseteq objects /\ marked' = marked
    BY <1>6 DEF gcVars
  <2>2. \A u \in Threads : th'[u].remove = th[u].remove
    BY <1>3, <1>4
  <2>3. \A u \in Threads : Removes(th'[u]) <=> Removes(th[u])
    BY <1>10 DEF SameHold
  <2> QED
    BY <2>1, <2>2, <2>3, <1>1, <1>10, <1>13, MutatorIsThread, DeadKept, SweptKept,
       LargeKept DEF HInv
<1>27. ProgressInv'
  BY <1>6, <1>10, MutatorIsThread, ProgressKept DEF HInv, taskVars, ctxVars
<1> QED
  BY <1>14, <1>15, <1>16, <1>17, <1>18, <1>19, <1>20, <1>21, <1>22, <1>23, <1>24,
     <1>25, <1>26, <1>27 DEF HInv

(* DoSweep() is done with the run: who holds it now?                       *)
LEMMA HeapDoSweepDone ==
  ASSUME IInv, IInv', HInv, NEW t \in Threads, DoSweepDone(t)
  PROVE  HInv'
<1> DEFINE p == th[t].page
           fl == freeList[p]
           rm == th[t].freed /\ RemoveAfterFree(p, th[t].full, fl)
           r == [th[t] EXCEPT !.pc = "setSwept", !.remove = rm]
<1>1. LocalInv /\ LocalInv' /\ RunInv /\ TypeOK /\ HeapOK'
  BY NextTypes DEF IInv
<1>2. th[t].pc = "doSweep" /\ th' = [th EXCEPT ![t] = r]
  BY DEF DoSweepDone, At, Set
<1>3. /\ th'[t] = r /\ th[t] \in Locals /\ r \in Locals
      /\ \A u \in Threads \ {t} : th'[u] = th[u]
  BY <1>1, <1>2, Alone
<1>4. /\ r.pc = "setSwept" /\ r.ret = th[t].ret /\ r.page = p /\ r.slot = th[t].slot
      /\ r.owner = th[t].owner /\ r.full = th[t].full /\ r.freed = th[t].freed
  BY <1>3 DEF Locals
<1>5. r.remove <=> rm
  BY <1>3 DEF Locals
<1> HIDE DEF r
<1>6. /\ p \in Pages /\ Sweeps(th[t]) /\ gcPc = "sweep" /\ Undone(p) /\ label[p] = "run"
      /\ \A u \in Threads : Sweeps(th[u]) /\ th[u].page = p => u = t
  <2>1. p \in Pages
    BY <1>1, <1>2, PageOf
  <2> QED
    BY <2>1, <1>2 DEF HInv, SweepingInv, Sweeps, Undone
<1>7. UNCHANGED <<spaceVars, objects, freeList, isLocal, localVars,
                  globalLock, ctxVars, taskVars, gcVars, ops, live>>
  BY DEF DoSweepDone
<1>8. \A q \in Pages \ {p} : q \in nonFullRuns' <=> q \in nonFullRuns
  BY DEF DoSweepDone, NonFullAfterFree
<1>9. /\ r.remove => /\ ~isLocal[p] /\ fl = Slots /\ p \notin nonFullRuns'
                     /\ p \in nonFullRuns \/ th[t].full
      /\ p \in nonFullRuns' /\ p \notin nonFullRuns =>
           ~isLocal[p] /\ fl # {} /\ th[t].full
      /\ p \notin nonFullRuns' /\ ~isLocal[p] =>
           \/ r.remove
           \/ p \notin nonFullRuns /\ (~th[t].freed \/ ~th[t].full \/ fl = {})
  BY <1>5 DEF DoSweepDone, NonFullAfterFree, RemoveAfterFree
<1>10. /\ SameCall(th[t], r) /\ (Fetched(r) <=> Fetched(th[t]))
       /\ ~Removes(th[t]) /\ (Removes(r) <=> r.remove) /\ Sweeps(r)
  BY <1>2, <1>4 DEF SameCall, In, Allocating, Revoking, Seeks, Frees,
     Fetched, Removes, Sweeps, SweepPcs, CallRets
<1>11. /\ \A m \in Mutators : SameCall(th[m], th'[m])
       /\ \A u \in Threads : th'[u].page = th[u].page
       /\ \A u \in Threads : Fetched(th'[u]) <=> Fetched(th[u])
       /\ \A u \in Threads : Sweeps(th'[u]) <=> Sweeps(th[u])
       /\ \A u \in Threads : th'[u].pc = "freeRun" <=> th[u].pc = "freeRun"
       /\ \A u \in Threads : th'[u].pc = "doSweep" => th'[u] = th[u] /\ u # t
       /\ \A o : InUse(o)' <=> InUse(o)
       /\ \A q : Undone(q)' <=> Undone(q)
  <2>1. \A m \in Mutators : SameCall(th[m], th'[m])
    BY <1>3, <1>10, SameSelf, MutatorIsThread
  <2>2. \A o : InUse(o)' <=> InUse(o)
    BY <2>1, <1>7, UseKept DEF spaceVars
  <2> QED
    BY <2>1, <2>2, <1>2, <1>3, <1>4, <1>6, <1>7, <1>10 DEF Undone, gcVars, ctxVars
<1>12. /\ \A u \in Threads : Holds(th[u]) => Holds(th'[u])
       /\ \A u \in Threads \ {t} : Holds(th'[u]) <=> Holds(th[u])
       /\ Holds(r) <=> Holds(th[t]) \/ r.remove
  BY <1>3, <1>10 DEF Holds
<1>13. UNCHANGED <<label, freeList, isLocal, localRun, objects, live, marked>>
  BY <1>7 DEF spaceVars, localVars, gcVars
(* What the run had no holder for.                                         *)
<1>14. (p \in nonFullRuns \/ th[t].full) /\ ~isLocal[p] =>
         \A u \in Threads : ~(Holds(th[u]) /\ th[u].page = p)
  BY <1>2 DEF HInv, FullInv, NonFullInv
<1>15. OwnInv' /\ CallInv' /\ LabelInv' /\ OffInv' /\ SpaceInv' /\ SlotInv'
  BY <1>7, <1>11, OwnKept, CallKept, LabelKept, OffKept, SpaceKept, SlotKept
     DEF HInv, spaceVars, localVars, ctxVars, gcVars, taskVars
<1>16. SweepingInv'
  BY <1>7, <1>11 DEF HInv, SweepingInv, gcVars, ctxVars, spaceVars
<1>17. ReturnInv'
  <2>1. \A u \in Threads : th'[u].pc \in CallRets \cup {"freeRun"} =>
          th[u].pc \in CallRets \cup {"freeRun"}
    BY <1>3, <1>4 DEF CallRets
  <2> QED
    BY <2>1, <1>11, ReturnKept DEF HInv
<1>18. NonFullInv'
  <2>1. ASSUME NEW q \in nonFullRuns'
        PROVE  /\ label[q] = "run" /\ freeList[q] # {} /\ ~isLocal[q]
               /\ \A u \in Threads : ~(Holds(th'[u]) /\ th[u].page = q)
    <3>1. q \in Pages
      BY <1>1 DEF HeapOK
    <3>2. CASE q = p
      BY <3>2, <1>3, <1>6, <1>9, <1>12, <1>14 DEF HInv, NonFullInv
    <3>3. CASE q # p
      BY <3>1, <3>3, <1>3, <1>8, <1>12 DEF HInv, NonFullInv
    <3> QED
      BY <3>2, <3>3
  <2> QED
    BY <2>1, <1>11, <1>13 DEF NonFullInv
<1>19. HolderInv'
  <2>1. ASSUME NEW u \in Threads
        PROVE  /\ Holds(th'[u]) => label[th[u].page] # "free" /\ ~isLocal[th[u].page]
               /\ Removes(th'[u]) /\ label[th[u].page] = "run" =>
                    freeList[th[u].page] = Slots
    <3>1. CASE u = t
      BY <3>1, <1>3, <1>6, <1>9, <1>10, <1>12 DEF HInv, HolderInv
    <3>2. CASE u # t
      BY <3>2, <1>3 DEF HInv, HolderInv
    <3> QED
      BY <3>1, <3>2
  <2>2. \A u, v \in Threads :
          Holds(th'[u]) /\ Holds(th'[v]) /\ th[u].page = th[v].page => u = v
    <3>1. \A u \in Threads \ {t} : Holds(th[u]) /\ th[u].page = p => ~Holds(r)
      BY <1>9, <1>12, <1>14 DEF HInv, HolderInv
    <3> QED
      BY <3>1, <1>3, <1>12 DEF HInv, HolderInv
  <2>3. \A u \in Threads : Fetched(th'[u]) =>
          label[th[u].page] = "run" /\ freeList[th[u].page] # {}
    BY <1>11 DEF HInv, HolderInv
  <2> QED
    BY <2>1, <2>2, <2>3, <1>11, <1>13 DEF HolderInv
<1>20. LoneInv'
  <2>1. ASSUME NEW q \in Pages, label[q] = "run", freeList[q] # {},
               q \notin nonFullRuns', ~isLocal[q],
               \A u \in Threads : ~(Holds(th'[u]) /\ th'[u].page = q)
        PROVE  \E u \in Threads : th'[u].pc = "doSweep" /\ th'[u].page = q /\ th'[u].full
    <3>1. \A u \in Threads : ~(Holds(th[u]) /\ th[u].page = q)
      BY <2>1, <1>11, <1>12
    <3>2. q = p => ~r.remove
      BY <2>1, <1>3, <1>4, <1>12
    <3>3. q \notin nonFullRuns
      BY <3>2, <2>1, <1>8, <1>9
    <3>4. PICK u \in Threads : th[u].pc = "doSweep" /\ th[u].page = q /\ th[u].full
      BY <3>1, <3>3, <2>1 DEF HInv, LoneInv
    <3>5. u # t
      <4>1. ASSUME u = t
            PROVE  FALSE
        BY <4>1, <3>2, <3>4, <2>1, <1>2, <1>9 DEF HInv, FullInv
      <4> QED
        BY <4>1
    <3> QED
      BY <3>4, <3>5, <1>3
  <2> QED
    BY <2>1, <1>13 DEF LoneInv
<1>21. FreshInv'
  BY <1>3, <1>4, FreshKept DEF HInv, UserPcs
<1>22. FullInv'
  <2>1. ASSUME NEW u \in Threads, th'[u].pc = "doSweep"
        PROVE  /\ th'[u].freed \/ ~th'[u].full => freeList[th'[u].page] # {}
               /\ ~th'[u].freed /\ th'[u].full => freeList[th'[u].page] = {}
               /\ th'[u].full /\ ~isLocal[th'[u].page] =>
                    /\ th'[u].page \notin nonFullRuns'
                    /\ \A v \in Threads : ~(Holds(th'[v]) /\ th'[v].page = th'[u].page)
    <3>1. th'[u] = th[u] /\ u # t /\ Sweeps(th[u])
      BY <2>1, <1>11 DEF Sweeps
    <3>2. th[u].page \in Pages \ {p}
      BY <3>1, <1>1, <1>6, PageOf
    <3> QED
      BY <3>1, <3>2, <2>1, <1>3, <1>8, <1>11, <1>12 DEF HInv, FullInv
  <2> QED
    BY <2>1, <1>13 DEF FullInv
<1>23. FreeInv'
  BY <1>11, <1>13, FreeKept DEF HInv, FreeInv
<1>24. MarkInv' /\ DeadInv'
  BY <1>1, <1>11, <1>13, MutatorIsThread, MarkKept, DeadKept DEF HInv
<1>25. SweptInv'
  <2>1. \A o \in objects : o[1] = p => o \in marked
    BY <1>1, ObjectsHavePages DEF DoSweepDone, IsGarbage
  <2>2. r.remove => t \in Workers
    <3> SUFFICES ASSUME r.remove, t \in Mutators
                 PROVE  FALSE
      BY DEF Threads
    <3>1. ~isLocal[p] /\ fl = Slots /\ ~Fetched(th[t])
      BY <1>9, <1>14 DEF Holds
    <3>2. th[t].pc \in SweepPcs
      BY <1>2 DEF SweepPcs
    <3>3. Frees(th[t])
      BY <3>1, <3>2, SweptFor DEF Frees
    <3>4. <<p, th[t].slot>> \in objects /\ th[t].slot \in Slots
      BY <3>3, FreedThere
    <3> QED
      BY <3>1, <3>4, <1>6 DEF HInv, SlotInv
  <2> QED
    BY <2>1, <2>2, <1>3, <1>4, <1>13 DEF HInv, SweptInv
<1>26. LargeInv'
  BY <1>3, <1>4, <1>6, <1>11, <1>13, MutatorIsThread DEF HInv, LargeInv
<1>27. ProgressInv'
  <2>1. \A u \in Threads : /\ th[u].pc # "idle" => th'[u].pc # "idle"
                           /\ th[u].pc \in SweepPcs => th'[u].pc \in SweepPcs
    BY <1>3, <1>4 DEF SweepPcs
  <2> QED
    BY <2>1, <1>7, <1>11, MutatorIsThread, ProgressKept DEF HInv, taskVars, ctxVars
<1> QED
  BY <1>15, <1>16, <1>17, <1>18, <1>19, <1>20, <1>21, <1>22, <1>23, <1>24, <1>25,
     <1>26, <1>27 DEF HInv

(* SetSwept(), and the threads that wait wake up.                          *)
LEMMA HeapSetSwept ==
  ASSUME IInv, IInv', HInv, NEW t \in Threads, SetSwept(t)
  PROVE  HInv'
<1> DEFINE p == th[t].page
           l == IF t \in Workers /\ th[t].remove THEN "freeRun" ELSE th[t].ret
           r == [th[t] EXCEPT !.pc = l]
<1>1. LocalInv /\ LocalInv' /\ RunInv /\ TypeOK /\ HeapOK'
  BY NextTypes DEF IInv
<1>2. th[t].pc = "setSwept" /\ th[t].pc \in SweepPcs
  BY DEF SetSwept, At, SweepPcs
<1>3. p \in Pages /\ th[t] \in Locals /\ th[t].ret \in CallRets \cup {"next"}
  BY <1>1, <1>2, RetOutside
<1>4. /\ r.pc = l /\ r.ret = th[t].ret /\ r.page = p /\ r.slot = th[t].slot
      /\ r.owner = th[t].owner /\ r.full = th[t].full /\ r.freed = th[t].freed
      /\ r.remove = th[t].remove
  BY <1>3 DEF Locals
<1>5. /\ Sweeps(th[t]) /\ gcPc = "sweep" /\ Undone(p)
      /\ th[t].remove => t \in Workers
      /\ \A u \in Threads : Sweeps(th[u]) /\ th[u].page = p => u = t
  BY <1>2, <1>3 DEF HInv, SweepingInv, SweptInv, Sweeps, Undone
<1>6. pageState' = [pageState EXCEPT ![p] = "swept"]
  <2>1. refCount > 0
    BY <1>5, MapThere
  <2> QED
    BY <2>1 DEF SetSwept
<1>7. /\ pageState'[p] = "swept"
      /\ \A q \in Pages \ {p} : pageState'[q] = pageState[q]
  BY <1>1, <1>3, <1>6 DEF TypeOK
<1>8. th'[t] = r
  BY DEF SetSwept
<1>9. ASSUME NEW u \in Threads \ {t}
      PROVE  \/ th'[u] = th[u]
             \/ /\ th[u].pc = "blocked" /\ th'[u].pc = "wait"
                /\ th'[u].ret = th[u].ret /\ th'[u].page = th[u].page
                /\ th'[u].slot = th[u].slot /\ th'[u].owner = th[u].owner
                /\ th'[u].freed = th[u].freed
  <2>1. th[u] \in Locals
    BY <1>1 DEF LocalInv
  <2> QED
    BY <2>1 DEF SetSwept, Locals
<1> HIDE DEF r
<1>10. UNCHANGED <<spaceVars, objects, runVars, localVars, globalLock,
                   highestPageIndex, refCount, taskVars, gcVars, live>>
  BY DEF SetSwept
<1>11. /\ \A q \in Pages \ {p} : Undone(q)' <=> Undone(q)
       /\ \A q \in Pages : Undone(q)' => Undone(q) /\ q # p
  BY <1>3, <1>7, <1>10 DEF Undone, gcVars
<1>12. ASSUME NEW u \in Threads \ {t}
       PROVE  Same(th[u], th'[u])
  <2>1. CASE th'[u] = th[u]
    BY <2>1, SameSelf
  <2>2. CASE th'[u] # th[u]
    BY <2>2, <1>9 DEF Same, SameCall, SameHold, SameSweep, In, Allocating,
       Revoking, Seeks, Frees, Fetched, Removes, Holds, Sweeps, SweepPcs, CallRets
  <2> QED
    BY <2>1, <2>2
<1>13. /\ SameHold(th[t], r) /\ ~Sweeps(r)
       /\ r.pc \notin SweepPcs /\ r.pc # "idle"
       /\ t \in Mutators => SameCall(th[t], r)
  <2>1. t \in Mutators => t \notin Workers
    BY MutatorIsThread
  <2>2. r.pc \in CallRets \cup {"next", "freeRun"}
    BY <1>3, <1>4
  <2>3. CASE l = "freeRun" /\ t \in Workers /\ th[t].remove
    <3>1. th[t].ret = "next"
      BY <2>3, <1>1, <1>2 DEF LocalInv, LocalOK
    <3> QED
      BY <3>1, <2>1, <2>3, <1>2, <1>4 DEF SameHold, In, Fetched, Removes, Holds,
         Sweeps, SweepPcs
  <2>4. CASE l = th[t].ret /\ ~th[t].remove
    BY <2>1, <2>2, <2>4, <1>2, <1>3, <1>4 DEF SameCall, SameHold, In, Allocating,
       Revoking, Seeks, Frees, Fetched, Removes, Holds, Sweeps, SweepPcs, CallRets
  <2> QED
    BY <2>3, <2>4, <1>5
<1>14. /\ \A m \in Mutators : SameCall(th[m], th'[m])
       /\ \A u \in Threads : SameHold(th[u], th'[u])
       /\ \A o : InUse(o)' <=> InUse(o)
  <2>1. \A m \in Mutators : SameCall(th[m], th'[m])
    BY <1>8, <1>12, <1>13, MutatorIsThread DEF Same
  <2>2. \A o : InUse(o)' <=> InUse(o)
    BY <2>1, <1>10, UseKept DEF spaceVars
  <2> QED
    BY <2>1, <2>2, <1>8, <1>12, <1>13 DEF Same
<1>15. /\ \A u \in Threads : th'[u].page = th[u].page
       /\ \A u \in Threads : Sweeps(th'[u]) => u # t /\ th'[u] = th[u]
       /\ \A u \in Threads : th[u].pc = "doSweep" => th'[u] = th[u]
       /\ \A u \in Threads : th'[u].pc = "doSweep" => th'[u] = th[u]
       /\ \A u \in Threads : th'[u].pc = "setSwept" => th'[u] = th[u]
       /\ \A u \in Threads : th[u].pc = "freeRun" => th'[u] = th[u]
       /\ \A u \in Threads : u # t /\ th[u].pc \in SweepPcs => th'[u].pc \in SweepPcs
       /\ \A u \in Threads : th[u].pc # "idle" => th'[u].pc # "idle"
  BY <1>2, <1>4, <1>8, <1>9, <1>13 DEF Sweeps, SweepPcs
<1>16. OwnInv' /\ CallInv' /\ OffInv' /\ SpaceInv' /\ SlotInv'
  BY <1>10, <1>11, <1>14, OwnKept, CallKept, OffKept, SpaceKept, SlotKept
     DEF HInv, spaceVars, runVars, localVars, taskVars
<1>17. LabelInv'
  <2>1. \A q \in Pages : Undone(q)' =>
          /\ label[q] # "free" /\ q <= highestPageIndex
          /\ pageState'[q] # "sweeping" => label[q] = pageState'[q]
    BY <1>7, <1>11 DEF HInv, LabelInv
  <2> QED
    BY <2>1, <1>5, <1>10 DEF HInv, LabelInv, gcVars, spaceVars
<1>18. SweepingInv'
  <2>1. ASSUME NEW u \in Threads
        PROVE  /\ Sweeps(th'[u]) => pageState'[th'[u].page] = "sweeping"
               /\ th'[u].pc = "doSweep" => label[th'[u].page] = "run"
    <3>1. Sweeps(th'[u]) => /\ th[u].page \in Pages \ {p} /\ Sweeps(th[u])
                            /\ th'[u] = th[u]
      BY <1>1, <1>5, <1>15, PageOf
    <3> QED
      BY <3>1, <1>7, <1>15 DEF HInv, SweepingInv
  <2>2. \A u, v \in Threads :
          Sweeps(th'[u]) /\ Sweeps(th'[v]) /\ th'[u].page = th'[v].page => u = v
    BY <1>15 DEF HInv, SweepingInv
  <2> QED
    BY <2>1, <2>2, <1>5, <1>10 DEF SweepingInv, gcVars, spaceVars
<1>19. ReturnInv'
  <2>1. \A u \in Threads \ {t} : th'[u].pc \in CallRets \cup {"freeRun"} =>
          th[u].pc \in CallRets \cup {"freeRun"}
    BY <1>9 DEF CallRets
  <2> QED
    BY <2>1, <1>11, <1>15, ReturnKept DEF HInv
<1>20. NonFullInv' /\ HolderInv' /\ LoneInv' /\ FullInv'
  BY <1>10, <1>14, <1>15, NonFullKept, HolderKept, LoneKept, FullKept
     DEF HInv, spaceVars, runVars
<1>21. FreshInv'
  <2>1. \A u \in Threads : th'[u].pc \in UserPcs \cup {"tryInc"} =>
          th[u].pc \in UserPcs \cup {"tryInc"} /\ th'[u].freed = th[u].freed
    BY <1>8, <1>9, <1>13 DEF UserPcs, SweepPcs
  <2> QED
    BY <2>1 DEF HInv, FreshInv
<1>22. FreeInv' /\ MarkInv'
  BY <1>1, <1>10, <1>11, <1>14, FreeKept, MarkKept
     DEF HInv, FreeInv, spaceVars, gcVars
<1>23. DeadInv'
  <2> SUFFICES ASSUME NEW o \in objects
               PROVE  \/ Undone(o[1])' \/ InUse(o)
                      \/ \E w \in Workers : th'[w].pc = "freeRun" /\ th'[w].page = o[1]
    BY <1>10, <1>14 DEF DeadInv
  <2>1. CASE o[1] = p
    <3>1. o \in marked => InUse(o)
      BY <2>1, <1>5 DEF HInv, MarkInv
    <3>2. o \notin marked => t \in Workers /\ th[t].remove
      BY <2>1, <1>2, <1>5 DEF HInv, SweptInv
    <3>3. t \in Workers /\ th[t].remove => th'[t].pc = "freeRun" /\ th'[t].page = p
      BY <1>4, <1>8
    <3> QED
      BY <3>1, <3>2, <3>3, <2>1
  <2>2. CASE o[1] # p
    <3>1. o[1] \in Pages \ {p}
      BY <2>2, <1>1, ObjectsHavePages
    <3> QED
      BY <3>1, <1>11, <1>15, MutatorIsThread DEF HInv, DeadInv
  <2> QED
    BY <2>1, <2>2
<1>24. SweptInv' /\ LargeInv'
  <2>1. \A u \in Threads : Removes(th'[u]) => Removes(th[u])
    BY <1>14 DEF SameHold
  <2> QED
    BY <2>1, <1>10, <1>14, <1>15, MutatorIsThread, SweptKept, LargeKept
       DEF HInv, spaceVars, gcVars
<1>25. ProgressInv'
  <2>1. \A w \in Workers :
           /\ th[w].pc # "idle" => th'[w].pc # "idle"
           /\ \A q \in Pages : th[w].pc \in SweepPcs /\ th[w].page = q /\ Undone(q)' =>
                th'[w].pc \in SweepPcs /\ th'[w].page = q
    BY <1>11, <1>15, MutatorIsThread
  <2> QED
    BY <2>1, <1>10, <1>11, ProgressKept DEF HInv, taskVars
<1> QED
  BY <1>16, <1>17, <1>18, <1>19, <1>20, <1>21, <1>22, <1>23, <1>24, <1>25 DEF HInv

(* A run or a large object that a thread frees is used by nobody else.     *)
LEMMA FreedAlone ==
  ASSUME IInv, HInv, NEW t \in Threads, th[t].pc = "freeRun", NEW p \in Pages,
         p = th[t].page
  PROVE  /\ ~Undone(p) /\ label[p] # "free" /\ ~isLocal[p] /\ p \notin nonFullRuns
         /\ \A u \in Threads \ {t} : ~(Holds(th[u]) /\ th[u].page = p)
         /\ \A u \in Threads : ~(Sweeps(th[u]) /\ th[u].page = p)
         /\ \A m \in Mutators : ~(Frees(th[m]) /\ th[m].page = p)
         /\ \A o \in live : o[1] # p
<1>1. LocalInv /\ TypeOK /\ Removes(th[t]) /\ Holds(th[t])
  BY DEF IInv, Removes, Holds
<1>2. ~Undone(p) /\ label[p] # "free" /\ ~isLocal[p] /\ p \notin nonFullRuns
  BY <1>1 DEF HInv, ReturnInv, HolderInv, NonFullInv
<1>3. \A u \in Threads \ {t} : ~(Holds(th[u]) /\ th[u].page = p)
  BY <1>1 DEF HInv, HolderInv
<1>4. \A u \in Threads : ~(Sweeps(th[u]) /\ th[u].page = p)
  BY <1>2 DEF HInv, SweepingInv, Undone
<1>5. label[p] = "run" \/ label[p] = "large"
  BY <1>1, <1>2 DEF TypeOK
<1>6. CASE label[p] = "run"
  <2>1. freeList[p] = Slots
    BY <1>1, <1>6 DEF HInv, HolderInv
  <2>2. \A o \in objects : o[1] # p
    BY <2>1, <1>1, ObjectsHavePages DEF HInv, SlotInv
  <2>3. \A m \in Mutators : ~(Frees(th[m]) /\ th[m].page = p)
    BY <2>2, FreedThere
  <2>4. \A o \in live : o[1] # p
    BY <2>2 DEF HInv, MarkInv
  <2> QED
    BY <2>3, <2>4, <1>2, <1>3, <1>4
<1>7. CASE label[p] = "large"
  <2>1. ASSUME NEW m \in Mutators, Frees(th[m]), th[m].page = p
        PROVE  /\ <<p, 1>> \in objects /\ Freeing(m, <<p, 1>>)
    <3>1. <<p, th[m].slot>> \in objects /\ Freeing(m, <<p, th[m].slot>>)
      BY <2>1, FreedThere
    <3>2. th[m].slot = 1
      BY <3>1, <1>7 DEF HInv, SpaceInv
    <3> QED
      BY <3>1, <3>2
  <2>2. ~Frees(th[t])
    BY DEF Frees, In, SweepPcs
  <2>3. CASE t \in Workers
    <3>1. \A o \in objects : o[1] = p => ~InUse(o)
      BY <2>3, <1>1, <1>7 DEF HInv, LargeInv
    <3>2. \A m \in Mutators : ~(Frees(th[m]) /\ th[m].page = p)
      BY <3>1, <2>1 DEF InUse
    <3>3. \A o \in live : o[1] # p
      BY <3>1 DEF HInv, MarkInv, InUse
    <3> QED
      BY <3>2, <3>3, <1>2, <1>3, <1>4
  <2>4. CASE t \in Mutators
    <3>1. Freeing(t, <<p, 1>>) /\ <<p, 1>> \in Objs
      <4>1. th[t].slot = 1
        BY <2>4, <1>7 DEF HInv, FreeInv
      <4> QED
        BY <4>1, <1>7, SlotExists DEF Freeing, Objs
    <3>2. \A m \in Mutators : ~(Frees(th[m]) /\ th[m].page = p)
      BY <3>1, <2>1, <2>2, <2>4 DEF HInv, FreeInv
    <3>3. \A o \in live : o[1] # p
      <4>1. \A o \in live : o[1] = p => o = <<p, 1>>
        BY <1>1, <1>7, ObjectsHavePages DEF HInv, MarkInv, SpaceInv
      <4> QED
        BY <4>1, <3>1, <2>4 DEF HInv, FreeInv
    <3> QED
      BY <3>2, <3>3, <1>2, <1>3, <1>4
  <2> QED
    BY <2>3, <2>4 DEF Threads
<1> QED
  BY <1>5, <1>6, <1>7

LEMMA HeapFreeRun ==
  ASSUME IInv, IInv', HInv, NEW t \in Threads, FreeRun(t)
  PROVE  HInv'
<1> DEFINE p == th[t].page
           r == [Rest EXCEPT !.pc = th[t].ret]
<1>1. LocalInv /\ LocalInv' /\ RunInv /\ TypeOK /\ HeapOK'
  BY NextTypes DEF IInv
<1>2. th[t].pc = "freeRun" /\ th' = [th EXCEPT ![t] = r]
  BY DEF FreeRun, At, Set
<1>3. /\ th'[t] = r /\ th[t] \in Locals
      /\ \A u \in Threads \ {t} : th'[u] = th[u]
  BY <1>1, <1>2, Alone
<1>4. /\ p \in Pages /\ r.pc \in {"idle", "absent", "next"}
      /\ t \in Workers => r.pc = "next"
  <2>1. LocalOK(t, th[t]) /\ r.pc = th[t].ret
    BY <1>1 DEF LocalInv, Rest
  <2> QED
    BY <2>1, <1>2 DEF LocalOK, Threads
<1> HIDE DEF r
<1>5. /\ label' = [label EXCEPT ![p] = "free"]
      /\ freeList' = [freeList EXCEPT ![p] = {}]
      /\ objects' = {o \in objects : o[1] # p}
      /\ UNCHANGED <<spaceEnd, nonFullRuns, isLocal, localVars, globalLock,
                     ctxVars, tasks, cursor, gcVars, live>>
  BY DEF FreeRun
<1>6. /\ label'[p] = "free" /\ freeList'[p] = {}
      /\ \A q \in Pages \ {p} : label'[q] = label[q] /\ freeList'[q] = freeList[q]
  BY <1>1, <1>4, <1>5 DEF TypeOK
<1>7. /\ ~Undone(p) /\ label[p] # "free" /\ ~isLocal[p] /\ p \notin nonFullRuns
      /\ \A u \in Threads \ {t} : ~(Holds(th[u]) /\ th[u].page = p)
      /\ \A u \in Threads : ~(Sweeps(th[u]) /\ th[u].page = p)
      /\ \A m \in Mutators : ~(Frees(th[m]) /\ th[m].page = p)
      /\ \A o \in live : o[1] # p
  BY <1>2, <1>4, FreedAlone
<1>8. Idle(r) /\ r.pc \notin UserPcs \cup {"tryInc"} /\ r.pc \notin SweepPcs
  BY <1>4, IdleRoles DEF UserPcs, SweepPcs
<1>9. UNCHANGED <<gcPc, pageState, sweepRunning, marked, localRun, localFree,
                  freeListHeads, isLocal, highestPageIndex, refCount, useLocal>>
      /\ \A q : Undone(q)' <=> Undone(q)
  BY <1>5 DEF gcVars, ctxVars, localVars, Undone
<1>10. \A a \in Owners : localRun[a] # p
  BY <1>4, <1>7 DEF HInv, OwnInv
<1>11. \A a \in Owners : localRun[a] # None => localRun[a] \in Pages
  BY <1>1 DEF TypeOK
(* The others free what they freed.                                        *)
<1>12. /\ \A m \in Mutators \ {t} : \A o : Freeing(m, o)' <=> Freeing(m, o)
       /\ \A m \in Mutators \ {t} : \A o : Freeing(m, o) => o[1] # p
       /\ \A o : ~Freeing(t, o)'
       /\ \A o : Freeing(t, o) => o[1] = p
  <2>1. ASSUME NEW m \in Mutators \ {t}
        PROVE  /\ th'[m] = th[m] /\ th[m].page \in Pages \cup {None}
               /\ Frees(th[m]) \/ th[m].pc = "freeRun" => th[m].page \in Pages \ {p}
    <3>1. m \in Threads
      BY MutatorIsThread
    <3>2. th[m].pc = "freeRun" => Holds(th[m])
      BY DEF Holds, Removes
    <3> QED
      BY <3>1, <3>2, <1>1, <1>3, <1>7, PageOf
  <2>2. ASSUME NEW m \in Mutators \ {t}, NEW o
        PROVE  (Freeing(m, o)' <=> Freeing(m, o)) /\ (Freeing(m, o) => o[1] # p)
    BY <2>1, <1>6 DEF Freeing
  <2>3. \A o : ~Freeing(t, o)' /\ (Freeing(t, o) => o[1] = p)
    BY <1>3, <1>8 DEF Freeing, Idle
  <2> QED
    BY <2>2, <2>3
<1>13. \A o \in objects' : InUse(o)' <=> InUse(o)
  BY <1>5, <1>12 DEF InUse
<1>14. OwnInv'
  BY <1>6, <1>9, <1>10, <1>11 DEF HInv, OwnInv
<1>15. CallInv'
  <2>1. \A m \in Mutators : m # t => th'[m] = th[m]
    BY <1>3, MutatorIsThread
  <2> QED
    BY <2>1, <1>3, <1>5, <1>8, <1>9 DEF HInv, CallInv, Idle
<1>16. LabelInv'
  <2>1. \A q \in Pages : Undone(q) => q # p
    BY <1>7
  <2> QED
    BY <2>1, <1>6, <1>9 DEF HInv, LabelInv
<1>17. SweepingInv'
  <2>1. \A u \in Threads : Sweeps(th'[u]) \/ th'[u].pc = "doSweep" =>
          u # t /\ th'[u] = th[u] /\ Sweeps(th[u]) /\ th[u].page \in Pages \ {p}
    <3>1. \A u \in Threads : th'[u].pc = "doSweep" => Sweeps(th'[u])
      BY DEF Sweeps
    <3> QED
      BY <3>1, <1>1, <1>3, <1>7, <1>8, PageOf DEF Idle
  <2> QED
    BY <2>1, <1>6, <1>9 DEF HInv, SweepingInv
<1>18. ReturnInv' /\ OffInv' /\ FreshInv'
  <2>1. \A u \in Threads : th'[u].pc \in CallRets \cup {"freeRun"} => th'[u] = th[u]
    BY <1>3, <1>8 DEF Idle
  <2> QED
    BY <2>1, <1>3, <1>8, <1>9, ReturnKept, OffKept, FreshKept DEF HInv
<1>19. SpaceInv'
  <2>1. p <= spaceEnd /\ p \notin avail /\ \A w \in Workers : p \notin buffer[w]
    <3>1. p \in Nat /\ spaceEnd \in Nat
      BY <1>1, <1>4 DEF TypeOK, Pages
    <3> QED
      BY <3>1, <1>4, <1>7 DEF HInv, SpaceInv
  <2>2. /\ \A q \in Pages : label'[q] = "free" =>
             freeList'[q] = {} /\ \A o \in objects' : o[1] # q
        /\ \A q \in Pages : label'[q] = "large" =>
             freeList'[q] = {} /\ \A o \in objects' : o[1] = q => o[2] = 1
        /\ \A q \in Pages : q > spaceEnd' => label'[q] = "free"
    BY <1>5, <1>6 DEF HInv, SpaceInv
  <2>3. CASE t \in Workers
    <3>1. /\ avail' = avail /\ buffer' = [buffer EXCEPT ![t] = @ \cup {p}]
          /\ buffer \in [Workers -> SUBSET Pages] /\ avail \in SUBSET Pages
      BY <2>3, <1>1 DEF FreeRun, TypeOK
    <3>2. \A w \in Workers : buffer'[w] = IF w = t THEN buffer[w] \cup {p} ELSE buffer[w]
      BY <3>1, <2>3
    <3>3. \A q \in avail' : label'[q] = "free" /\ q <= spaceEnd'
      BY <3>1, <1>5, <1>6 DEF HInv, SpaceInv
    <3>4. \A w \in Workers : \A q \in buffer'[w] :
            label'[q] = "free" /\ q <= spaceEnd' /\ q \notin avail'
      BY <3>1, <3>2, <2>1, <1>5, <1>6 DEF HInv, SpaceInv
    <3>5. \A v, w \in Workers : v # w => buffer'[v] \cap buffer'[w] = {}
      <4> SUFFICES ASSUME NEW v \in Workers, NEW w \in Workers, v # w,
                          NEW x \in buffer'[v], x \in buffer'[w]
                   PROVE  FALSE
        OBVIOUS
      <4>1. buffer[v] \cap buffer[w] = {}
        BY DEF HInv, SpaceInv
      <4> QED
        BY <4>1, <3>2, <2>1
    <3> QED
      BY <3>3, <3>4, <3>5, <2>2 DEF SpaceInv
  <2>4. CASE t \notin Workers
    <3>1. /\ avail' = avail \cup {p} /\ buffer' = buffer
          /\ buffer \in [Workers -> SUBSET Pages] /\ avail \in SUBSET Pages
      BY <2>4, <1>1 DEF FreeRun, TypeOK
    <3>2. \A q \in avail' : label'[q] = "free" /\ q <= spaceEnd'
      BY <3>1, <2>1, <1>5, <1>6 DEF HInv, SpaceInv
    <3>3. \A w \in Workers : \A q \in buffer'[w] :
            label'[q] = "free" /\ q <= spaceEnd' /\ q \notin avail'
      BY <3>1, <2>1, <1>5, <1>6 DEF HInv, SpaceInv
    <3>4. \A v, w \in Workers : v # w => buffer'[v] \cap buffer'[w] = {}
      BY <3>1 DEF HInv, SpaceInv
    <3> QED
      BY <3>2, <3>3, <3>4, <2>2 DEF SpaceInv
  <2> QED
    BY <2>3, <2>4
<1>20. SlotInv'
  <2>1. \A q \in Pages \ {p} : \A x : <<q, x>> \in objects' <=> <<q, x>> \in objects
    BY <1>5
  <2>2. \A q \in Pages : label'[q] = "run" => \A x \in Slots :
           \/ <<q, x>> \in objects' \/ x \in freeList'[q]
           \/ \E a \in Owners : /\ localRun[a] = q
                                /\ x \in localFree[a] \cup freeListHeads[a]
    BY <2>1, <1>6 DEF HInv, SlotInv
  <2>3. \A q \in Pages : \A x \in freeList'[q] : <<q, x>> \notin objects'
    BY <2>1, <1>6 DEF HInv, SlotInv
  <2>4. \A a \in Owners : localRun[a] # None =>
          \A x \in localFree[a] \cup freeListHeads[a] :
            <<localRun[a], x>> \notin objects' /\ x \notin freeList'[localRun[a]]
    BY <2>1, <1>6, <1>10, <1>11 DEF HInv, SlotInv
  <2> QED
    BY <2>2, <2>3, <2>4, <1>9 DEF SlotInv
<1>21. \A u \in Threads : Holds(th'[u]) \/ Fetched(th'[u]) \/ Removes(th'[u]) =>
          /\ u # t /\ th'[u] = th[u] /\ Holds(th[u]) /\ th[u].page \in Pages \ {p}
  <2>1. \A u \in Threads : Fetched(th[u]) \/ Removes(th[u]) => Holds(th[u])
    BY DEF Holds
  <2> QED
    BY <2>1, <1>1, <1>3, <1>7, <1>8, PageOf DEF Idle
<1>22. NonFullInv'
  <2>1. \A q \in nonFullRuns : q \in Pages \ {p}
    BY <1>1, <1>7 DEF TypeOK
  <2> QED
    BY <2>1, <1>5, <1>6, <1>21 DEF HInv, NonFullInv
<1>23. HolderInv'
  BY <1>6, <1>9, <1>21 DEF HInv, HolderInv
<1>24. LoneInv'
  <2>1. ASSUME NEW q \in Pages, label'[q] = "run", freeList'[q] # {},
               q \notin nonFullRuns, ~isLocal[q],
               \A u \in Threads : ~(Holds(th'[u]) /\ th'[u].page = q)
        PROVE  \E u \in Threads : th'[u].pc = "doSweep" /\ th'[u].page = q /\ th'[u].full
    <3>1. q # p /\ label[q] = "run" /\ freeList[q] # {}
      BY <2>1, <1>6
    <3>2. \A u \in Threads : ~(Holds(th[u]) /\ th[u].page = q)
      BY <3>1, <2>1, <1>3
    <3>3. PICK u \in Threads : th[u].pc = "doSweep" /\ th[u].page = q /\ th[u].full
      BY <3>1, <3>2, <2>1 DEF HInv, LoneInv
    <3> QED
      BY <3>3, <1>2, <1>3
  <2> QED
    BY <2>1, <1>5 DEF LoneInv
<1>25. FullInv'
  <2>1. \A u \in Threads : th'[u].pc = "doSweep" =>
          th'[u] = th[u] /\ th[u].page \in Pages \ {p}
    <3>1. \A u \in Threads : th[u].pc = "doSweep" => Sweeps(th[u])
      BY DEF Sweeps
    <3> QED
      BY <3>1, <1>1, <1>3, <1>7, <1>8, PageOf DEF Idle
  <2> QED
    BY <2>1, <1>5, <1>6, <1>21 DEF HInv, FullInv
<1>26. FreeInv'
  <2>1. /\ \A m \in Mutators : \A o \in Objs : Freeing(m, o)' =>
             o \in objects' /\ o \notin live'
        /\ \A m, n \in Mutators : \A o \in Objs :
             Freeing(m, o)' /\ Freeing(n, o)' => m = n
    BY <1>5, <1>12 DEF HInv, FreeInv
  <2>2. ASSUME NEW m \in Mutators
        PROVE  /\ In(th'[m], "free") => label'[th'[m].page] = "run"
               /\ In(th'[m], "freeLarge") => label'[th'[m].page] = "large"
               /\ th'[m].pc = "freeRun" /\ label'[th'[m].page] = "large"
                    => th'[m].slot = 1
    <3>1. CASE m = t
      BY <3>1, <1>3, <1>8 DEF Idle
    <3>2. CASE m # t
      <4>1. m \in Threads /\ th'[m] = th[m]
        BY <3>2, <1>3, MutatorIsThread
      <4>2. In(th[m], "free") \/ In(th[m], "freeLarge") \/ th[m].pc = "freeRun" =>
              th[m].page \in Pages \ {p}
        BY <4>1, <3>2, <1>1, <1>7, PageOf DEF Frees, Holds, Removes
      <4> QED
        BY <4>1, <4>2, <1>6 DEF HInv, FreeInv
    <3> QED
      BY <3>1, <3>2
  <2> QED
    BY <2>1, <2>2 DEF FreeInv
<1>27. MarkInv'
  <2>1. live \subseteq objects'
    BY <1>5, <1>7 DEF HInv, MarkInv
  <2>2. objects' \subseteq objects
    BY <1>5
  <2> QED
    BY <2>1, <2>2, <1>5, <1>9, <1>13 DEF HInv, MarkInv
<1>28. DeadInv'
  <2> SUFFICES ASSUME NEW o \in objects'
               PROVE  \/ Undone(o[1])' \/ InUse(o)'
                      \/ \E w \in Workers : th'[w].pc = "freeRun" /\ th'[w].page = o[1]
    BY DEF DeadInv
  <2>1. o \in objects /\ o[1] # p
    BY <1>5
  <2>2. \/ Undone(o[1]) \/ InUse(o)
        \/ \E w \in Workers : th[w].pc = "freeRun" /\ th[w].page = o[1]
    BY <2>1 DEF HInv, DeadInv
  <2> QED
    BY <2>1, <2>2, <1>3, <1>9, <1>13, MutatorIsThread
<1>29. SweptInv'
  <2>1. \A u \in Threads : th'[u].pc = "setSwept" =>
          th'[u] = th[u] /\ th[u].page \in Pages \ {p}
    <3>1. \A u \in Threads : th[u].pc = "setSwept" => Sweeps(th[u])
      BY DEF Sweeps
    <3> QED
      BY <3>1, <1>1, <1>3, <1>7, <1>8, PageOf DEF Idle
  <2> QED
    BY <2>1, <1>5, <1>6, <1>9 DEF HInv, SweptInv
<1>30. LargeInv'
  <2>1. \A w \in Workers : Removes(th'[w]) => th'[w] = th[w] /\ th[w].page \in Pages \ {p}
    BY <1>21, MutatorIsThread
  <2> QED
    BY <2>1, <1>5, <1>6, <1>13 DEF HInv, LargeInv
<1>31. ProgressInv'
  <2>1. \A w \in Workers : /\ th[w].pc # "idle" => th'[w].pc # "idle"
                           /\ th[w].pc \in SweepPcs => th'[w] = th[w]
    BY <1>2, <1>3, <1>4, MutatorIsThread DEF SweepPcs
  <2> QED
    BY <2>1, <1>5, <1>9, ProgressKept DEF HInv
<1> QED
  BY <1>14, <1>15, <1>16, <1>17, <1>18, <1>19, <1>20, <1>22, <1>23, <1>24,
     <1>25, <1>26, <1>27, <1>28, <1>29, <1>30, <1>31 DEF HInv

LEMMA HeapSweep ==
  ASSUME IInv, IInv', HInv, NEW t \in Threads, Sweep(t)
  PROVE  HInv'
BY HeapTryIncRC, HeapSetSweeping, HeapWait, HeapSweepSlot, HeapDoSweepDone,
   HeapSetSwept, HeapFreeRun DEF Sweep

-----------------------------------------------------------------------------
(* Steps of the GC thread.                                                 *)

(* No page is to be swept, before and after.                               *)
LEMMA NoSweepStep ==
  ASSUME IInv, HInv, \A p \in Pages : ~Undone(p) /\ ~Undone(p)', LabelInv',
         UNCHANGED <<spaceVars, objects, runVars, localVars, globalLock,
                     th, taskVars, live>>
  PROVE  HInv'
<1>1. LocalInv /\ TypeOK
  BY DEF IInv
<1>2. \A t \in Threads : ~Sweeps(th[t])
  <2>1. \A t \in Threads : Sweeps(th[t]) => th[t].page \in Pages /\ Undone(th[t].page)
    BY <1>1, PageOf DEF HInv, SweepingInv, Undone
  <2> QED
    BY <2>1
<1>3. \A t \in Threads : th[t].pc \notin {"doSweep", "setSwept"}
  BY <1>2 DEF Sweeps
<1>4. th' = th /\ \A t \in Threads : SameHold(th[t], th'[t]) /\ SameCall(th[t], th'[t])
  BY SameSelf
<1>5. \A m \in Mutators : SameCall(th[m], th'[m])
  BY <1>4, MutatorIsThread
<1>6. \A o : InUse(o)' <=> InUse(o)
  BY <1>5, UseKept DEF spaceVars
<1>7. OwnInv' /\ CallInv' /\ OffInv' /\ SpaceInv' /\ SlotInv'
  BY <1>5, OwnKept, CallKept, OffKept, SpaceKept, SlotKept
     DEF HInv, spaceVars, runVars, localVars, taskVars
<1>8. NonFullInv' /\ HolderInv' /\ LoneInv' /\ FullInv'
  BY <1>4, NonFullKept, HolderKept, LoneKept, FullKept DEF HInv, spaceVars, runVars
<1>9. SweepingInv' /\ ReturnInv' /\ FreshInv'
  BY <1>2, <1>3, <1>4 DEF HInv, SweepingInv, ReturnInv, FreshInv
<1>10. FreeInv'
  BY <1>5, FreeKept DEF HInv, FreeInv, spaceVars
<1>11. MarkInv' /\ DeadInv'
  <2>1. \A o \in objects : o[1] \in Pages
    BY <1>1, ObjectsHavePages
  <2> QED
    BY <2>1, <1>4, <1>6 DEF HInv, MarkInv, DeadInv
<1>12. SweptInv' /\ LargeInv' /\ ProgressInv'
  BY <1>3, <1>4, <1>6 DEF HInv, SweptInv, LargeInv, ProgressInv, spaceVars
<1> QED
  BY <1>7, <1>8, <1>9, <1>10, <1>11, <1>12 DEF HInv

LEMMA HeapStartConcurrentMark ==
  ASSUME IInv, HInv, StartConcurrentMark
  PROVE  HInv'
<1>1. /\ gcPc = "idle" /\ gcPc' = "mark"
      /\ UNCHANGED <<spaceVars, objects, runVars, localVars, globalLock, ctxVars,
                     th, taskVars, sweepRunning, live>>
  BY DEF StartConcurrentMark
<1>2. \A p \in Pages : ~Undone(p) /\ ~Undone(p)'
  BY <1>1 DEF Undone
<1>3. LabelInv'
  BY <1>1, <1>2 DEF HInv, LabelInv, ctxVars
<1> QED
  BY <1>1, <1>2, <1>3, NoSweepStep

(* WaitFinish() has waited for all the tasks, so every page is swept.      *)
LEMMA AllSwept ==
  ASSUME ProgressInv, tasks = {}, \A w \in Workers : At(w, "idle")
  PROVE  \A p \in Pages : ~Undone(p)
BY DEF ProgressInv, WorkLeft, At

LEMMA HeapConcurrentSweepDone ==
  ASSUME IInv, HInv, ConcurrentSweepDone
  PROVE  HInv'
<1>1. /\ gcPc = "sweep" /\ gcPc' = "release" /\ sweepRunning' = FALSE
      /\ UNCHANGED <<spaceVars, objects, runVars, localVars, globalLock, ctxVars,
                     th, taskVars, live>>
  BY DEF ConcurrentSweepDone
<1>2. \A p \in Pages : ~Undone(p)
  BY AllSwept DEF ConcurrentSweepDone, HInv
<1>3. \A p \in Pages : ~Undone(p)'
  BY <1>1 DEF Undone
<1>4. LabelInv'
  <2>1. \A p \in Pages : pageState[p] \in {"free", "swept"}
    BY <1>1, <1>2 DEF Undone, IInv, TypeOK
  <2> QED
    BY <2>1, <1>1, <1>3 DEF LabelInv, ctxVars
<1> QED
  BY <1>1, <1>2, <1>3, <1>4, NoSweepStep

LEMMA HeapRelease ==
  ASSUME IInv, HInv, Release
  PROVE  HInv'
<1>1. /\ gcPc = "release" /\ gcPc' = "idle"
      /\ UNCHANGED <<spaceVars, objects, runVars, localVars, globalLock,
                     pageState, highestPageIndex, th, taskVars, sweepRunning, live>>
  BY DEF Release
<1>2. \A p \in Pages : ~Undone(p) /\ ~Undone(p)'
  BY <1>1 DEF Undone
<1>3. LabelInv'
  BY <1>1, <1>2 DEF HInv, LabelInv
<1> QED
  BY <1>1, <1>2, <1>3, NoSweepStep

(* Arithmetic of the tasks: the page after the last one of a task is the   *)
(* first of the next.                                                      *)
LEMMA Division ==
  ASSUME NEW n \in Nat, NEW k \in Nat \ {0}
  PROVE  /\ n \div k \in Nat
         /\ n = (k * (n \div k)) + (n % k)
OBVIOUS

LEMMA MultipleMod ==
  ASSUME NEW n \in Nat, NEW k \in Nat \ {0}, NEW j \in Nat, n = k * j
  PROVE  n % k = 0
OBVIOUS

LEMMA ModWraps ==
  ASSUME NEW n \in Nat, NEW k \in Nat \ {0}, n % k = k - 1
  PROVE  (n + 1) % k = 0
<1>1. PICK j \in Nat : n = (k * j) + (n % k)
  BY Division
<1>2. n + 1 = k * (j + 1)
  <2>1. k * (j + 1) = (k * j) + k
    OBVIOUS
  <2>2. k * j \in Nat
    OBVIOUS
  <2> QED
    BY <1>1, <2>1, <2>2
<1> DEFINE x == n + 1
           y == j + 1
<1>3. x \in Nat /\ y \in Nat /\ x = k * y
  BY <1>2
<1> HIDE DEF x, y
<1>4. x % k = 0
  BY <1>3, MultipleMod
<1> QED
  BY <1>4 DEF x

(* Every page of the space is in a task.                                   *)
LEMMA TaskOf ==
  ASSUME NEW p \in Pages, NEW end \in Pages, p <= end
  PROVE  \E c \in 1 .. end :
           /\ (c - 1) % PagesPerTask = 0 /\ c <= p
           /\ \A q \in Pages : c <= q /\ q < p =>
                (q - 1) % PagesPerTask # PagesPerTask - 1 /\ q # end
<1> DEFINE Good(c) == \A q \in Pages : c <= q /\ q < p =>
                        (q - 1) % PagesPerTask # PagesPerTask - 1
           S == {c \in 1 .. p : Good(c)}
<1>1. p \in Nat /\ p >= 1 /\ end \in Nat /\ PagesPerTask \in Nat \ {0} /\ NPages \in Nat
  BY ConstantsAssumption DEF Pages
<1>2. p \in S
  BY <1>1 DEF Pages
<1>3. S \in SUBSET Nat /\ S # {}
  BY <1>1, <1>2
<1>4. PICK c \in S : \A n \in S : c <= n
  BY <1>3, LeastExists
<1>5. c \in 1 .. p /\ Good(c) /\ c \in Nat
  BY <1>1, <1>4
<1>6. (c - 1) % PagesPerTask = 0
  <2>1. CASE c = 1
    <3>1. 0 % PagesPerTask = 0
      BY <1>1, MultipleMod
    <3> QED
      BY <3>1, <2>1
  <2>2. CASE c # 1
    <3> DEFINE d == c - 1
    <3>1. d \in 1 .. p /\ d \in Pages /\ ~(c <= d)
      BY <2>2, <1>1, <1>5 DEF Pages
    <3>2. ~Good(d)
      BY <3>1, <1>4
    <3>3. PICK q \in Pages : /\ d <= q /\ q < p
                             /\ (q - 1) % PagesPerTask = PagesPerTask - 1
      BY <3>2
    <3>4. ~(c <= q)
      BY <3>3, <1>5
    <3>5. q = d
      BY <3>1, <3>3, <3>4, <1>5 DEF Pages
    <3>6. d - 1 \in Nat /\ (d - 1) + 1 = c - 1
      BY <3>1, <1>5
    <3>7. ((d - 1) + 1) % PagesPerTask = 0
      <4> DEFINE x == d - 1
      <4>1. x \in Nat /\ x % PagesPerTask = PagesPerTask - 1
        BY <3>3, <3>5, <3>6
      <4> HIDE DEF x
      <4>2. (x + 1) % PagesPerTask = 0
        BY <4>1, <1>1, ModWraps
      <4> QED
        BY <4>2 DEF x
    <3> QED
      BY <3>6, <3>7
  <2> QED
    BY <2>1, <2>2
<1>7. \A q \in Pages : q < p => q # end
  BY <1>1 DEF Pages
<1>8. c \in 1 .. end /\ c <= p
  BY <1>1, <1>5
<1> QED
  BY <1>5, <1>6, <1>7, <1>8

(* In STW2 no thread is inside an operation.                               *)
LEMMA HeapPrepare ==
  ASSUME IInv, IInv', HInv, PrepareConcurrentSweep
  PROVE  HInv'
<1> DEFINE off == {m \in Mutators : useLocal[m] /\ localFree[m] # {}}
<1>1. LocalInv /\ RunInv /\ TypeOK /\ HeapOK' /\ WorkInv
  BY NextTypes DEF IInv
<1>2. /\ gcPc = "mark" /\ gcPc' = "sweep" /\ sweepRunning' = TRUE
      /\ marked' \in SUBSET objects /\ live' = marked'
      /\ pageState' = label /\ highestPageIndex' = spaceEnd
      /\ tasks' = {p \in 1 .. spaceEnd : (p - 1) % PagesPerTask = 0}
      /\ UNCHANGED <<spaceVars, objects, runVars, useLocal, localRun, globalLock,
                     th, cursor, buffer>>
  BY DEF PrepareConcurrentSweep
<1>3. /\ \A a \in Owners : freeListHeads'[a] = IF a \in off THEN localFree[a]
                                               ELSE freeListHeads[a]
      /\ \A a \in Owners : localFree'[a] = IF a \in off THEN freeListHeads[a]
                                           ELSE localFree[a]
  BY DEF PrepareConcurrentSweep
<1>4. \A t \in Threads : Idle(th[t]) /\ th'[t] = th[t]
  <2>1. \A w \in Workers : th[w].pc = "idle"
    BY <1>1, <1>2 DEF WorkInv, At
  <2>2. \A m \in Mutators : th[m].pc \in {"idle", "absent"}
    BY DEF PrepareConcurrentSweep
  <2> QED
    BY <2>1, <2>2, <1>2, IdleRoles DEF Threads
<1>5. /\ \A m \in Mutators : Idle(th'[m])
      /\ \A w \in Workers : Idle(th'[w])
      /\ \A m \in Mutators : \A o : ~Freeing(m, o)'
      /\ \A o : InUse(o)' <=> o \in marked'
  <2>1. (\A m \in Mutators : Idle(th'[m])) /\ \A w \in Workers : Idle(th'[w])
    BY <1>4, MutatorIsThread
  <2>2. \A m \in Mutators : \A o : ~Freeing(m, o)'
    BY <2>1 DEF Freeing, Idle
  <2> QED
    BY <2>1, <2>2, <1>2 DEF InUse
<1>6. UNCHANGED <<label, freeList, nonFullRuns, isLocal, avail, spaceEnd>>
  BY <1>2 DEF spaceVars, runVars
<1>7. \A p \in Pages : Undone(p)' <=> label[p] # "free"
  BY <1>1, <1>2 DEF Undone, TypeOK
<1>8. \A p \in Pages : label[p] # "free" => p <= spaceEnd
  <2>1. spaceEnd \in Nat /\ \A p \in Pages : p \in Nat
    BY <1>1 DEF TypeOK, Pages
  <2> QED
    BY <2>1 DEF HInv, SpaceInv
<1>9. OwnInv'
  <2>1. \A a \in Owners : localFree'[a] = {} \/ freeListHeads'[a] = {}
    BY <1>3 DEF HInv, OwnInv
  <2>2. freeListHeads'[Global] = {}
    BY <1>3, MutatorIsThread DEF HInv, OwnInv
  <2> QED
    BY <2>1, <2>2, <1>2, <1>6 DEF HInv, OwnInv
<1>10. CallInv'
  BY <1>2, <1>5 DEF HInv, CallInv, Idle
<1>11. LabelInv'
  BY <1>2, <1>6, <1>7, <1>8 DEF LabelInv
<1>12. SweepingInv' /\ ReturnInv' /\ FullInv' /\ SweptInv' /\ LargeInv'
  <2>1. \A t \in Threads : /\ ~Sweeps(th'[t]) /\ ~Removes(th'[t])
                           /\ th'[t].pc \notin {"doSweep", "setSwept", "freeRun"}
                           /\ th'[t].pc \notin CallRets
    BY <1>4 DEF Idle
  <2> QED
    BY <2>1, MutatorIsThread DEF SweepingInv, ReturnInv, FullInv, SweptInv, LargeInv
<1>13. OffInv'
  <2>1. ASSUME NEW m \in Mutators, NEW p \in Pages, localFree'[m] # {}, localRun'[m] = p
        PROVE  FALSE
    <3>1. m \in Owners /\ localRun[m] # None
      BY <2>1, <1>2, NoneIsNoPage, MutatorIsThread
    <3>2. useLocal[m]
      BY <3>1 DEF HInv, CallInv
    <3>3. localFree[m] = {} \/ freeListHeads[m] = {}
      BY <3>1 DEF HInv, OwnInv
    <3> QED
      BY <2>1, <3>1, <3>2, <3>3, <1>3
  <2> QED
    BY <2>1 DEF OffInv
<1>14. SpaceInv'
  BY <1>2, <1>6, SpaceKept DEF HInv
<1>15. SlotInv'
  <2>1. \A a \in Owners : localFree'[a] \cup freeListHeads'[a] =
                          localFree[a] \cup freeListHeads[a]
    BY <1>3
  <2> QED
    BY <2>1, <1>2, <1>6 DEF HInv, SlotInv
<1>16. NonFullInv' /\ HolderInv' /\ LoneInv'
  <2>1. \A t \in Threads : SameHold(th[t], th'[t])
    BY <1>4, SameSelf
  <2> QED
    BY <2>1, <1>2, <1>4, <1>6, NonFullKept, HolderKept, LoneKept DEF HInv, Idle
<1>17. FreshInv'
  BY <1>4 DEF HInv, FreshInv
<1>18. FreeInv'
  BY <1>5 DEF FreeInv, Idle
<1>19. MarkInv' /\ DeadInv'
  <2>1. \A o \in objects : o[1] \in Pages /\ label[o[1]] # "free"
    BY <1>1, ObjectsHavePages DEF HInv, SpaceInv
  <2>2. \A o \in objects : Undone(o[1])'
    BY <2>1, <1>7
  <2> QED
    BY <2>2, <1>2, <1>5 DEF MarkInv, DeadInv
<1>20. ProgressInv'
  <2>1. ASSUME NEW p \in Pages, Undone(p)'
        PROVE  WorkLeft(p)'
    <3>1. p <= spaceEnd /\ spaceEnd \in Pages
      BY <2>1, <1>1, <1>7, <1>8 DEF TypeOK
    <3>2. PICK c \in 1 .. spaceEnd :
            /\ (c - 1) % PagesPerTask = 0 /\ c <= p
            /\ \A q \in Pages : c <= q /\ q < p =>
                 (q - 1) % PagesPerTask # PagesPerTask - 1 /\ q # spaceEnd
      BY <3>1, TaskOf
    <3>3. c \in tasks'
      BY <3>2, <1>2
    <3>4. Ahead(c, p)'
      BY <3>2, <1>2 DEF Ahead, TaskEnd
    <3> QED
      BY <3>3, <3>4 DEF WorkLeft
  <2> QED
    BY <2>1 DEF ProgressInv
<1> QED
  BY <1>9, <1>10, <1>11, <1>12, <1>13, <1>14, <1>15, <1>16, <1>17, <1>18, <1>19,
     <1>20 DEF HInv

-----------------------------------------------------------------------------
(* Steps of the workers between two pages.                                 *)

(* A thread that does nothing to any page, before and after.               *)
LEMMA QuietStep ==
  ASSUME IInv, HInv, NEW t \in Threads, Idle(th[t]), Idle(th'[t]),
         \A u \in Threads \ {t} : th'[u] = th[u],
         th'[t].pc \in UserPcs \cup {"tryInc"} => ~th'[t].freed,
         UNCHANGED <<label, objects, runVars, localRun, localFree, freeListHeads,
                     pageState, highestPageIndex, refCount, gcVars, live>>,
         CallInv', SpaceInv', ProgressInv'
  PROVE  HInv'
<1>1. LocalInv /\ TypeOK
  BY DEF IInv
<1>2. /\ \A u \in Threads : SameHold(th[u], th'[u]) /\ SameSweep(th[u], th'[u])
      /\ \A m \in Mutators : SameCall(th[m], th'[m])
  BY IdleSame, AllSame
<1>3. (\A o : InUse(o)' <=> InUse(o)) /\ \A p : Undone(p)' <=> Undone(p)
  BY <1>2, UseKept DEF Undone, gcVars
<1>4. OwnInv' /\ LabelInv' /\ SweepingInv' /\ OffInv' /\ SlotInv' /\ FreshInv'
  BY <1>2, <1>3, OwnKept, LabelKept, SweepingKept, OffKept, SlotKept, FreshKept
     DEF HInv, runVars, gcVars
<1>5. \A u \in Threads :
        /\ th'[u].pc \in CallRets \cup {"doSweep", "setSwept", "freeRun"} =>
             th'[u] = th[u]
        /\ th[u].pc \in CallRets \cup {"doSweep", "setSwept", "freeRun"} =>
             th'[u] = th[u]
        /\ Removes(th'[u]) => th'[u] = th[u]
  BY DEF Idle
<1>6. ReturnInv'
  BY <1>3, <1>5, ReturnKept DEF HInv
<1>7. NonFullInv' /\ HolderInv' /\ LoneInv' /\ FullInv'
  BY <1>2, <1>5, NonFullKept, HolderKept, LoneKept, FullKept DEF HInv, runVars
<1>8. FreeInv' /\ MarkInv' /\ DeadInv'
  BY <1>1, <1>2, <1>3, <1>5, MutatorIsThread, FreeKept, MarkKept, DeadKept
     DEF HInv, FreeInv, gcVars
<1>9. SweptInv' /\ LargeInv'
  BY <1>3, <1>5, MutatorIsThread, SweptKept, LargeKept DEF HInv, gcVars
<1> QED
  BY <1>4, <1>6, <1>7, <1>8, <1>9 DEF HInv

(* A worker does not call the allocator.                                   *)
LEMMA CallOthers ==
  ASSUME HInv, NEW w \in Workers, \A u \in Threads \ {w} : th'[u] = th[u],
         UNCHANGED <<localRun, useLocal, globalLock>>
  PROVE  CallInv'
<1>1. \A m \in Mutators : th'[m] = th[m]
  BY MutatorIsThread
<1> QED
  BY <1>1 DEF HInv, CallInv

(* A worker takes a task.                                                  *)
LEMMA HeapSweepPages ==
  ASSUME IInv, IInv', HInv, NEW w \in Workers, SweepPages(w)
  PROVE  HInv'
<1>1. LocalInv /\ LocalInv' /\ TypeOK /\ w \in Threads
  BY MutatorIsThread DEF IInv
<1>2. PICK p \in tasks : /\ tasks' = tasks \ {p}
                         /\ cursor' = [cursor EXCEPT ![w] = p]
                         /\ Goto(w, "next")
  BY DEF SweepPages
<1> DEFINE r == [th[w] EXCEPT !.pc = "next"]
<1>3. th[w].pc = "idle" /\ th' = [th EXCEPT ![w] = r]
  BY <1>1, <1>2, GotoPc DEF SweepPages, At
<1>4. /\ th'[w] = r /\ th[w] \in Locals /\ \A u \in Threads \ {w} : th'[u] = th[u]
  BY <1>1, <1>3, Alone
<1>5. th'[w].pc = "next"
  BY <1>4 DEF Locals
<1>6. Idle(th[w]) /\ Idle(th'[w]) /\ th'[w].pc \notin UserPcs \cup {"tryInc"}
  <2>1. Idle(th[w])
    BY <1>3, IdleRoles
  <2>2. Idle(th'[w])
    BY <1>5, IdleRoles
  <2> QED
    BY <2>1, <2>2, <1>5 DEF UserPcs
<1>7. /\ UNCHANGED <<spaceVars, objects, runVars, localVars, globalLock, ctxVars,
                     buffer, gcVars, ops, live>>
  BY DEF SweepPages
<1>8. CallInv' /\ SpaceInv'
  BY <1>4, <1>7, CallOthers, SpaceKept DEF HInv, localVars, spaceVars, runVars
<1>9. ProgressInv'
  <2>1. p \in Nat \ {0} /\ cursor'[w] = p /\ \A v \in Workers \ {w} : cursor'[v] = cursor[v]
    BY <1>1, <1>2 DEF TypeOK, Pages
  <2>2. (\A c, q : Ahead(c, q)' <=> Ahead(c, q)) /\ \A q : Undone(q)' <=> Undone(q)
    BY <1>7 DEF Ahead, TaskEnd, Undone, ctxVars, gcVars
  <2>3. ASSUME NEW q \in Pages, Undone(q)
        PROVE  WorkLeft(q)'
    <3>1. WorkLeft(q)
      BY <2>3 DEF HInv, ProgressInv
    <3>2. CASE \E c \in tasks : Ahead(c, q)
      <4>1. PICK c \in tasks : Ahead(c, q)
        BY <3>2
      <4>2. CASE c = p
        BY <4>1, <4>2, <2>1, <2>2, <1>5 DEF WorkLeft
      <4>3. CASE c # p
        BY <4>1, <4>3, <2>2, <1>2 DEF WorkLeft
      <4> QED
        BY <4>2, <4>3
    <3>3. CASE \E v \in Workers :
                 /\ th[v].pc # "idle"
                 /\ \/ cursor[v] # 0 /\ Ahead(cursor[v], q)
                    \/ th[v].pc \in SweepPcs /\ th[v].page = q
      <4>1. PICK v \in Workers :
                 /\ th[v].pc # "idle"
                 /\ \/ cursor[v] # 0 /\ Ahead(cursor[v], q)
                    \/ th[v].pc \in SweepPcs /\ th[v].page = q
        BY <3>3
      <4>2. v # w /\ th'[v] = th[v] /\ cursor'[v] = cursor[v]
        BY <4>1, <2>1, <1>3, <1>4, MutatorIsThread
      <4> QED
        BY <4>1, <4>2, <2>2 DEF WorkLeft
    <3> QED
      BY <3>1, <3>2, <3>3 DEF WorkLeft
  <2> QED
    BY <2>2, <2>3 DEF ProgressInv
<1> QED
  BY <1>1, <1>4, <1>6, <1>7, <1>8, <1>9, QuietStep
     DEF spaceVars, localVars, ctxVars

(* A worker calls Sweep() for its next page.                               *)
LEMMA HeapSweepPage ==
  ASSUME IInv, IInv', HInv, NEW w \in Workers, SweepPage(w)
  PROVE  HInv'
<1> DEFINE c == cursor[w]
           r == CallSweep(Rest, c, "next")
<1>1. LocalInv /\ LocalInv' /\ TypeOK /\ WorkInv /\ w \in Threads
  BY MutatorIsThread DEF IInv
<1>2. /\ th[w].pc = "next" /\ th' = [th EXCEPT ![w] = r] /\ c # 0
      /\ cursor' = [cursor EXCEPT ![w] = IF TaskEnd(c) THEN 0 ELSE c + 1]
      /\ UNCHANGED <<spaceVars, objects, runVars, localVars, globalLock, ctxVars,
                     tasks, buffer, gcVars, ops, live>>
  BY DEF SweepPage, At, Set
<1>3. /\ th'[w] = r /\ \A u \in Threads \ {w} : th'[u] = th[u]
  BY <1>1, <1>2, Alone
<1>4. sweepRunning
  BY <1>1, <1>2 DEF HInv, LabelInv, WorkInv, At
<1>5. r.pc = "tryInc" /\ r.ret = "next" /\ r.page = c /\ r.freed = FALSE
  BY <1>4 DEF CallSweep, Rest
<1>6. Idle(th[w]) /\ Idle(r) /\ r.pc \in SweepPcs
  <2>1. Idle(th[w])
    BY <1>2, IdleRoles
  <2> HIDE DEF r
  <2> QED
    BY <2>1, <1>5 DEF Idle, In, CallRets, SweepPcs, Allocating, Revoking, Seeks,
       Frees, Fetched, Removes, Holds, Sweeps
<1> HIDE DEF r
<1>7. CallInv' /\ SpaceInv'
  BY <1>2, <1>3, CallOthers, SpaceKept DEF HInv, localVars, spaceVars, runVars
<1>8. ProgressInv'
  <2>1. /\ c \in Pages /\ cursor'[w] = IF TaskEnd(c) THEN 0 ELSE c + 1
        /\ \A v \in Workers \ {w} : cursor'[v] = cursor[v]
    BY <1>1, <1>2 DEF TypeOK, Pages
  <2>2. (\A d, q : Ahead(d, q)' <=> Ahead(d, q)) /\ \A q : Undone(q)' <=> Undone(q)
    BY <1>2 DEF Ahead, TaskEnd, Undone, ctxVars, gcVars
  <2>3. ASSUME NEW q \in Pages, Undone(q)
        PROVE  WorkLeft(q)'
    <3>1. WorkLeft(q)
      BY <2>3 DEF HInv, ProgressInv
    <3>2. CASE \E d \in tasks : Ahead(d, q)
      BY <3>2, <2>2, <1>2 DEF WorkLeft
    <3>3. CASE \E v \in Workers :
                 /\ th[v].pc # "idle"
                 /\ \/ cursor[v] # 0 /\ Ahead(cursor[v], q)
                    \/ th[v].pc \in SweepPcs /\ th[v].page = q
      <4>1. PICK v \in Workers :
                 /\ th[v].pc # "idle"
                 /\ \/ cursor[v] # 0 /\ Ahead(cursor[v], q)
                    \/ th[v].pc \in SweepPcs /\ th[v].page = q
        BY <3>3
      <4>2. CASE v # w
        <5>1. th'[v] = th[v] /\ cursor'[v] = cursor[v]
          BY <4>2, <2>1, <1>3, MutatorIsThread
        <5> QED
          BY <4>1, <5>1, <2>2 DEF WorkLeft
      <4>3. CASE v = w /\ q = c
        BY <4>3, <1>3, <1>5, <1>6 DEF WorkLeft
      <4>4. CASE v = w /\ q # c
        <5>1. Ahead(c, q)
          BY <4>1, <4>4, <1>2 DEF SweepPcs
        <5>2. c \in Nat /\ q \in Nat /\ \A x \in Pages : x \in Nat
          BY <2>1 DEF Pages
        <5>3. ~TaskEnd(c) /\ c + 1 <= q
          BY <5>1, <5>2, <4>4, <2>1 DEF Ahead
        <5>4. Ahead(c + 1, q) /\ c + 1 # 0
          BY <5>1, <5>2, <5>3 DEF Ahead
        <5>5. cursor'[w] = c + 1 /\ th'[w].pc # "idle"
          BY <5>3, <2>1, <1>3, <1>5
        <5>6. Ahead(cursor'[w], q)
          BY <5>4, <5>5
        <5>7. \E d : d = cursor'[w] /\ d # 0 /\ Ahead(d, q)'
          BY <5>4, <5>5, <2>2
        <5> QED
          BY <5>5, <5>7 DEF WorkLeft
      <4> QED
        BY <4>2, <4>3, <4>4
    <3> QED
      BY <3>1, <3>2, <3>3 DEF WorkLeft
  <2> QED
    BY <2>2, <2>3 DEF ProgressInv
<1>9. Idle(th'[w]) /\ ~th'[w].freed
  BY <1>3, <1>5, <1>6
<1> QED
  BY <1>1, <1>2, <1>3, <1>6, <1>7, <1>8, <1>9, QuietStep
     DEF spaceVars, localVars, ctxVars

(* A task is done: the pages that it freed may be used again.              *)
LEMMA HeapClearBuffer ==
  ASSUME IInv, IInv', HInv, NEW w \in Workers, ClearBuffer(w)
  PROVE  HInv'
<1>1. LocalInv /\ LocalInv' /\ TypeOK /\ w \in Threads
  BY MutatorIsThread DEF IInv
<1>2. /\ th[w].pc = "next" /\ th' = [th EXCEPT ![w] = Rest] /\ cursor[w] = 0
      /\ avail' = avail \cup buffer[w]
      /\ buffer' = [buffer EXCEPT ![w] = {}]
      /\ cursor' = [cursor EXCEPT ![w] = 1]
      /\ UNCHANGED <<label, spaceEnd, objects, runVars, localVars, globalLock,
                     ctxVars, tasks, gcVars, ops, live>>
  BY DEF ClearBuffer, At, Set
<1>3. /\ th'[w] = Rest /\ \A u \in Threads \ {w} : th'[u] = th[u]
  BY <1>1, <1>2, Alone
<1>4. Idle(th[w]) /\ Idle(th'[w]) /\ th'[w].pc \notin UserPcs \cup {"tryInc"}
  BY <1>2, <1>3, IdleRoles DEF UserPcs, Rest
<1>5. CallInv'
  BY <1>2, <1>3, CallOthers DEF localVars
<1>6. SpaceInv'
  <2>1. \A v \in Workers : buffer'[v] = IF v = w THEN {} ELSE buffer[v]
    BY <1>1, <1>2 DEF TypeOK
  <2>2. \A q \in avail' : label[q] = "free" /\ q <= spaceEnd
    BY <1>2 DEF HInv, SpaceInv
  <2>3. \A v \in Workers : \A q \in buffer'[v] :
          label[q] = "free" /\ q <= spaceEnd /\ q \notin avail'
    <3> SUFFICES ASSUME NEW v \in Workers, NEW q \in buffer'[v]
                 PROVE  label[q] = "free" /\ q <= spaceEnd /\ q \notin avail'
      OBVIOUS
    <3>1. v # w /\ q \in buffer[v]
      BY <2>1
    <3>2. q \notin buffer[w] /\ q \notin avail /\ label[q] = "free" /\ q <= spaceEnd
      BY <3>1 DEF HInv, SpaceInv
    <3> QED
      BY <3>2, <1>2
  <2>4. \A u, v \in Workers : u # v => buffer'[u] \cap buffer'[v] = {}
    BY <2>1 DEF HInv, SpaceInv
  <2> QED
    BY <2>2, <2>3, <2>4, <1>2 DEF HInv, SpaceInv, runVars
<1>7. ProgressInv'
  <2>1. \A v \in Workers \ {w} : cursor'[v] = cursor[v] /\ th'[v] = th[v]
    BY <1>1, <1>2, <1>3, MutatorIsThread DEF TypeOK
  <2>2. (\A d, q : Ahead(d, q)' <=> Ahead(d, q)) /\ \A q : Undone(q)' <=> Undone(q)
    BY <1>2 DEF Ahead, TaskEnd, Undone, ctxVars, gcVars
  <2>3. ASSUME NEW q \in Pages, Undone(q)
        PROVE  WorkLeft(q)'
    <3>1. WorkLeft(q)
      BY <2>3 DEF HInv, ProgressInv
    <3>2. th[w].pc \notin SweepPcs
      BY <1>2 DEF SweepPcs
    <3>3. CASE \E d \in tasks : Ahead(d, q)
      BY <3>3, <2>2, <1>2 DEF WorkLeft
    <3>4. CASE \E v \in Workers :
                 /\ th[v].pc # "idle"
                 /\ \/ cursor[v] # 0 /\ Ahead(cursor[v], q)
                    \/ th[v].pc \in SweepPcs /\ th[v].page = q
      <4>1. PICK v \in Workers :
                 /\ th[v].pc # "idle"
                 /\ \/ cursor[v] # 0 /\ Ahead(cursor[v], q)
                    \/ th[v].pc \in SweepPcs /\ th[v].page = q
        BY <3>4
      <4>2. v # w
        BY <4>1, <3>2, <1>2
      <4> QED
        BY <4>1, <4>2, <2>1, <2>2 DEF WorkLeft
    <3> QED
      BY <3>1, <3>3, <3>4 DEF WorkLeft
  <2> QED
    BY <2>2, <2>3 DEF ProgressInv
<1> QED
  BY <1>1, <1>2, <1>3, <1>4, <1>5, <1>6, <1>7, QuietStep DEF localVars, ctxVars

LEMMA HeapWork ==
  ASSUME IInv, IInv', HInv, NEW w \in Workers, Work(w)
  PROVE  HInv'
BY MutatorIsThread, HeapSweep, HeapSweepPages, HeapSweepPage, HeapClearBuffer DEF Work

LEMMA HeapCollect ==
  ASSUME IInv, IInv', HInv, Collect
  PROVE  HInv'
BY HeapStartConcurrentMark, HeapPrepare, HeapConcurrentSweepDone, HeapRelease DEF Collect

-----------------------------------------------------------------------------
(* Steps of the mutators: what they leave alone.                           *)

(* The pages that are in use keep their labels.                            *)
LabelsStay == \A p \in Pages : label[p] # "free" => label'[p] = label[p]

(* Mutator m takes a step outside Sweep().                                 *)
MutatorMoves(m) ==
  /\ \A u \in Threads \ {m} : th'[u] = th[u]
  /\ ~Sweeps(th[m]) /\ ~Sweeps(th'[m])
  /\ UNCHANGED <<ctxVars, taskVars, gcVars>>
  /\ LabelsStay

LEMMA OthersStay ==
  ASSUME IInv, NEW m \in Mutators, MutatorMoves(m)
  PROVE  /\ m \in Threads /\ LocalInv /\ TypeOK
         /\ \A w \in Workers : w \in Threads /\ th'[w] = th[w]
         /\ \A n \in Mutators \ {m} : th'[n] = th[n]
         /\ \A p : Undone(p)' <=> Undone(p)
         /\ \A u \in Threads : Sweeps(th'[u]) \/ th'[u].pc \in {"doSweep", "setSwept"} =>
              /\ u # m /\ th'[u] = th[u] /\ Sweeps(th[u])
              /\ th[u].page \in Pages
         /\ \A u \in Threads : Sweeps(th[u]) \/ th[u].pc \in {"doSweep", "setSwept"} =>
              th'[u] = th[u]
         /\ \A u \in Threads : Sweeps(th[u]) \/ th[u].pc \in {"doSweep", "setSwept"} =>
              u # m
<1>1. /\ m \in Threads /\ LocalInv /\ TypeOK
      /\ \A w \in Workers : w \in Threads /\ th'[w] = th[w]
      /\ \A n \in Mutators \ {m} : th'[n] = th[n]
  BY MutatorIsThread DEF IInv, MutatorMoves
<1>2. \A p : Undone(p)' <=> Undone(p)
  BY DEF MutatorMoves, Undone, ctxVars, gcVars
<1>3. \A r : r.pc \in {"doSweep", "setSwept"} <=> Sweeps(r)
  BY DEF Sweeps
<1>4. \A u \in Threads : Sweeps(th'[u]) =>
         u # m /\ th'[u] = th[u] /\ Sweeps(th[u]) /\ th[u].page \in Pages
  BY <1>1, PageOf DEF MutatorMoves
<1>5. \A u \in Threads : Sweeps(th[u]) => u # m /\ th'[u] = th[u]
  BY DEF MutatorMoves
<1> QED
  BY <1>1, <1>2, <1>3, <1>4, <1>5

(* The sweep is not disturbed.                                             *)
LEMMA SweepFrame ==
  ASSUME IInv, HInv, NEW m \in Mutators, MutatorMoves(m),
         th'[m].pc \in UserPcs \cup {"tryInc"} => ~th'[m].freed,
         th'[m].pc \in CallRets \cup {"freeRun"} =>
           \A p \in Pages : th'[m].page = p => ~Undone(p)
  PROVE  LabelInv' /\ SweepingInv' /\ ReturnInv' /\ FreshInv' /\ ProgressInv'
<1>1. /\ m \in Threads
      /\ \A u \in Threads \ {m} : th'[u] = th[u]
      /\ \A w \in Workers : w \in Threads /\ th'[w] = th[w]
      /\ \A p : Undone(p)' <=> Undone(p)
      /\ UNCHANGED <<gcPc, sweepRunning, pageState, refCount, highestPageIndex,
                     tasks, cursor>>
  BY OthersStay DEF MutatorMoves, ctxVars, taskVars, gcVars
<1>2. \A p \in Pages : Undone(p) => label'[p] = label[p]
  BY DEF MutatorMoves, LabelsStay, HInv, LabelInv
<1>3. LabelInv'
  BY <1>1, <1>2 DEF HInv, LabelInv
<1>4. SweepingInv'
  <2>1. \A u \in Threads : Sweeps(th'[u]) \/ th'[u].pc = "doSweep" =>
          /\ th'[u] = th[u] /\ th[u].page \in Pages /\ Undone(th[u].page)
          /\ Sweeps(th[u])
    <3>1. \A u \in Threads : Sweeps(th'[u]) \/ th'[u].pc = "doSweep" =>
            th'[u] = th[u] /\ th[u].page \in Pages /\ Sweeps(th[u])
      BY OthersStay
    <3> QED
      BY <3>1 DEF HInv, SweepingInv, Undone
  <2> QED
    BY <2>1, <1>1, <1>2 DEF HInv, SweepingInv
<1>5. ReturnInv' /\ FreshInv'
  <2>1. \A u \in Threads : th'[u].pc \in CallRets \cup {"freeRun"} =>
           \/ th[u].pc \in CallRets \cup {"freeRun"} /\ th'[u].page = th[u].page
           \/ \A p \in Pages : th'[u].page = p => ~Undone(p)'
    BY <1>1
  <2> QED
    BY <2>1, <1>1, ReturnKept, FreshKept DEF HInv
<1>6. ProgressInv'
  BY <1>1, ProgressKept DEF HInv
<1> QED
  BY <1>3, <1>4, <1>5, <1>6

(* What a mutator frees, and what is in use; N is the new object, if any.  *)
LEMMA UseFrame ==
  ASSUME IInv, HInv, NEW m \in Mutators, MutatorMoves(m), NEW N,
         objects' = objects \cup N, live' = live \cup N,
         \A o \in N : o \notin objects /\ ~Undone(o[1]) /\ label[o[1]] # "large",
         \A o : Freeing(m, o)' <=> Freeing(m, o),
         /\ In(th'[m], "free") => label'[th'[m].page] = "run"
         /\ In(th'[m], "freeLarge") => label'[th'[m].page] = "large"
         /\ th'[m].pc = "freeRun" /\ label'[th'[m].page] = "large" => th'[m].slot = 1
  PROVE  FreeInv' /\ MarkInv' /\ DeadInv' /\ SweptInv' /\ LargeInv'
<1>1. /\ m \in Threads /\ LocalInv /\ TypeOK /\ marked' = marked
      /\ \A w \in Workers : w \in Threads /\ th'[w] = th[w]
      /\ \A n \in Mutators \ {m} : th'[n] = th[n] /\ n \in Threads
      /\ \A p : Undone(p)' <=> Undone(p)
      /\ \A p \in Pages : label[p] # "free" => label'[p] = label[p]
  BY OthersStay, MutatorIsThread DEF MutatorMoves, LabelsStay, gcVars
<1>2. \A u \in Threads : Holds(th[u]) => th[u].page \in Pages /\ label'[th[u].page] = label[th[u].page]
  BY <1>1, PageOf DEF HInv, HolderInv
<1>3. ASSUME NEW n \in Mutators, NEW o
      PROVE  Freeing(n, o)' <=> Freeing(n, o)
  <2>1. CASE n = m
    BY <2>1
  <2>2. CASE n # m
    <3>1. th[n].pc = "freeRun" => label'[th[n].page] = label[th[n].page]
      BY <2>2, <1>1, <1>2 DEF Holds, Removes
    <3> QED
      BY <3>1, <2>2, <1>1 DEF Freeing
  <2> QED
    BY <2>1, <2>2
<1>4. \A o : o \notin N => (InUse(o)' <=> InUse(o))
  BY <1>3 DEF InUse
<1>5. \A o : InUse(o) => InUse(o)'
  BY <1>3 DEF InUse
<1>6. FreeInv'
  <2>1. /\ \A n \in Mutators : \A o \in Objs : Freeing(n, o)' =>
             o \in objects' /\ o \notin live'
        /\ \A n, k \in Mutators : \A o \in Objs :
             Freeing(n, o)' /\ Freeing(k, o)' => n = k
    BY <1>3 DEF HInv, FreeInv
  <2>2. ASSUME NEW n \in Mutators \ {m}
        PROVE  /\ In(th'[n], "free") => label'[th'[n].page] = "run"
               /\ In(th'[n], "freeLarge") => label'[th'[n].page] = "large"
               /\ th'[n].pc = "freeRun" /\ label'[th'[n].page] = "large"
                    => th'[n].slot = 1
    <3>1. th'[n] = th[n] /\ n \in Threads
      BY <1>1
    <3>2. In(th[n], "free") \/ In(th[n], "freeLarge") => th[n].page \in Pages
      BY <3>1, <1>1, PageOf DEF Frees
    <3>3. th[n].pc = "freeRun" => Holds(th[n])
      BY DEF Holds, Removes
    <3> QED
      BY <3>1, <3>2, <3>3, <1>1, <1>2 DEF HInv, FreeInv
  <2> QED
    BY <2>1, <2>2 DEF FreeInv
<1>7. MarkInv'
  <2>1. \A o \in objects' : Undone(o[1])' => o \in objects /\ o \notin N /\ Undone(o[1])
    BY <1>1
  <2>2. live' \subseteq objects'
    BY DEF HInv, MarkInv
  <2> QED
    BY <2>1, <2>2, <1>1, <1>4 DEF HInv, MarkInv
<1>8. DeadInv'
  <2> SUFFICES ASSUME NEW o \in objects'
               PROVE  \/ Undone(o[1])' \/ InUse(o)'
                      \/ \E w \in Workers : th'[w].pc = "freeRun" /\ th'[w].page = o[1]
    BY DEF DeadInv
  <2>1. CASE o \in N
    BY <2>1 DEF InUse
  <2>2. CASE o \in objects
    BY <2>2, <1>1, <1>5 DEF HInv, DeadInv
  <2> QED
    BY <2>1, <2>2
<1>9. SweptInv'
  <2>1. ASSUME NEW u \in Threads, th'[u].pc = "setSwept"
        PROVE  /\ th'[u] = th[u] /\ label'[th[u].page] = label[th[u].page]
               /\ \A o \in objects' : o[1] = th[u].page => o \in objects
    <3>1. th'[u] = th[u] /\ Sweeps(th[u]) /\ th[u].page \in Pages
      BY <2>1, OthersStay
    <3>2. Undone(th[u].page)
      BY <3>1 DEF HInv, SweepingInv, Undone
    <3>3. label[th[u].page] # "free"
      BY <3>1, <3>2 DEF HInv, LabelInv
    <3> QED
      BY <3>1, <3>2, <3>3, <1>1
  <2> QED
    BY <2>1, <1>1 DEF HInv, SweptInv
<1>10. LargeInv'
  <2> SUFFICES ASSUME NEW w \in Workers, Removes(th'[w]),
                      label'[th'[w].page] = "large",
                      NEW o \in objects', o[1] = th'[w].page
               PROVE  ~InUse(o)'
    BY DEF LargeInv
  <2>1. w \in Threads /\ th'[w] = th[w] /\ Holds(th[w])
    BY <1>1 DEF Holds
  <2>2. label[th[w].page] = "large"
    BY <2>1, <1>2
  <2>3. o \in objects /\ o \notin N
    BY <2>1, <2>2
  <2>4. ~InUse(o)
    BY <2>1, <2>2, <2>3 DEF HInv, LargeInv
  <2> QED
    BY <2>3, <2>4, <1>4
<1> QED
  BY <1>6, <1>7, <1>8, <1>9, <1>10

LEMMA UseSame ==
  ASSUME IInv, HInv, NEW m \in Mutators, MutatorMoves(m), UNCHANGED <<objects, live>>,
         \A o : Freeing(m, o)' <=> Freeing(m, o),
         /\ In(th'[m], "free") => label'[th'[m].page] = "run"
         /\ In(th'[m], "freeLarge") => label'[th'[m].page] = "large"
         /\ th'[m].pc = "freeRun" /\ label'[th'[m].page] = "large" => th'[m].slot = 1
  PROVE  FreeInv' /\ MarkInv' /\ DeadInv' /\ SweptInv' /\ LargeInv'
<1> DEFINE N == {}
<1>1. objects' = objects \cup N /\ live' = live \cup N
  OBVIOUS
<1>2. \A o \in N : o \notin objects /\ ~Undone(o[1]) /\ label[o[1]] # "large"
  OBVIOUS
<1> HIDE DEF N
<1> QED
  BY <1>1, <1>2, UseFrame

(* Nobody else uses the run of globalMutator without its lock.             *)
LEMMA CallFrame ==
  ASSUME IInv, HInv, NEW m \in Mutators, MutatorMoves(m),
         \A n \in Mutators \ {m} : localRun'[n] = localRun[n] /\ useLocal'[n] = useLocal[n],
         \/ globalLock \in {m, None}
         \/ globalLock' = globalLock /\ localRun'[Global] = localRun[Global],
         /\ localRun'[m] # None => useLocal'[m]
         /\ Allocating(th'[m]) /\ th'[m].owner = m => useLocal'[m]
         /\ Allocating(th'[m]) /\ th'[m].owner = Global => globalLock' = m
         /\ In(th'[m], "local") => th'[m].page = localRun'[th'[m].owner]
         /\ Seeks(th'[m]) => localRun'[th'[m].owner] = None
         /\ Revoking(th'[m]) => th'[m].page = localRun'[m]
  PROVE  CallInv'
<1>1. ASSUME NEW n \in Mutators \ {m}
      PROVE  /\ localRun'[n] # None => useLocal'[n]
             /\ Allocating(th'[n]) /\ th'[n].owner = n => useLocal'[n]
             /\ Allocating(th'[n]) /\ th'[n].owner = Global => globalLock' = n
             /\ In(th'[n], "local") => th'[n].page = localRun'[th'[n].owner]
             /\ Seeks(th'[n]) => localRun'[th'[n].owner] = None
             /\ Revoking(th'[n]) => th'[n].page = localRun'[n]
  <2>1. th'[n] = th[n]
    BY OthersStay
  <2>2. Allocating(th[n]) => th[n].owner \in {n, Global}
    BY MutatorIsThread DEF IInv, LocalInv, LocalOK
  <2>3. In(th[n], "local") \/ Seeks(th[n]) => Allocating(th[n])
    BY DEF In, Seeks, Fetched, Allocating
  <2>4. Allocating(th[n]) /\ th[n].owner = Global =>
          globalLock = n /\ globalLock' = globalLock /\ localRun'[Global] = localRun[Global]
    BY ConstantsAssumption DEF HInv, CallInv
  <2>5. Allocating(th[n]) => localRun'[th[n].owner] = localRun[th[n].owner]
    BY <2>2, <2>4
  <2> QED
    BY <2>1, <2>3, <2>4, <2>5 DEF HInv, CallInv
<1> QED
  BY <1>1 DEF CallInv

(* The holders of the runs stay, and so do the runs.                       *)
LEMMA HoldFrame ==
  ASSUME IInv, HInv, NEW m \in Mutators, MutatorMoves(m),
         UNCHANGED <<runVars, label>>, SameHold(th[m], th'[m])
  PROVE  NonFullInv' /\ HolderInv' /\ LoneInv' /\ FullInv'
<1>1. \A u \in Threads : SameHold(th[u], th'[u])
  BY SameSelf DEF MutatorMoves
<1>2. \A u \in Threads : th[u].pc = "doSweep" \/ th'[u].pc = "doSweep" => th'[u] = th[u]
  BY OthersStay
<1> QED
  BY <1>1, <1>2, NonFullKept, HolderKept, LoneKept, FullKept DEF HInv, runVars

(* Only what is on runs changes.                                           *)
LEMMA SpaceFrame ==
  ASSUME HInv, IInv, UNCHANGED <<label, avail, spaceEnd, buffer>>,
         \A p \in Pages : label[p] # "run" => freeList'[p] = freeList[p],
         \A o \in objects' : o \in objects \/ label[o[1]] = "run"
  PROVE  SpaceInv'
<1>1. /\ \A p \in Pages : label[p] = "free" =>
           freeList'[p] = {} /\ \A o \in objects' : o[1] # p
      /\ \A p \in Pages : label[p] = "large" =>
           freeList'[p] = {} /\ \A o \in objects' : o[1] = p => o[2] = 1
  BY DEF HInv, SpaceInv
<1> QED
  BY <1>1 DEF HInv, SpaceInv

(* No thread sweeps a page that is not to be swept.                        *)
LEMMA NotSwept ==
  ASSUME HInv, NEW p \in Pages, ~Undone(p)
  PROVE  \A u \in Threads :
           /\ ~(Sweeps(th[u]) /\ th[u].page = p)
           /\ ~(th[u].pc = "doSweep" /\ th[u].page = p)
BY DEF HInv, SweepingInv, Undone, Sweeps

(* A mutator calls Sweep() for page p.                                     *)
LEMMA CallsSweep ==
  ASSUME HInv, NEW r \in Locals, NEW p \in Pages, NEW l \in CallRets,
         NEW c, c = CallSweep(r, p, l)
  PROVE  /\ c.page = p /\ c.ret = l /\ c.slot = r.slot /\ c.owner = r.owner
         /\ ~c.freed /\ c.pc \in {"tryInc", l} /\ In(c, l) /\ ~Sweeps(c)
         /\ c.pc # "freeRun" /\ ~Removes(c)
         /\ \A k \in CallRets : In(c, k) <=> k = l
         /\ Allocating(c) <=> l \in {"local", "localise"}
         /\ Revoking(c) <=> l = "revoke"
         /\ Seeks(c) <=> l = "localise"
         /\ Fetched(c) <=> l = "localise"
         /\ Holds(c) <=> l = "localise"
         /\ Frees(c) <=> l \in {"free", "freeLarge"}
         /\ c.pc \in CallRets => ~Undone(p)
<1>1. /\ c.page = p /\ c.ret = l /\ c.slot = r.slot /\ c.owner = r.owner
      /\ c.freed = FALSE /\ c.remove = FALSE
      /\ c.pc = IF sweepRunning THEN "tryInc" ELSE l
  BY DEF CallSweep, Locals
<1>2. ~sweepRunning => ~Undone(p)
  BY DEF HInv, LabelInv, Undone
<1>3. c.pc \in CallRets => ~sweepRunning
  BY <1>1 DEF CallRets
<1>4. c.pc \in {"tryInc", l}
  BY <1>1
<1>5. /\ In(c, l) /\ ~Sweeps(c) /\ c.pc # "freeRun" /\ ~Removes(c)
      /\ \A k \in CallRets : In(c, k) <=> k = l
  BY <1>1, <1>4 DEF In, Sweeps, Removes, CallRets, SweepPcs
<1>6. /\ Allocating(c) <=> l \in {"local", "localise"}
      /\ Revoking(c) <=> l = "revoke"
      /\ Seeks(c) <=> l = "localise"
      /\ Fetched(c) <=> l = "localise"
      /\ Frees(c) <=> l \in {"free", "freeLarge"}
  BY <1>1, <1>4 DEF In, Allocating, Revoking, Seeks, Fetched, Frees, CallRets, SweepPcs
<1>7. Holds(c) <=> l = "localise"
  BY <1>5, <1>6 DEF Holds
<1> QED
  BY <1>1, <1>2, <1>3, <1>4, <1>5, <1>6, <1>7

(* An operation is over, or the mutator is gone.                           *)
LEMMA RestRoles ==
  /\ Idle(Rest) /\ Rest.pc = "idle"
  /\ Rest.pc \notin UserPcs \cup {"tryInc"} /\ Rest.page = None /\ Rest.slot = 1
  /\ Rest \in Locals
  /\ Idle([Rest EXCEPT !.pc = "absent"])
  /\ [Rest EXCEPT !.pc = "absent"].pc = "absent"
  /\ [Rest EXCEPT !.pc = "absent"].pc \notin UserPcs \cup {"tryInc"}
<1>1. Rest.pc = "idle" /\ Rest.page = None /\ Rest.slot = 1
  BY DEF Rest
<1>2. [Rest EXCEPT !.pc = "absent"].pc = "absent"
  BY DEF Rest
<1>3. Idle(Rest) /\ Idle([Rest EXCEPT !.pc = "absent"])
  <2>1. Idle(Rest)
    BY <1>1, IdleRoles
  <2> DEFINE a == [Rest EXCEPT !.pc = "absent"]
  <2>2. a.pc \in {"idle", "absent", "next"}
    BY <1>2
  <2> HIDE DEF a
  <2>3. Idle(a)
    BY <2>2, IdleRoles
  <2> QED
    BY <2>1, <2>3 DEF a
<1>4. Rest \in Locals
  BY RestLocals DEF Pcs
<1> QED
  BY <1>1, <1>2, <1>3, <1>4 DEF UserPcs

(* A thread that is idle frees nothing.                                    *)
LEMMA IdleFrees ==
  ASSUME NEW m
  PROVE  /\ Idle(th[m]) => \A o : ~Freeing(m, o)
         /\ Idle(th'[m]) => \A o : ~Freeing(m, o)'
         /\ Idle(th[m]) => ~Holds(th[m]) /\ ~Sweeps(th[m])
         /\ Idle(th'[m]) => ~Holds(th'[m]) /\ ~Sweeps(th'[m])
BY DEF Idle, Freeing

-----------------------------------------------------------------------------
(* Steps of the mutators: allocation.                                      *)

LEMMA HeapFastNewObj ==
  ASSUME IInv, IInv', HInv, NEW m \in Mutators, FastNewObj(m)
  PROVE  HInv'
<1>1. PICK p : p = localRun[m]
  OBVIOUS
<1>2. PICK s : s = Fetch(localFree[m])
  OBVIOUS
<1>3. /\ th[m].pc = "idle" /\ localFree[m] # {} /\ th' = [th EXCEPT ![m] = Rest]
      /\ objects' = objects \cup {<<p, s>>} /\ live' = live \cup {<<p, s>>}
      /\ Unlock(m)
      /\ localFree' = [localFree EXCEPT ![m] = @ \ {s}]
      /\ UNCHANGED <<spaceVars, runVars, useLocal, localRun, freeListHeads,
                     ctxVars, taskVars, gcVars>>
  BY <1>1, <1>2 DEF FastNewObj, NewObj, At, Set
<1>4. LocalInv /\ LocalInv' /\ RunInv /\ TypeOK /\ m \in Threads /\ m \in Owners
  BY MutatorIsThread DEF IInv
<1>5. th'[m] = Rest /\ \A u \in Threads \ {m} : th'[u] = th[u]
  BY <1>3, <1>4, Alone
<1>6. Idle(th[m]) /\ Idle(th'[m]) /\ th'[m].pc \notin UserPcs \cup {"tryInc"}
  BY <1>3, <1>5, IdleRoles, RestRoles
<1>7. MutatorMoves(m)
  BY <1>3, <1>5, <1>6, IdleFrees DEF MutatorMoves, LabelsStay, spaceVars
<1>8. /\ s \in localFree[m] /\ localFree'[m] = localFree[m] \ {s}
      /\ \A a \in Owners \ {m} : localFree'[a] = localFree[a]
  <2>1. localFree \in [Owners -> SUBSET Slots]
    BY <1>4 DEF TypeOK
  <2> QED
    BY <2>1, <1>2, <1>3, <1>4, FetchTakesOne
<1>9. /\ p \in Pages /\ label[p] = "run" /\ s \in Slots
      /\ <<p, s>> \notin objects /\ s \notin freeList[p] /\ ~Undone(p)
  <2>1. p # None /\ p \in Pages
    BY <1>1, <1>3, <1>4 DEF RunInv, TypeOK
  <2>2. label[p] = "run"
    BY <2>1, <1>1, <1>4 DEF HInv, OwnInv
  <2>3. <<p, s>> \notin objects /\ s \notin freeList[p]
    BY <2>1, <1>1, <1>4, <1>8 DEF HInv, SlotInv
  <2>4. ~Undone(p) /\ s \in Slots
    BY <2>1, <1>1, <1>3, <1>4, <1>8 DEF HInv, OffInv, TypeOK
  <2> QED
    BY <2>1, <2>2, <2>3, <2>4
<1>10. \A a \in Owners : localRun[a] = p => a = m
  BY <1>1, <1>4, <1>9, NoneIsNoPage DEF HInv, OwnInv
<1>11. LabelInv' /\ SweepingInv' /\ ReturnInv' /\ FreshInv' /\ ProgressInv'
  BY <1>6, <1>7, SweepFrame DEF Idle
<1>12. FreeInv' /\ MarkInv' /\ DeadInv' /\ SweptInv' /\ LargeInv'
  <2> DEFINE N == {<<p, s>>}
  <2>1. \A o \in N : o \notin objects /\ ~Undone(o[1]) /\ label[o[1]] # "large"
    BY <1>9
  <2>2. \A o : Freeing(m, o)' <=> Freeing(m, o)
    BY <1>6, IdleFrees
  <2>3. objects' = objects \cup N /\ live' = live \cup N
    BY <1>3
  <2>4. ~In(th'[m], "free") /\ ~In(th'[m], "freeLarge") /\ th'[m].pc # "freeRun"
    BY <1>6 DEF Idle
  <2> HIDE DEF N
  <2> QED
    BY <2>1, <2>2, <2>3, <2>4, <1>7, UseFrame
<1>13. OwnInv'
  <2>1. \A a \in Owners : localFree'[a] = {} \/ freeListHeads[a] = {}
    BY <1>3, <1>4, <1>8 DEF HInv, OwnInv
  <2> QED
    BY <2>1, <1>3 DEF HInv, OwnInv, spaceVars, runVars
<1>14. CallInv'
  <2>1. \/ globalLock \in {m, None}
        \/ globalLock' = globalLock /\ localRun'[Global] = localRun[Global]
    BY <1>3 DEF Unlock
  <2> QED
    BY <2>1, <1>3, <1>6, <1>7, CallFrame DEF HInv, CallInv, Idle
<1>15. OffInv'
  <2>1. \A n \in Mutators : localFree'[n] # {} => localFree[n] # {}
    BY <1>8, MutatorIsThread
  <2>2. \A q : Undone(q)' <=> Undone(q)
    BY <1>7, OthersStay
  <2> QED
    BY <2>1, <2>2, <1>3 DEF HInv, OffInv
<1>16. SpaceInv'
  BY <1>3, <1>9, SpaceFrame DEF spaceVars, runVars, taskVars
<1>17. SlotInv'
  <2>1. UNCHANGED <<label, freeList, localRun, freeListHeads>>
    BY <1>3 DEF spaceVars, runVars
  <2>2. \A q \in Pages : label[q] = "run" => \A x \in Slots :
          \/ <<q, x>> \in objects' \/ x \in freeList[q]
          \/ \E a \in Owners : /\ localRun[a] = q
                               /\ x \in localFree'[a] \cup freeListHeads[a]
    <3> SUFFICES ASSUME NEW q \in Pages, label[q] = "run", NEW x \in Slots,
                        <<q, x>> \notin objects', x \notin freeList[q]
                 PROVE  \E a \in Owners : /\ localRun[a] = q
                                          /\ x \in localFree'[a] \cup freeListHeads[a]
      OBVIOUS
    <3>1. PICK a \in Owners : localRun[a] = q /\ x \in localFree[a] \cup freeListHeads[a]
      BY <1>3 DEF HInv, SlotInv
    <3>2. a = m => x # s
      BY <3>1, <1>1, <1>3
    <3> QED
      BY <3>1, <3>2, <1>4, <1>8
  <2>3. \A q \in Pages : \A x \in freeList[q] : <<q, x>> \notin objects'
    BY <1>3, <1>9 DEF HInv, SlotInv
  <2>4. ASSUME NEW a \in Owners, localRun[a] # None,
               NEW x \in localFree'[a] \cup freeListHeads[a]
        PROVE  <<localRun[a], x>> \notin objects' /\ x \notin freeList[localRun[a]]
    <3>1. x \in localFree[a] \cup freeListHeads[a]
      BY <2>4, <1>4, <1>8
    <3>2. <<localRun[a], x>> \notin objects /\ x \notin freeList[localRun[a]]
      BY <3>1, <2>4 DEF HInv, SlotInv
    <3>3. freeListHeads[m] = {}
      BY <1>3, <1>4 DEF HInv, OwnInv
    <3>4. <<localRun[a], x>> # <<p, s>>
      BY <3>3, <2>4, <1>4, <1>8, <1>10
    <3> QED
      BY <3>2, <3>4, <1>3
  <2> QED
    BY <2>1, <2>2, <2>3, <2>4 DEF SlotInv
<1>18. NonFullInv' /\ HolderInv' /\ LoneInv' /\ FullInv'
  BY <1>3, <1>6, <1>7, IdleSame, HoldFrame DEF Same, spaceVars
<1> QED
  BY <1>11, <1>12, <1>13, <1>14, <1>15, <1>16, <1>17, <1>18 DEF HInv

LEMMA HeapAllocFromRun ==
  ASSUME IInv, IInv', HInv, NEW m \in Mutators, NEW a \in Owners, AllocFromRun(m, a)
  PROVE  HInv'
<1> DEFINE r0 == [Rest EXCEPT !.owner = a]
           r == IF localRun[a] = None THEN [r0 EXCEPT !.pc = "local"]
                ELSE CallSweep(r0, localRun[a], "local")
<1>1. /\ th[m].pc = "idle" /\ th' = [th EXCEPT ![m] = r]
      /\ UNCHANGED <<spaceVars, objects, runVars, localRun, localFree,
                     freeListHeads, ctxVars, taskVars, gcVars, live>>
      /\ \/ /\ a = m /\ useLocal' = [useLocal EXCEPT ![m] = TRUE]
            /\ UNCHANGED globalLock
         \/ /\ a = Global /\ globalLock = None /\ globalLock' = m
            /\ UNCHANGED useLocal
  BY DEF AllocFromRun, At, Set
<1>2. LocalInv /\ LocalInv' /\ RunInv /\ TypeOK /\ m \in Threads /\ m \in Owners /\ m # Global
  BY MutatorIsThread DEF IInv
<1>3. th'[m] = r /\ \A u \in Threads \ {m} : th'[u] = th[u]
  BY <1>1, <1>2, Alone
<1>4. /\ r.owner = a /\ r.page = localRun[a] /\ In(r, "local")
      /\ Allocating(r) /\ ~Revoking(r) /\ ~Seeks(r) /\ ~Holds(r) /\ ~Sweeps(r)
      /\ ~Frees(r) /\ ~In(r, "free") /\ ~In(r, "freeLarge") /\ r.pc # "freeRun"
      /\ r.pc \in UserPcs \cup {"tryInc"} => ~r.freed
      /\ r.pc \in CallRets => \A p \in Pages : r.page = p => ~Undone(p)
      /\ ~Fetched(r) /\ ~Removes(r)
  <2>1. r0 \in Locals /\ r0.owner = a /\ r0.page = None
    BY RestRoles DEF Locals, Rest
  <2>2. CASE localRun[a] = None
    <3> DEFINE l == [r0 EXCEPT !.pc = "local"]
    <3>1. l.pc = "local" /\ l.owner = a /\ l.page = None
      BY <2>1 DEF Locals
    <3>2. r = l
      BY <2>2
    <3> HIDE DEF r, l
    <3> QED
      BY <3>1, <3>2, <2>2, NoneIsNoPage DEF In, Allocating, Revoking, Seeks, Fetched,
         Removes, Holds, Sweeps, Frees, UserPcs, SweepPcs
  <2>3. CASE localRun[a] # None
    <3>1. localRun[a] \in Pages
      BY <2>3, <1>2 DEF TypeOK
    <3>2. r = CallSweep(r0, localRun[a], "local") /\ "local" \in CallRets
      BY <2>3 DEF CallRets
    <3>3. "free" \in CallRets /\ "freeLarge" \in CallRets
      BY DEF CallRets
    <3> HIDE DEF r, r0
    <3> QED
      BY <3>1, <3>2, <3>3, <2>1, CallsSweep DEF Holds
  <2> QED
    BY <2>2, <2>3
<1> HIDE DEF r
<1>5. Idle(th[m])
  BY <1>1, IdleRoles
<1>6. MutatorMoves(m)
  BY <1>1, <1>3, <1>4, <1>5, IdleFrees DEF MutatorMoves, LabelsStay, spaceVars
<1>7. LabelInv' /\ SweepingInv' /\ ReturnInv' /\ FreshInv' /\ ProgressInv'
  BY <1>3, <1>4, <1>6, SweepFrame
<1>8. FreeInv' /\ MarkInv' /\ DeadInv' /\ SweptInv' /\ LargeInv'
  <2>1. \A o : ~Freeing(m, o)' /\ ~Freeing(m, o)
    BY <1>3, <1>4, <1>5, IdleFrees DEF Freeing
  <2> QED
    BY <2>1, <1>1, <1>3, <1>4, <1>6, UseSame
<1>9. OwnInv' /\ SlotInv' /\ SpaceInv'
  BY <1>1, OwnKept, SlotKept, SpaceKept DEF HInv, spaceVars, runVars, taskVars
<1>10. OffInv'
  BY <1>1, <1>6, OthersStay, OffKept DEF HInv
<1>11. CallInv'
  <2>1. useLocal \in [Mutators -> BOOLEAN]
    BY <1>2 DEF TypeOK
  <2>2. /\ \A n \in Mutators \ {m} : useLocal'[n] = useLocal[n]
        /\ a = m => useLocal'[m]
        /\ useLocal[m] => useLocal'[m]
    <3>1. CASE useLocal' = [useLocal EXCEPT ![m] = TRUE]
      BY <3>1, <2>1
    <3>2. CASE a = Global /\ useLocal' = useLocal
      BY <3>2, <1>2
    <3> QED
      BY <3>1, <3>2, <1>1
  <2>3. a \in {m, Global} /\ (a = Global => globalLock' = m)
        /\ (globalLock \in {m, None} \/ globalLock' = globalLock)
    BY <1>1, <1>2
  <2> QED
    BY <2>2, <2>3, <1>1, <1>2, <1>3, <1>4, <1>6, CallFrame DEF HInv, CallInv
<1>12. NonFullInv' /\ HolderInv' /\ LoneInv' /\ FullInv'
  <2>1. SameHold(th[m], th'[m])
    BY <1>3, <1>4, <1>5 DEF SameHold, Idle
  <2> QED
    BY <2>1, <1>1, <1>6, HoldFrame DEF spaceVars
<1> QED
  BY <1>7, <1>8, <1>9, <1>10, <1>11, <1>12 DEF HInv

(* Mutator m takes slot s of run p, and the free slots L of the run become *)
(* the free list of its owner a.                                           *)
LEMMA SlotTaken ==
  ASSUME IInv, HInv, NEW a \in Owners, NEW p \in Pages, NEW L, NEW s \in L,
         label' = label, objects' = objects \cup {<<p, s>>},
         localRun'[a] = p, localRun[a] \in {p, None},
         localFree'[a] = L \ {s}, freeListHeads'[a] = {},
         \A b \in Owners \ {a} :
           /\ localRun[b] # p /\ localRun'[b] = localRun[b]
           /\ localFree'[b] = localFree[b] /\ freeListHeads'[b] = freeListHeads[b],
         \A q \in Pages \ {p} : freeList'[q] = freeList[q],
         \A x : x \in L \/ x \in freeList'[p] <=>
                  x \in freeList[p] \/ x \in localFree[a] \cup freeListHeads[a],
         L \cap freeList'[p] = {}
  PROVE  SlotInv'
<1>1. \A b \in Owners : localRun[b] # None => localRun[b] \in Pages
  BY DEF IInv, TypeOK
<1>2. ASSUME NEW x, x \in freeList[p] \/ x \in localFree[a] \cup freeListHeads[a]
      PROVE  <<p, x>> \notin objects
  <2>1. localRun[a] = None => localFree[a] \cup freeListHeads[a] = {}
    BY DEF IInv, RunInv
  <2>2. p # None
    BY NoneIsNoPage
  <2> QED
    BY <2>1, <2>2, <1>2 DEF HInv, SlotInv
<1>3. ASSUME NEW q \in Pages, label[q] = "run", NEW x \in Slots,
             <<q, x>> \notin objects', x \notin freeList'[q]
      PROVE  \E b \in Owners : /\ localRun'[b] = q
                               /\ x \in localFree'[b] \cup freeListHeads'[b]
  <2>1. CASE q = p
    <3>1. x # s /\ <<p, x>> \notin objects
      BY <2>1, <1>3
    <3>2. x \in freeList[p] \/ x \in localFree[a] \cup freeListHeads[a]
      <4>1. \/ x \in freeList[p]
            \/ \E b \in Owners : localRun[b] = p /\ x \in localFree[b] \cup freeListHeads[b]
        BY <3>1, <2>1, <1>3 DEF HInv, SlotInv
      <4> QED
        BY <4>1
    <3> QED
      BY <3>1, <3>2, <2>1, <1>3
  <2>2. CASE q # p
    <3>1. <<q, x>> \notin objects /\ x \notin freeList[q]
      BY <2>2, <1>3
    <3>2. PICK b \in Owners : localRun[b] = q /\ x \in localFree[b] \cup freeListHeads[b]
      BY <3>1, <1>3 DEF HInv, SlotInv
    <3>3. b # a
      BY <3>2, <2>2, NoneIsNoPage
    <3> QED
      BY <3>2, <3>3
  <2> QED
    BY <2>1, <2>2
<1>4. ASSUME NEW q \in Pages, NEW x \in freeList'[q]
      PROVE  <<q, x>> \notin objects'
  <2>1. CASE q = p
    BY <2>1, <1>2, <1>4
  <2>2. CASE q # p
    BY <2>2, <1>4 DEF HInv, SlotInv
  <2> QED
    BY <2>1, <2>2
<1>5. ASSUME NEW b \in Owners, localRun'[b] # None,
             NEW x \in localFree'[b] \cup freeListHeads'[b]
      PROVE  <<localRun'[b], x>> \notin objects' /\ x \notin freeList'[localRun'[b]]
  <2>1. CASE b = a
    BY <2>1, <1>2, <1>5
  <2>2. CASE b # a
    <3>1. /\ localRun[b] \in Pages \ {p} /\ localRun'[b] = localRun[b]
          /\ x \in localFree[b] \cup freeListHeads[b]
      BY <2>2, <1>1, <1>5
    <3>2. <<localRun[b], x>> \notin objects /\ x \notin freeList[localRun[b]]
      BY <3>1, NoneIsNoPage DEF HInv, SlotInv
    <3> QED
      BY <3>1, <3>2
  <2> QED
    BY <2>1, <2>2
<1> QED
  BY <1>3, <1>4, <1>5 DEF SlotInv

LEMMA AllocStep ==
  ASSUME IInv, IInv', HInv, NEW m \in Mutators, NEW a \in Owners, NEW p \in Pages,
         NEW L \in SUBSET Slots, NEW s \in L,
         \/ th[m].pc = "local" /\ localRun[a] = p
         \/ th[m].pc = "localise" /\ localRun[a] = None,
         th[m].page = p, th[m].owner = a,
         NewObj(m, <<p, s>>),
         localFree' = [localFree EXCEPT ![a] = L \ {s}],
         freeListHeads' = [freeListHeads EXCEPT ![a] = {}],
         localRun' = [localRun EXCEPT ![a] = p],
         isLocal' = [isLocal EXCEPT ![p] = TRUE],
         freeList' \in [Pages -> SUBSET Slots],
         \A q \in Pages \ {p} : freeList'[q] = freeList[q],
         \A x : x \in L \/ x \in freeList'[p] <=>
                  x \in freeList[p] \/ x \in localFree[a] \cup freeListHeads[a],
         L \cap freeList'[p] = {},
         UNCHANGED <<spaceVars, nonFullRuns, useLocal, ctxVars, taskVars, gcVars>>
  PROVE  HInv'
<1>1. LocalInv /\ LocalInv' /\ RunInv /\ TypeOK /\ m \in Threads /\ m \in Owners /\ m # Global
  BY MutatorIsThread DEF IInv
<1>2. /\ th' = [th EXCEPT ![m] = Rest] /\ Unlock(m)
      /\ objects' = objects \cup {<<p, s>>} /\ live' = live \cup {<<p, s>>}
  BY DEF NewObj, Set
<1>3. th'[m] = Rest /\ \A u \in Threads \ {m} : th'[u] = th[u]
  BY <1>1, <1>2, Alone
<1>4. Idle(th'[m]) /\ th'[m].pc \notin UserPcs \cup {"tryInc"}
  BY <1>3, RestRoles
<1>5. /\ ~Sweeps(th[m]) /\ Allocating(th[m]) /\ ~Frees(th[m]) /\ th[m].pc # "freeRun"
      /\ Holds(th[m]) <=> th[m].pc = "localise"
      /\ th[m].pc = "localise" => Fetched(th[m])
      /\ th[m].pc \in CallRets
  BY DEF Sweeps, Allocating, Frees, In, Holds, Fetched, Removes, SweepPcs, CallRets
<1>6. MutatorMoves(m)
  BY <1>3, <1>4, <1>5, IdleFrees DEF MutatorMoves, LabelsStay, spaceVars
<1>7. a \in {m, Global} /\ (a = Global => globalLock = m) /\ (a = m => useLocal[m])
  <2>1. a \in {m, Global}
    BY <1>1, <1>5 DEF LocalInv, LocalOK
  <2> QED
    BY <2>1, <1>5 DEF HInv, CallInv
<1>8. ~Undone(p) /\ p # None
  BY <1>1, <1>5, NoneIsNoPage DEF HInv, ReturnInv
<1>9. /\ label[p] = "run" /\ p \notin nonFullRuns
      /\ \A u \in Threads \ {m} : ~(Holds(th[u]) /\ th[u].page = p)
      /\ \A b \in Owners \ {a} : localRun[b] # p
  <2>1. CASE th[m].pc = "local" /\ localRun[a] = p
    <3>1. label[p] = "run" /\ isLocal[p] /\ \A b \in Owners \ {a} : localRun[b] # p
      BY <2>1, <1>8 DEF HInv, OwnInv
    <3> QED
      BY <3>1 DEF HInv, NonFullInv, HolderInv
  <2>2. CASE th[m].pc = "localise"
    <3>1. Holds(th[m]) /\ Fetched(th[m])
      BY <2>2, <1>5
    <3>2. /\ label[p] = "run" /\ ~isLocal[p] /\ p \notin nonFullRuns
          /\ \A u \in Threads \ {m} : ~(Holds(th[u]) /\ th[u].page = p)
      BY <3>1, <1>1 DEF HInv, HolderInv, NonFullInv
    <3>3. \A b \in Owners : localRun[b] # p
      BY <3>2 DEF HInv, OwnInv
    <3> QED
      BY <3>2, <3>3
  <2> QED
    BY <2>1, <2>2
<1>10. /\ localRun'[a] = p /\ localFree'[a] = L \ {s} /\ freeListHeads'[a] = {}
       /\ \A b \in Owners \ {a} :
            /\ localRun[b] # p /\ localRun'[b] = localRun[b]
            /\ localFree'[b] = localFree[b] /\ freeListHeads'[b] = freeListHeads[b]
  BY <1>1, <1>9 DEF TypeOK
<1>11. isLocal'[p] /\ \A q \in Pages \ {p} : isLocal'[q] = isLocal[q]
  BY <1>1 DEF TypeOK
<1>12. <<p, s>> \notin objects
  <2>1. s \in freeList[p] \/ s \in localFree[a] \cup freeListHeads[a]
    OBVIOUS
  <2>2. localRun[a] = None => localFree[a] \cup freeListHeads[a] = {}
    BY <1>1 DEF RunInv
  <2> QED
    BY <2>1, <2>2, <1>8 DEF HInv, SlotInv
<1>13. LabelInv' /\ SweepingInv' /\ ReturnInv' /\ FreshInv' /\ ProgressInv'
  BY <1>4, <1>6, SweepFrame DEF Idle
<1>14. FreeInv' /\ MarkInv' /\ DeadInv' /\ SweptInv' /\ LargeInv'
  <2> DEFINE N == {<<p, s>>}
  <2>1. \A o \in N : o \notin objects /\ ~Undone(o[1]) /\ label[o[1]] # "large"
    BY <1>8, <1>9, <1>12
  <2>2. \A o : Freeing(m, o)' <=> Freeing(m, o)
    BY <1>4, <1>5, IdleFrees DEF Freeing
  <2>3. objects' = objects \cup N /\ live' = live \cup N
    BY <1>2
  <2>4. ~In(th'[m], "free") /\ ~In(th'[m], "freeLarge") /\ th'[m].pc # "freeRun"
    BY <1>4 DEF Idle
  <2> HIDE DEF N
  <2> QED
    BY <2>1, <2>2, <2>3, <2>4, <1>6, UseFrame
<1>15. OwnInv'
  <2>1. UNCHANGED label
    BY DEF spaceVars
  <2>2. \A b \in Owners : localRun'[b] # None => label[localRun'[b]] = "run"
    BY <1>9, <1>10 DEF HInv, OwnInv
  <2>3. \A b, c \in Owners :
          localRun'[b] = localRun'[c] /\ localRun'[b] # None => b = c
    BY <1>10 DEF HInv, OwnInv
  <2>4. ASSUME NEW q \in Pages
        PROVE  isLocal'[q] <=> \E b \in Owners : localRun'[b] = q
    <3>1. CASE q = p
      BY <3>1, <1>10, <1>11
    <3>2. CASE q # p
      <4>1. isLocal[q] <=> \E b \in Owners : localRun[b] = q
        BY DEF HInv, OwnInv
      <4>2. localRun[a] # q
        BY <3>2, NoneIsNoPage
      <4> QED
        BY <4>1, <4>2, <3>2, <1>10, <1>11
    <3> QED
      BY <3>1, <3>2
  <2>5. \A b \in Owners : localFree'[b] = {} \/ freeListHeads'[b] = {}
    BY <1>10 DEF HInv, OwnInv
  <2>6. freeListHeads'[Global] = {}
    BY <1>10, MutatorIsThread DEF HInv, OwnInv
  <2> QED
    BY <2>1, <2>2, <2>3, <2>4, <2>5, <2>6 DEF OwnInv
<1>16. CallInv'
  <2>1. \A n \in Mutators \ {m} : localRun'[n] = localRun[n]
    BY <1>7, <1>10, MutatorIsThread
  <2>2. \/ globalLock \in {m, None}
        \/ globalLock' = globalLock /\ localRun'[Global] = localRun[Global]
    BY <1>1, <1>2, <1>7, <1>10, MutatorIsThread DEF Unlock
  <2>3. localRun'[m] # None => useLocal[m]
    BY <1>1, <1>7, <1>10 DEF HInv, CallInv
  <2> QED
    BY <2>1, <2>2, <2>3, <1>4, <1>6, CallFrame DEF Idle
<1>17. OffInv'
  <2>1. \A n \in Mutators : \A q \in Pages :
          localFree'[n] # {} /\ localRun'[n] = q => ~Undone(q)
    BY <1>8, <1>10, MutatorIsThread DEF HInv, OffInv
  <2> QED
    BY <2>1, <1>6, OthersStay DEF OffInv
<1>18. SpaceInv'
  BY <1>2, <1>9, SpaceFrame DEF spaceVars, taskVars
<1>19. SlotInv'
  BY <1>2, <1>10, SlotTaken DEF spaceVars
<1>20. \A u \in Threads : Holds(th'[u]) \/ Fetched(th'[u]) \/ Removes(th'[u]) =>
         u # m /\ th'[u] = th[u] /\ Holds(th[u]) /\ th[u].page \in Pages \ {p}
  <2>1. \A u \in Threads : Fetched(th[u]) \/ Removes(th[u]) => Holds(th[u])
    BY DEF Holds
  <2> QED
    BY <2>1, <1>1, <1>3, <1>4, <1>9, PageOf DEF Idle
<1>21. UNCHANGED <<label, nonFullRuns>>
  BY DEF spaceVars
<1>22. NonFullInv'
  <2>1. \A q \in nonFullRuns : q \in Pages \ {p}
    BY <1>1, <1>9 DEF TypeOK
  <2> QED
    BY <2>1, <1>11, <1>20, <1>21 DEF HInv, NonFullInv
<1>23. HolderInv'
  BY <1>11, <1>20, <1>21 DEF HInv, HolderInv
<1>24. LoneInv'
  <2>1. ASSUME NEW q \in Pages, label[q] = "run", freeList'[q] # {},
               q \notin nonFullRuns, ~isLocal'[q],
               \A u \in Threads : ~(Holds(th'[u]) /\ th'[u].page = q)
        PROVE  \E u \in Threads : th'[u].pc = "doSweep" /\ th'[u].page = q /\ th'[u].full
    <3>1. q # p /\ ~isLocal[q] /\ freeList[q] # {}
      BY <2>1, <1>11
    <3>2. \A u \in Threads : ~(Holds(th[u]) /\ th[u].page = q)
      BY <3>1, <2>1, <1>3
    <3>3. PICK u \in Threads : th[u].pc = "doSweep" /\ th[u].page = q /\ th[u].full
      BY <3>1, <3>2, <2>1 DEF HInv, LoneInv
    <3> QED
      BY <3>3, <1>6, OthersStay
  <2> QED
    BY <2>1, <1>21 DEF LoneInv
<1>25. FullInv'
  <2>1. \A u \in Threads : th'[u].pc = "doSweep" =>
          th'[u] = th[u] /\ th[u].page \in Pages \ {p}
    BY <1>6, <1>8, OthersStay, NotSwept
  <2>2. ASSUME NEW u \in Threads, th'[u].pc = "doSweep"
        PROVE  /\ th'[u].freed \/ ~th'[u].full => freeList'[th'[u].page] # {}
               /\ ~th'[u].freed /\ th'[u].full => freeList'[th'[u].page] = {}
               /\ th'[u].full /\ ~isLocal'[th'[u].page] =>
                    /\ th'[u].page \notin nonFullRuns
                    /\ \A v \in Threads : ~(Holds(th'[v]) /\ th'[v].page = th'[u].page)
    <3>1. th'[u] = th[u] /\ th[u].page \in Pages \ {p} /\ th[u].pc = "doSweep"
      BY <2>1, <2>2
    <3>2. /\ freeList'[th[u].page] = freeList[th[u].page]
          /\ isLocal'[th[u].page] = isLocal[th[u].page]
      BY <3>1, <1>11
    <3>3. /\ th[u].freed \/ ~th[u].full => freeList[th[u].page] # {}
          /\ ~th[u].freed /\ th[u].full => freeList[th[u].page] = {}
      BY <3>1 DEF HInv, FullInv
    <3>4. th[u].full /\ ~isLocal[th[u].page] =>
                    /\ th[u].page \notin nonFullRuns
                    /\ \A v \in Threads : ~(Holds(th[v]) /\ th[v].page = th[u].page)
      BY <3>1 DEF HInv, FullInv
    <3>5. \A v \in Threads : Holds(th'[v]) => Holds(th[v]) /\ th'[v] = th[v]
      BY <1>20
    <3> QED
      BY <3>1, <3>2, <3>3, <3>4, <3>5
  <2> QED
    BY <2>2, <1>21 DEF FullInv
<1> QED
  BY <1>13, <1>14, <1>15, <1>16, <1>17, <1>18, <1>19, <1>22, <1>23, <1>24, <1>25
     DEF HInv

(* A full local run is given up.                                           *)
LEMMA HeapGiveUpRun ==
  ASSUME IInv, IInv', HInv, NEW m \in Mutators, NEW a \in Owners,
         NEW run \in Pages \cup {None},
         th[m].pc = "local", th[m].owner = a, run = localRun[a],
         localFree[a] \cup freeListHeads[a] = {},
         run # None => freeList[run] = {},
         Goto(m, "fetch"),
         localRun' = [localRun EXCEPT ![a] = None],
         isLocal' = [q \in Pages |-> q # run /\ isLocal[q]],
         freeListHeads' = [freeListHeads EXCEPT ![a] = {}],
         UNCHANGED <<spaceVars, objects, live, globalLock, localFree, freeList,
                     nonFullRuns, useLocal, ctxVars, taskVars, gcVars, ops>>
  PROVE  HInv'
<1> DEFINE r == [th[m] EXCEPT !.pc = "fetch"]
<1>1. LocalInv /\ LocalInv' /\ RunInv /\ TypeOK /\ m \in Threads /\ m \in Owners /\ m # Global
  BY MutatorIsThread DEF IInv
<1>2. th' = [th EXCEPT ![m] = r]
  BY <1>1, GotoPc
<1>3. /\ th'[m] = r /\ th[m] \in Locals /\ \A u \in Threads \ {m} : th'[u] = th[u]
  BY <1>1, <1>2, Alone
<1>4. r.pc = "fetch" /\ r.owner = a /\ r.page = th[m].page
  BY <1>3 DEF Locals
<1> HIDE DEF r
<1>5. /\ Allocating(th[m]) /\ Allocating(r) /\ Seeks(r) /\ ~Revoking(r)
      /\ ~In(r, "local") /\ ~In(r, "free") /\ ~In(r, "freeLarge") /\ r.pc # "freeRun"
      /\ ~Holds(th[m]) /\ ~Holds(r) /\ ~Sweeps(th[m]) /\ ~Sweeps(r)
      /\ ~Frees(th[m]) /\ ~Frees(r) /\ ~Fetched(th[m]) /\ ~Fetched(r)
      /\ ~Removes(th[m]) /\ ~Removes(r)
      /\ r.pc \notin UserPcs \cup {"tryInc"} /\ r.pc \notin CallRets \cup {"freeRun"}
  BY <1>4 DEF Allocating, Seeks, Revoking, In, Holds, Fetched, Removes, Sweeps,
     Frees, UserPcs, SweepPcs, CallRets
<1>6. MutatorMoves(m)
  BY <1>3, <1>5 DEF MutatorMoves, LabelsStay, spaceVars
<1>7. a \in {m, Global} /\ (a = Global => globalLock = m) /\ (a = m => useLocal[m])
  <2>1. a \in {m, Global}
    BY <1>1, <1>5 DEF LocalInv, LocalOK
  <2> QED
    BY <2>1, <1>5 DEF HInv, CallInv
<1>8. run \in Pages => ~Undone(run)
  <2>1. th[m].page = run
    BY DEF HInv, CallInv, In
  <2> QED
    BY <2>1, <1>1 DEF HInv, ReturnInv, CallRets
<1>9. /\ localRun'[a] = None /\ freeListHeads'[a] = {} /\ localFree[a] = {}
      /\ \A b \in Owners : freeListHeads'[b] = freeListHeads[b]
      /\ \A b \in Owners \ {a} : localRun'[b] = localRun[b]
      /\ \A q \in Pages : isLocal'[q] <=> (q # run /\ isLocal[q])
  BY <1>1 DEF TypeOK
<1>10. UNCHANGED <<label, nonFullRuns, freeList, objects, localFree>>
  BY DEF spaceVars
<1>11. LabelInv' /\ SweepingInv' /\ ReturnInv' /\ FreshInv' /\ ProgressInv'
  BY <1>3, <1>5, <1>6, SweepFrame
<1>12. FreeInv' /\ MarkInv' /\ DeadInv' /\ SweptInv' /\ LargeInv'
  <2>1. \A o : ~Freeing(m, o)' /\ ~Freeing(m, o)
    BY <1>3, <1>5 DEF Freeing
  <2> QED
    BY <2>1, <1>3, <1>5, <1>6, UseSame
<1>13. OwnInv'
  <2>1. \A b \in Owners : localRun'[b] # None => localRun'[b] = localRun[b] /\ b # a
    BY <1>9
  <2>2. ASSUME NEW q \in Pages
        PROVE  isLocal'[q] <=> \E b \in Owners : localRun'[b] = q
    <3>1. isLocal[q] <=> \E b \in Owners : localRun[b] = q
      BY DEF HInv, OwnInv
    <3>2. q # None
      BY NoneIsNoPage
    <3>3. \A b \in Owners : localRun[b] = run /\ run # None => b = a
      BY DEF HInv, OwnInv
    <3> QED
      BY <3>1, <3>2, <3>3, <1>9
  <2>3. \A b, c \in Owners : localRun'[b] = localRun'[c] /\ localRun'[b] # None => b = c
    BY <2>1 DEF HInv, OwnInv
  <2>4. \A b \in Owners : localRun'[b] # None => label[localRun'[b]] = "run"
    BY <2>1 DEF HInv, OwnInv
  <2>5. (\A b \in Owners : localFree[b] = {} \/ freeListHeads'[b] = {})
        /\ freeListHeads'[Global] = {}
    BY <1>9, MutatorIsThread DEF HInv, OwnInv
  <2> QED
    BY <2>2, <2>3, <2>4, <2>5, <1>10 DEF OwnInv
<1>14. CallInv'
  <2>1. \A n \in Mutators \ {m} : localRun'[n] = localRun[n]
    BY <1>7, <1>9, MutatorIsThread
  <2>2. \/ globalLock \in {m, None}
        \/ globalLock' = globalLock /\ localRun'[Global] = localRun[Global]
    BY <1>1, <1>7, <1>9, MutatorIsThread
  <2>3. localRun'[m] # None => useLocal[m]
    BY <1>1, <1>9 DEF HInv, CallInv
  <2> QED
    BY <2>1, <2>2, <2>3, <1>3, <1>4, <1>5, <1>6, <1>7, <1>9, CallFrame
<1>15. OffInv'
  <2>1. \A n \in Mutators : \A q \in Pages :
          localFree[n] # {} /\ localRun'[n] = q => ~Undone(q)
    BY <1>9, MutatorIsThread DEF HInv, OffInv
  <2> QED
    BY <2>1, <1>6, <1>10, OthersStay DEF OffInv
<1>16. SpaceInv'
  BY SpaceKept DEF HInv, spaceVars, taskVars
<1>17. SlotInv'
  <2>1. ASSUME NEW q \in Pages, label[q] = "run", NEW x \in Slots,
               <<q, x>> \notin objects, x \notin freeList[q]
        PROVE  \E b \in Owners : /\ localRun'[b] = q
                                 /\ x \in localFree[b] \cup freeListHeads'[b]
    <3>1. PICK b \in Owners : localRun[b] = q /\ x \in localFree[b] \cup freeListHeads[b]
      BY <2>1 DEF HInv, SlotInv
    <3>2. b # a
      BY <3>1
    <3> QED
      BY <3>1, <3>2, <1>9
  <2>2. ASSUME NEW b \in Owners, localRun'[b] # None,
               NEW x \in localFree[b] \cup freeListHeads'[b]
        PROVE  <<localRun'[b], x>> \notin objects /\ x \notin freeList[localRun'[b]]
    <3>1. localRun'[b] = localRun[b] /\ x \in localFree[b] \cup freeListHeads[b]
      BY <2>2, <1>9
    <3> QED
      BY <3>1, <2>2 DEF HInv, SlotInv
  <2> QED
    BY <2>1, <2>2, <1>10 DEF HInv, SlotInv
<1>18. /\ \A u \in Threads : Holds(th'[u]) <=> Holds(th[u])
       /\ \A u \in Threads : Fetched(th'[u]) <=> Fetched(th[u])
       /\ \A u \in Threads : Removes(th'[u]) <=> Removes(th[u])
       /\ \A u \in Threads : Holds(th[u]) => th'[u] = th[u]
       /\ \A u \in Threads : Fetched(th[u]) \/ Removes(th[u]) => Holds(th[u])
       /\ \A u \in Threads : Holds(th[u]) => th[u].page \in Pages
  <2>1. \A u \in Threads : Fetched(th[u]) \/ Removes(th[u]) => Holds(th[u])
    BY DEF Holds
  <2> QED
    BY <2>1, <1>1, <1>3, <1>5, PageOf
<1>19. NonFullInv' /\ HolderInv'
  <2>1. \A q \in nonFullRuns : q \in Pages
    BY <1>1 DEF TypeOK
  <2>2. NonFullInv'
    BY <2>1, <1>9, <1>10, <1>18 DEF HInv, NonFullInv
  <2>3. HolderInv'
    BY <1>9, <1>10, <1>18 DEF HInv, HolderInv
  <2> QED
    BY <2>2, <2>3
<1>20. LoneInv'
  <2>1. ASSUME NEW q \in Pages, label[q] = "run", freeList[q] # {},
               q \notin nonFullRuns, ~isLocal'[q],
               \A u \in Threads : ~(Holds(th'[u]) /\ th'[u].page = q)
        PROVE  \E u \in Threads : th'[u].pc = "doSweep" /\ th'[u].page = q /\ th'[u].full
    <3>1. ~isLocal[q]
      BY <2>1, <1>9, NoneIsNoPage
    <3>2. \A u \in Threads : ~(Holds(th[u]) /\ th[u].page = q)
      BY <2>1, <1>18
    <3>3. PICK u \in Threads : th[u].pc = "doSweep" /\ th[u].page = q /\ th[u].full
      BY <3>1, <3>2, <2>1 DEF HInv, LoneInv
    <3> QED
      BY <3>3, <1>6, OthersStay
  <2> QED
    BY <2>1, <1>10 DEF LoneInv
<1>21. FullInv'
  <2>1. \A u \in Threads : th'[u].pc = "doSweep" =>
          th'[u] = th[u] /\ th[u].page \in Pages /\ th[u].page # run
    BY <1>6, <1>8, OthersStay, NotSwept
  <2>2. ASSUME NEW u \in Threads, th'[u].pc = "doSweep"
        PROVE  /\ th'[u].freed \/ ~th'[u].full => freeList[th'[u].page] # {}
               /\ ~th'[u].freed /\ th'[u].full => freeList[th'[u].page] = {}
               /\ th'[u].full /\ ~isLocal'[th'[u].page] =>
                    /\ th'[u].page \notin nonFullRuns
                    /\ \A v \in Threads : ~(Holds(th'[v]) /\ th'[v].page = th'[u].page)
    <3>1. th'[u] = th[u] /\ th[u].page \in Pages /\ th[u].page # run
          /\ th[u].pc = "doSweep"
      BY <2>1, <2>2
    <3>2. isLocal'[th[u].page] <=> isLocal[th[u].page]
      BY <3>1, <1>9
    <3>3. /\ th[u].freed \/ ~th[u].full => freeList[th[u].page] # {}
          /\ ~th[u].freed /\ th[u].full => freeList[th[u].page] = {}
      BY <3>1 DEF HInv, FullInv
    <3>4. th[u].full /\ ~isLocal[th[u].page] =>
                    /\ th[u].page \notin nonFullRuns
                    /\ \A v \in Threads : ~(Holds(th[v]) /\ th[v].page = th[u].page)
      BY <3>1 DEF HInv, FullInv
    <3>5. \A v \in Threads : Holds(th'[v]) => Holds(th[v]) /\ th'[v] = th[v]
      BY <1>18
    <3> QED
      BY <3>1, <3>2, <3>3, <3>4, <3>5
  <2> QED
    BY <2>2, <1>10 DEF FullInv
<1> QED
  BY <1>11, <1>12, <1>13, <1>14, <1>15, <1>16, <1>17, <1>19, <1>20, <1>21 DEF HInv

LEMMA HeapAllocFromLocalRun ==
  ASSUME IInv, IInv', HInv, NEW m \in Mutators, AllocFromLocalRun(m)
  PROVE  HInv'
<1>1. PICK a : a = th[m].owner
  OBVIOUS
<1>2. PICK run : run = localRun[a]
  OBVIOUS
<1> DEFINE list == localFree[a] \cup freeListHeads[a]
           more == IF run = None THEN {} ELSE freeList[run]
<1>3. LocalInv /\ RunInv /\ TypeOK /\ HeapOK' /\ m \in Threads /\ th[m].pc = "local"
  BY MutatorIsThread, NextTypes DEF IInv, AllocFromLocalRun, At
<1>4. a \in Owners /\ run \in Pages \cup {None}
  <2>1. Allocating(th[m])
    BY <1>3 DEF Allocating
  <2>2. a \in {m, Global}
    BY <2>1, <1>1, <1>3 DEF LocalInv, LocalOK
  <2>3. a \in Owners
    BY <2>2, MutatorIsThread
  <2> QED
    BY <2>3, <1>2, <1>3 DEF TypeOK
<1>5. th[m].page = run
  BY <1>1, <1>2, <1>3 DEF HInv, CallInv, In
<1>6. /\ freeListHeads' = [freeListHeads EXCEPT ![a] = {}]
      /\ UNCHANGED <<spaceVars, nonFullRuns, useLocal, ctxVars, taskVars,
                     gcVars, ops>>
  BY <1>1 DEF AllocFromLocalRun
<1>7. run # None => isLocal[run]
  BY <1>2, <1>4 DEF HInv, OwnInv
<1>8. list \in SUBSET Slots /\ more \in SUBSET Slots
  BY <1>3, <1>4 DEF TypeOK
<1>9. ASSUME NEW L, NEW s, run # None
      PROVE  /\ localRun = [localRun EXCEPT ![a] = run]
             /\ isLocal = [isLocal EXCEPT ![run] = TRUE]
  <2>1. localRun = [localRun EXCEPT ![a] = run]
    BY <1>2, <1>3 DEF TypeOK
  <2>2. isLocal = [isLocal EXCEPT ![run] = TRUE]
    BY <1>3, <1>7, <1>9 DEF TypeOK
  <2> QED
    BY <2>1, <2>2
<1>10. CASE /\ list # {} /\ NewObj(m, <<run, Fetch(list)>>)
            /\ localFree' = [localFree EXCEPT ![a] = list \ {Fetch(list)}]
            /\ UNCHANGED <<freeList, isLocal, localRun>>
  <2>1. run \in Pages
    BY <1>2, <1>3, <1>4, <1>10 DEF RunInv
  <2>2. PICK s : s = Fetch(list)
    OBVIOUS
  <2>3. s \in list
    BY <2>2, <1>8, <1>10, FetchTakesOne
  <2>4. list \cap freeList[run] = {}
    BY <2>1, <1>2, <1>4, NoneIsNoPage DEF HInv, SlotInv
  <2>5. /\ localRun' = [localRun EXCEPT ![a] = run]
        /\ isLocal' = [isLocal EXCEPT ![run] = TRUE]
    BY <2>1, <1>9, <1>10, NoneIsNoPage
  <2>6. NewObj(m, <<run, s>>) /\ localFree' = [localFree EXCEPT ![a] = list \ {s}]
    BY <2>2, <1>10
  <2>7. /\ freeList' \in [Pages -> SUBSET Slots]
        /\ \A q \in Pages \ {run} : freeList'[q] = freeList[q]
        /\ \A x : x \in list \/ x \in freeList'[run] <=>
                    x \in freeList[run] \/ x \in localFree[a] \cup freeListHeads[a]
        /\ list \cap freeList'[run] = {}
    BY <2>4, <1>3, <1>10 DEF TypeOK
  <2> HIDE DEF list
  <2> QED
    BY <2>1, <2>3, <2>5, <2>6, <2>7, <1>1, <1>2, <1>3, <1>4, <1>5, <1>6, <1>8,
       AllocStep
<1>11. CASE /\ list = {} /\ more # {} /\ NewObj(m, <<run, Fetch(more)>>)
            /\ localFree' = [localFree EXCEPT ![a] = more \ {Fetch(more)}]
            /\ freeList' = [freeList EXCEPT ![run] = {}]
            /\ UNCHANGED <<isLocal, localRun>>
  <2>1. run \in Pages /\ more = freeList[run]
    BY <1>4, <1>11
  <2>2. PICK s : s = Fetch(more)
    OBVIOUS
  <2>3. s \in more
    BY <2>2, <1>8, <1>11, FetchTakesOne
  <2>5. /\ localRun' = [localRun EXCEPT ![a] = run]
        /\ isLocal' = [isLocal EXCEPT ![run] = TRUE]
    BY <2>1, <1>9, <1>11, NoneIsNoPage
  <2>6. NewObj(m, <<run, s>>) /\ localFree' = [localFree EXCEPT ![a] = more \ {s}]
    BY <2>2, <1>11
  <2>7. /\ freeList' \in [Pages -> SUBSET Slots]
        /\ \A q \in Pages \ {run} : freeList'[q] = freeList[q]
        /\ \A x : x \in more \/ x \in freeList'[run] <=>
                    x \in freeList[run] \/ x \in localFree[a] \cup freeListHeads[a]
        /\ more \cap freeList'[run] = {}
    BY <2>1, <1>3, <1>11 DEF TypeOK
  <2> HIDE DEF more
  <2> QED
    BY <2>1, <2>3, <2>5, <2>6, <2>7, <1>1, <1>2, <1>3, <1>4, <1>5, <1>6, <1>8,
       AllocStep
<1>12. CASE /\ list = {} /\ more = {}
            /\ localRun' = [localRun EXCEPT ![a] = None]
            /\ isLocal' = [p \in Pages |-> p # run /\ isLocal[p]]
            /\ Goto(m, "fetch")
            /\ UNCHANGED <<objects, live, globalLock, localFree, freeList>>
  BY <1>1, <1>2, <1>3, <1>4, <1>6, <1>12, HeapGiveUpRun
<1> QED
  BY <1>1, <1>2, <1>10, <1>11, <1>12 DEF AllocFromLocalRun

-----------------------------------------------------------------------------
(* Steps of the mutators: a run changes hands.                             *)

(* Mutator m takes a step on run p, and the rest stays.                    *)
LEMMA HoldChange ==
  ASSUME IInv, HInv, NEW m \in Mutators, MutatorMoves(m), NEW p \in Pages,
         \A q \in Pages \ {p} :
           /\ q \in nonFullRuns' <=> q \in nonFullRuns
           /\ freeList'[q] = freeList[q] /\ isLocal'[q] = isLocal[q]
           /\ label'[q] = label[q],
         nonFullRuns' \subseteq Pages,
         Holds(th[m]) => th[m].page = p,
         Holds(th'[m]) => th'[m].page = p,
         p \in nonFullRuns' =>
           /\ label'[p] = "run" /\ freeList'[p] # {} /\ ~isLocal'[p]
           /\ ~Holds(th'[m])
           /\ \A u \in Threads \ {m} : ~(Holds(th[u]) /\ th[u].page = p),
         Holds(th'[m]) =>
           /\ label'[p] # "free" /\ ~isLocal'[p]
           /\ Fetched(th'[m]) => label'[p] = "run" /\ freeList'[p] # {}
           /\ Removes(th'[m]) /\ label'[p] = "run" => freeList'[p] = Slots
           /\ \A u \in Threads \ {m} : ~(Holds(th[u]) /\ th[u].page = p),
         \A u \in Threads \ {m} : Holds(th[u]) /\ th[u].page = p =>
           /\ label'[p] # "free" /\ ~isLocal'[p]
           /\ Fetched(th[u]) => label'[p] = "run" /\ freeList'[p] # {}
           /\ Removes(th[u]) /\ label'[p] = "run" => freeList'[p] = Slots,
         /\ label'[p] = "run" /\ freeList'[p] # {}
         /\ p \notin nonFullRuns' /\ ~isLocal'[p] /\ ~Holds(th'[m])
         /\ \A u \in Threads \ {m} : ~(Holds(th[u]) /\ th[u].page = p)
         => \E u \in Threads : th[u].pc = "doSweep" /\ th[u].page = p /\ th[u].full,
         \A u \in Threads : th[u].pc = "doSweep" /\ th[u].page = p =>
           /\ th[u].freed \/ ~th[u].full => freeList'[p] # {}
           /\ ~th[u].freed /\ th[u].full => freeList'[p] = {}
           /\ th[u].full /\ ~isLocal'[p] =>
                /\ p \notin nonFullRuns' /\ ~Holds(th'[m])
                /\ \A v \in Threads \ {m} : ~(Holds(th[v]) /\ th[v].page = p)
  PROVE  NonFullInv' /\ HolderInv' /\ LoneInv' /\ FullInv'
<1>1. /\ LocalInv /\ m \in Threads /\ nonFullRuns \subseteq Pages
      /\ \A u \in Threads \ {m} : th'[u] = th[u]
  BY MutatorIsThread DEF IInv, TypeOK, MutatorMoves
<1>2. /\ \A r : Fetched(r) \/ Removes(r) => Holds(r)
      /\ \A u \in Threads : Holds(th[u]) => th[u].page \in Pages
  BY <1>1, PageOf DEF Holds
<1>3. \A u \in Threads : th[u].pc = "doSweep" \/ th'[u].pc = "doSweep" =>
        th'[u] = th[u] /\ u # m
  BY OthersStay
<1>4. \A u \in Threads : th[u].pc = "doSweep" => th[u].page \in Pages
  BY <1>1, PageOf
<1>5. \A u \in Threads : \A q \in Pages \ {p} :
        Holds(th'[u]) /\ th'[u].page = q <=> Holds(th[u]) /\ th[u].page = q
  BY <1>1
<1>6. NonFullInv'
  <2>1. ASSUME NEW q \in nonFullRuns'
        PROVE  /\ label'[q] = "run" /\ freeList'[q] # {} /\ ~isLocal'[q]
               /\ \A t \in Threads : ~(Holds(th'[t]) /\ th'[t].page = q)
    <3>1. CASE q = p
      BY <3>1, <2>1, <1>1
    <3>2. CASE q # p
      <4>1. q \in Pages \ {p} /\ q \in nonFullRuns
        BY <3>2, <2>1
      <4>2. /\ label[q] = "run" /\ freeList[q] # {} /\ ~isLocal[q]
            /\ \A t \in Threads : ~(Holds(th[t]) /\ th[t].page = q)
        BY <4>1 DEF HInv, NonFullInv
      <4> QED
        BY <4>1, <4>2, <1>5
    <3> QED
      BY <3>1, <3>2
  <2> QED
    BY <2>1 DEF NonFullInv
<1>7. HolderInv'
  <2>1. ASSUME NEW t \in Threads, Holds(th'[t])
        PROVE  /\ label'[th'[t].page] # "free" /\ ~isLocal'[th'[t].page]
               /\ Fetched(th'[t]) =>
                    label'[th'[t].page] = "run" /\ freeList'[th'[t].page] # {}
               /\ Removes(th'[t]) /\ label'[th'[t].page] = "run" =>
                    freeList'[th'[t].page] = Slots
    <3>1. CASE t = m
      BY <3>1, <2>1
    <3>2. CASE t # m /\ th[t].page = p
      BY <3>2, <2>1, <1>1
    <3>3. CASE t # m /\ th[t].page # p
      <4>1. th'[t] = th[t] /\ th[t].page \in Pages \ {p} /\ Holds(th[t])
        BY <3>3, <2>1, <1>1, <1>2
      <4>2. /\ label'[th[t].page] = label[th[t].page]
            /\ freeList'[th[t].page] = freeList[th[t].page]
            /\ isLocal'[th[t].page] = isLocal[th[t].page]
        BY <4>1
      <4>3. /\ label[th[t].page] # "free" /\ ~isLocal[th[t].page]
            /\ Fetched(th[t]) => label[th[t].page] = "run" /\ freeList[th[t].page] # {}
            /\ Removes(th[t]) /\ label[th[t].page] = "run" =>
                 freeList[th[t].page] = Slots
        BY <4>1 DEF HInv, HolderInv
      <4> QED
        BY <4>1, <4>2, <4>3
    <3> QED
      BY <3>1, <3>2, <3>3
  <2>2. ASSUME NEW t \in Threads, NEW u \in Threads,
               Holds(th'[t]), Holds(th'[u]), th'[t].page = th'[u].page
        PROVE  t = u
    <3>1. CASE t = m \/ u = m
      BY <3>1, <2>2, <1>1
    <3>2. CASE t # m /\ u # m
      BY <3>2, <2>2, <1>1 DEF HInv, HolderInv
    <3> QED
      BY <3>1, <3>2
  <2> QED
    BY <2>1, <2>2, <1>2 DEF HolderInv
<1>8. LoneInv'
  <2>1. ASSUME NEW q \in Pages, label'[q] = "run", freeList'[q] # {},
               q \notin nonFullRuns', ~isLocal'[q],
               \A u \in Threads : ~(Holds(th'[u]) /\ th'[u].page = q)
        PROVE  \E u \in Threads : th'[u].pc = "doSweep" /\ th'[u].page = q /\ th'[u].full
    <3>1. \E u \in Threads : th[u].pc = "doSweep" /\ th[u].page = q /\ th[u].full
      <4>1. CASE q = p
        <5>1. ~Holds(th'[m]) /\ \A u \in Threads \ {m} : ~(Holds(th[u]) /\ th[u].page = p)
          BY <4>1, <2>1, <1>1
        <5> QED
          BY <5>1, <4>1, <2>1
      <4>2. CASE q # p
        <5>1. /\ label[q] = "run" /\ freeList[q] # {} /\ q \notin nonFullRuns
              /\ ~isLocal[q] /\ \A u \in Threads : ~(Holds(th[u]) /\ th[u].page = q)
          BY <4>2, <2>1, <1>5
        <5> QED
          BY <5>1 DEF HInv, LoneInv
      <4> QED
        BY <4>1, <4>2
    <3> QED
      BY <3>1, <1>3
  <2> QED
    BY <2>1 DEF LoneInv
<1>9. FullInv'
  <2>1. ASSUME NEW u \in Threads, th'[u].pc = "doSweep"
        PROVE  /\ th'[u].freed \/ ~th'[u].full => freeList'[th'[u].page] # {}
               /\ ~th'[u].freed /\ th'[u].full => freeList'[th'[u].page] = {}
               /\ th'[u].full /\ ~isLocal'[th'[u].page] =>
                    /\ th'[u].page \notin nonFullRuns'
                    /\ \A v \in Threads : ~(Holds(th'[v]) /\ th'[v].page = th'[u].page)
    <3>1. th'[u] = th[u] /\ th[u].pc = "doSweep" /\ th[u].page \in Pages
      BY <2>1, <1>3, <1>4
    <3>2. CASE th[u].page = p
      <4>1. \A v \in Threads \ {m} : th'[v] = th[v]
        BY <1>1
      <4> QED
        BY <4>1, <3>1, <3>2
    <3>3. CASE th[u].page # p
      <4>1. /\ th[u].page \in nonFullRuns' <=> th[u].page \in nonFullRuns
            /\ freeList'[th[u].page] = freeList[th[u].page]
            /\ isLocal'[th[u].page] = isLocal[th[u].page]
        BY <3>1, <3>3
      <4>2. /\ th[u].freed \/ ~th[u].full => freeList[th[u].page] # {}
            /\ ~th[u].freed /\ th[u].full => freeList[th[u].page] = {}
        BY <3>1 DEF HInv, FullInv
      <4>3. th[u].full /\ ~isLocal[th[u].page] =>
              /\ th[u].page \notin nonFullRuns
              /\ \A v \in Threads : ~(Holds(th[v]) /\ th[v].page = th[u].page)
        BY <3>1 DEF HInv, FullInv
      <4>4. \A v \in Threads : Holds(th'[v]) /\ th'[v].page = th[u].page
                                 <=> Holds(th[v]) /\ th[v].page = th[u].page
        BY <3>1, <3>3, <1>5
      <4> QED
        BY <3>1, <4>1, <4>2, <4>3, <4>4
    <3> QED
      BY <3>2, <3>3
  <2> QED
    BY <2>1 DEF FullInv
<1> QED
  BY <1>6, <1>7, <1>8, <1>9

LEMMA HeapFetchRun ==
  ASSUME IInv, IInv', HInv, NEW m \in Mutators, FetchRunFromNonFulls(m)
  PROVE  HInv'
<1>1. /\ th[m].pc = "fetch"
      /\ UNCHANGED <<spaceVars, objects, freeList, isLocal, localVars, globalLock,
                     ctxVars, taskVars, gcVars, ops, live>>
  BY DEF FetchRunFromNonFulls, At
<1>2. /\ LocalInv /\ LocalInv' /\ TypeOK /\ m \in Threads /\ m \in Owners /\ m # Global
      /\ nonFullRuns \in SUBSET Pages
  BY MutatorIsThread DEF IInv, TypeOK
<1>3. /\ Allocating(th[m]) /\ Seeks(th[m]) /\ ~Revoking(th[m]) /\ ~Holds(th[m])
      /\ ~Sweeps(th[m]) /\ ~Frees(th[m]) /\ ~In(th[m], "free")
      /\ ~In(th[m], "freeLarge") /\ ~In(th[m], "local") /\ th[m].pc # "freeRun"
      /\ ~Fetched(th[m]) /\ ~Removes(th[m])
  BY <1>1 DEF Allocating, Seeks, Revoking, Holds, Fetched, Removes, Sweeps,
     Frees, In, SweepPcs
<1>4. OwnInv' /\ SlotInv' /\ SpaceInv'
  BY <1>1, OwnKept, SlotKept, SpaceKept DEF HInv, spaceVars, localVars, taskVars
<1>5. ASSUME NEW r \in Locals, th' = [th EXCEPT ![m] = r], r.owner = th[m].owner,
             Allocating(r), Seeks(r), ~Revoking(r), ~Sweeps(r), ~Frees(r),
             ~In(r, "free"), ~In(r, "freeLarge"), ~In(r, "local"), r.pc # "freeRun",
             r.pc \in UserPcs \cup {"tryInc"} => ~r.freed,
             r.pc \in CallRets => \A p \in Pages : r.page = p => ~Undone(p)
      PROVE  /\ th'[m] = r /\ MutatorMoves(m)
             /\ LabelInv' /\ SweepingInv' /\ ReturnInv' /\ FreshInv' /\ ProgressInv'
             /\ FreeInv' /\ MarkInv' /\ DeadInv' /\ SweptInv' /\ LargeInv'
             /\ CallInv' /\ OffInv'
  <2>1. th'[m] = r /\ \A u \in Threads \ {m} : th'[u] = th[u]
    BY <1>2, <1>5, Alone
  <2>2. MutatorMoves(m)
    BY <2>1, <1>1, <1>3, <1>5 DEF MutatorMoves, LabelsStay, spaceVars
  <2>3. LabelInv' /\ SweepingInv' /\ ReturnInv' /\ FreshInv' /\ ProgressInv'
    BY <2>1, <2>2, <1>5, SweepFrame
  <2>4. FreeInv' /\ MarkInv' /\ DeadInv' /\ SweptInv' /\ LargeInv'
    <3>1. \A o : ~Freeing(m, o)' /\ ~Freeing(m, o)
      BY <2>1, <1>3, <1>5 DEF Freeing
    <3> QED
      BY <3>1, <2>1, <2>2, <1>1, <1>5, UseSame
  <2>5. CallInv'
    <3>1. /\ localRun[m] # None => useLocal[m]
          /\ Allocating(r) /\ r.owner = m => useLocal[m]
          /\ Allocating(r) /\ r.owner = Global => globalLock = m
          /\ localRun[r.owner] = None
      BY <1>3, <1>5 DEF HInv, CallInv
    <3>2. UNCHANGED <<localRun, useLocal, globalLock>>
      BY <1>1 DEF localVars
    <3> QED
      BY <3>1, <3>2, <2>1, <2>2, <1>5, CallFrame
  <2>6. OffInv'
    BY <2>2, <1>1, OthersStay, OffKept DEF HInv, localVars
  <2> QED
    BY <2>1, <2>2, <2>3, <2>4, <2>5, <2>6
<1>6. ASSUME NEW p \in nonFullRuns, nonFullRuns' = nonFullRuns \ {p},
             Set(m, CallSweep(th[m], p, "localise"))
      PROVE  HInv'
  <2> DEFINE r == CallSweep(th[m], p, "localise")
  <2>1. p \in Pages /\ th[m] \in Locals /\ "localise" \in CallRets
    BY <1>2, <1>6 DEF LocalInv, CallRets
  <2>2. th' = [th EXCEPT ![m] = r]
    BY <1>6 DEF Set
  <2>3. r \in Locals
    BY <2>2, <1>2, Alone
  <2>4. /\ r.page = p /\ r.owner = th[m].owner /\ ~r.freed /\ ~Sweeps(r)
        /\ r.pc # "freeRun" /\ ~Removes(r) /\ Allocating(r) /\ ~Revoking(r)
        /\ Seeks(r) /\ Fetched(r) /\ Holds(r) /\ ~Frees(r)
        /\ r.pc \in CallRets => ~Undone(p)
        /\ \A k \in CallRets : In(r, k) <=> k = "localise"
    <3> HIDE DEF r
    <3>1. r = CallSweep(th[m], p, "localise")
      BY DEF r
    <3> QED
      BY <3>1, <2>1, CallsSweep
  <2>5. ~In(r, "free") /\ ~In(r, "freeLarge") /\ ~In(r, "local")
    BY <2>4 DEF CallRets
  <2> HIDE DEF r
  <2>6. /\ th'[m] = r /\ MutatorMoves(m)
        /\ LabelInv' /\ SweepingInv' /\ ReturnInv' /\ FreshInv' /\ ProgressInv'
        /\ FreeInv' /\ MarkInv' /\ DeadInv' /\ SweptInv' /\ LargeInv'
        /\ CallInv' /\ OffInv'
    BY <2>2, <2>3, <2>4, <2>5, <1>5
  <2>7. NonFullInv' /\ HolderInv' /\ LoneInv' /\ FullInv'
    <3>1. /\ label[p] = "run" /\ freeList[p] # {} /\ ~isLocal[p]
          /\ \A t \in Threads : ~(Holds(th[t]) /\ th[t].page = p)
      BY <1>6 DEF HInv, NonFullInv
    <3>2. \A u \in Threads : th[u].pc = "doSweep" /\ th[u].page = p => ~th[u].full
      BY <3>1, <1>6 DEF HInv, FullInv
    <3>3. UNCHANGED <<label, freeList, isLocal>>
      BY <1>1 DEF spaceVars
    <3>4. nonFullRuns' \subseteq Pages /\ p \notin nonFullRuns'
      BY <1>2, <1>6
    <3>5. \A q \in Pages \ {p} : q \in nonFullRuns' <=> q \in nonFullRuns
      BY <1>6
    <3> QED
      BY <3>1, <3>2, <3>3, <3>4, <3>5, <2>1, <2>4, <2>6, <1>3, HoldChange
  <2> QED
    BY <2>6, <2>7, <1>4 DEF HInv
<1>7. CASE nonFullRuns = {} /\ Goto(m, "allocRun") /\ nonFullRuns' = nonFullRuns
  <2> DEFINE r == [th[m] EXCEPT !.pc = "allocRun"]
  <2>1. th' = [th EXCEPT ![m] = r]
    BY <1>2, <1>7, GotoPc
  <2>2. r \in Locals /\ r.pc = "allocRun" /\ r.owner = th[m].owner
    <3>1. th[m] \in Locals /\ r \in Locals
      BY <2>1, <1>2, Alone
    <3> QED
      BY <3>1 DEF Locals
  <2> HIDE DEF r
  <2>3. /\ ~Sweeps(r) /\ r.pc # "freeRun" /\ ~Removes(r) /\ Allocating(r)
        /\ ~Revoking(r) /\ Seeks(r) /\ ~Fetched(r) /\ ~Holds(r) /\ ~Frees(r)
        /\ ~In(r, "free") /\ ~In(r, "freeLarge") /\ ~In(r, "local")
        /\ r.pc \notin CallRets /\ r.pc \notin UserPcs \cup {"tryInc"}
    BY <2>2 DEF Allocating, Seeks, Revoking, Holds, Fetched, Removes, Sweeps,
       Frees, In, SweepPcs, CallRets, UserPcs
  <2>4. /\ th'[m] = r /\ MutatorMoves(m)
        /\ LabelInv' /\ SweepingInv' /\ ReturnInv' /\ FreshInv' /\ ProgressInv'
        /\ FreeInv' /\ MarkInv' /\ DeadInv' /\ SweptInv' /\ LargeInv'
        /\ CallInv' /\ OffInv'
    BY <2>1, <2>2, <2>3, <1>5
  <2>5. NonFullInv' /\ HolderInv' /\ LoneInv' /\ FullInv'
    <3>1. SameHold(th[m], th'[m])
      BY <2>3, <2>4, <1>3 DEF SameHold
    <3>2. UNCHANGED <<runVars, label>>
      BY <1>1, <1>7 DEF runVars, spaceVars
    <3> QED
      BY <3>1, <3>2, <2>4, HoldFrame
  <2> QED
    BY <2>4, <2>5, <1>4 DEF HInv
<1> QED
  BY <1>6, <1>7 DEF FetchRunFromNonFulls

(* The page that TakePage() takes was free, and so nobody's.               *)
LEMMA NewPage ==
  ASSUME IInv, HInv, NEW p \in NewPages, NEW l \in {"run", "large"}, TakePage(p, l),
         UNCHANGED buffer
  PROVE  /\ p \in Pages /\ label[p] = "free" /\ freeList[p] = {} /\ ~Undone(p)
         /\ \A o \in objects : o[1] # p
         /\ p \notin nonFullRuns /\ ~isLocal[p]
         /\ \A u \in Threads : ~(Holds(th[u]) /\ th[u].page = p)
         /\ \A a \in Owners : localRun[a] # p
         /\ label'[p] = l /\ \A q \in Pages \ {p} : label'[q] = label[q]
         /\ \A q \in avail' : label'[q] = "free" /\ q <= spaceEnd'
         /\ \A w \in Workers : \A q \in buffer[w] :
              label'[q] = "free" /\ q <= spaceEnd' /\ q \notin avail'
         /\ \A q \in Pages : q > spaceEnd' => label'[q] = "free"
<1>1. /\ avail \subseteq Pages /\ spaceEnd \in Nat /\ Pages \subseteq Nat
      /\ label \in [Pages -> {"free", "run", "large"}]
      /\ \A w \in Workers : buffer[w] \subseteq Pages
  BY DEF IInv, TypeOK, Pages
<1>2. p \in Pages /\ label[p] = "free" /\ \A w \in Workers : p \notin buffer[w]
  <2>1. CASE avail # {}
    <3>1. p \in avail
      BY <2>1 DEF NewPages
    <3> QED
      BY <3>1, <1>1 DEF HInv, SpaceInv
  <2>2. CASE avail = {}
    <3>1. p \in Pages /\ p = spaceEnd + 1
      BY <2>2 DEF NewPages
    <3>2. p > spaceEnd
      BY <3>1, <1>1
    <3>3. \A w \in Workers : \A q \in buffer[w] : q <= spaceEnd /\ q \in Nat
      BY <1>1 DEF HInv, SpaceInv
    <3>4. \A w \in Workers : p \notin buffer[w]
      BY <3>1, <3>3, <1>1
    <3> QED
      BY <3>1, <3>2, <3>4 DEF HInv, SpaceInv
  <2> QED
    BY <2>1, <2>2
<1>3. /\ label'[p] = l /\ \A q \in Pages \ {p} : label'[q] = label[q]
      /\ avail' = avail \ {p}
      /\ spaceEnd' \in Nat /\ spaceEnd <= spaceEnd' /\ p <= spaceEnd'
  BY <1>1, <1>2 DEF TakePage
<1>4. freeList[p] = {} /\ ~Undone(p) /\ \A o \in objects : o[1] # p
  BY <1>2 DEF HInv, SpaceInv, LabelInv
<1>5. /\ p \notin nonFullRuns
      /\ \A u \in Threads : ~(Holds(th[u]) /\ th[u].page = p)
      /\ \A a \in Owners : localRun[a] # p
  <2>1. p \notin nonFullRuns
    BY <1>2 DEF HInv, NonFullInv
  <2>2. \A u \in Threads : ~(Holds(th[u]) /\ th[u].page = p)
    BY <1>2 DEF HInv, HolderInv
  <2>3. \A a \in Owners : localRun[a] # p
    BY <1>2, NoneIsNoPage DEF HInv, OwnInv
  <2> QED
    BY <2>1, <2>2, <2>3
<1>6. ~isLocal[p]
  BY <1>2, <1>5 DEF HInv, OwnInv
<1>7. ASSUME NEW q \in avail'
      PROVE  label'[q] = "free" /\ q <= spaceEnd'
  <2>1. q \in avail /\ q \in Pages \ {p} /\ q \in Nat
    BY <1>1, <1>3, <1>7
  <2>2. label[q] = "free" /\ q <= spaceEnd
    BY <2>1 DEF HInv, SpaceInv
  <2>3. q <= spaceEnd'
    BY <2>1, <2>2, <1>1, <1>3
  <2> QED
    BY <2>1, <2>2, <2>3, <1>3
<1>8. ASSUME NEW w \in Workers, NEW q \in buffer[w]
      PROVE  label'[q] = "free" /\ q <= spaceEnd' /\ q \notin avail'
  <2>1. q \in Pages \ {p} /\ q \in Nat
    BY <1>1, <1>2
  <2>2. label[q] = "free" /\ q <= spaceEnd /\ q \notin avail
    BY <2>1 DEF HInv, SpaceInv
  <2>3. q <= spaceEnd'
    BY <2>1, <2>2, <1>1, <1>3
  <2> QED
    BY <2>1, <2>2, <2>3, <1>3
<1>9. \A q \in Pages : q > spaceEnd' => label'[q] = "free"
  <2>1. \A q \in Pages : q > spaceEnd => label[q] = "free"
    BY DEF HInv, SpaceInv
  <2>2. \A q \in Pages : q > spaceEnd' => q > spaceEnd /\ q # p
    BY <1>1, <1>3
  <2> QED
    BY <2>1, <2>2, <1>3
<1> QED
  BY <1>2, <1>3, <1>4, <1>5, <1>6, <1>7, <1>8, <1>9

LEMMA HeapAllocRun ==
  ASSUME IInv, IInv', HInv, NEW m \in Mutators, AllocRun(m)
  PROVE  HInv'
<1>1. /\ th[m].pc = "allocRun"
      /\ UNCHANGED <<objects, nonFullRuns, isLocal, localVars, ctxVars, taskVars,
                     gcVars, ops, live>>
  BY DEF AllocRun, At
<1>2. /\ LocalInv /\ LocalInv' /\ TypeOK /\ m \in Threads /\ m \in Owners /\ m # Global
      /\ th[m] \in Locals
  BY MutatorIsThread DEF IInv, LocalInv
<1>3. /\ Allocating(th[m]) /\ Seeks(th[m]) /\ ~Revoking(th[m]) /\ ~Holds(th[m])
      /\ ~Sweeps(th[m]) /\ ~Frees(th[m]) /\ ~In(th[m], "free")
      /\ ~In(th[m], "freeLarge") /\ ~In(th[m], "local") /\ th[m].pc # "freeRun"
      /\ ~Fetched(th[m]) /\ ~Removes(th[m])
  BY <1>1 DEF Allocating, Seeks, Revoking, Holds, Fetched, Removes, Sweeps,
     Frees, In, SweepPcs
<1>4. /\ th[m].owner \in {m, Global}
      /\ localRun[m] # None => useLocal[m]
      /\ Allocating(th[m]) /\ th[m].owner = m => useLocal[m]
      /\ Allocating(th[m]) /\ th[m].owner = Global => globalLock = m
      /\ localRun[th[m].owner] = None
  BY <1>2, <1>3 DEF HInv, CallInv, LocalInv, LocalOK
<1>5. ASSUME NEW p \in NewPages, TakePage(p, "run"),
             freeList' = [freeList EXCEPT ![p] = Slots],
             Set(m, CallSweep(th[m], p, "localise")), UNCHANGED globalLock
      PROVE  HInv'
  <2> DEFINE r == CallSweep(th[m], p, "localise")
  <2>1. UNCHANGED buffer /\ "run" \in {"run", "large"}
    BY <1>1 DEF taskVars
  <2>2. /\ p \in Pages /\ label[p] = "free" /\ freeList[p] = {} /\ ~Undone(p)
        /\ \A o \in objects : o[1] # p
        /\ p \notin nonFullRuns /\ ~isLocal[p]
        /\ \A u \in Threads : ~(Holds(th[u]) /\ th[u].page = p)
        /\ \A a \in Owners : localRun[a] # p
        /\ label'[p] = "run" /\ \A q \in Pages \ {p} : label'[q] = label[q]
        /\ \A q \in avail' : label'[q] = "free" /\ q <= spaceEnd'
        /\ \A w \in Workers : \A q \in buffer[w] :
             label'[q] = "free" /\ q <= spaceEnd' /\ q \notin avail'
        /\ \A q \in Pages : q > spaceEnd' => label'[q] = "free"
    BY <2>1, <1>5, NewPage
  <2>3. th' = [th EXCEPT ![m] = r] /\ "localise" \in CallRets
    BY <1>5 DEF Set, CallRets
  <2>4. /\ r.page = p /\ r.owner = th[m].owner /\ ~r.freed /\ ~Sweeps(r)
        /\ r.pc # "freeRun" /\ ~Removes(r) /\ Allocating(r) /\ ~Revoking(r)
        /\ Seeks(r) /\ Fetched(r) /\ Holds(r) /\ ~Frees(r)
        /\ \A k \in CallRets : In(r, k) <=> k = "localise"
    <3> HIDE DEF r
    <3>1. r = CallSweep(th[m], p, "localise")
      BY DEF r
    <3> QED
      BY <3>1, <2>2, <2>3, <1>2, CallsSweep
  <2>5. ~In(r, "free") /\ ~In(r, "freeLarge") /\ ~In(r, "local")
    BY <2>4 DEF CallRets
  <2> HIDE DEF r
  <2>6. th'[m] = r /\ \A u \in Threads \ {m} : th'[u] = th[u]
    BY <2>3, <1>2, Alone
  <2>7. LabelsStay
    BY <2>2 DEF LabelsStay
  <2>8. MutatorMoves(m)
    BY <2>4, <2>6, <2>7, <1>1, <1>3 DEF MutatorMoves
  <2>9. freeList'[p] = Slots /\ \A q \in Pages \ {p} : freeList'[q] = freeList[q]
    BY <2>2, <1>2, <1>5 DEF TypeOK
  <2>10. LabelInv' /\ SweepingInv' /\ ReturnInv' /\ FreshInv' /\ ProgressInv'
    BY <2>2, <2>4, <2>6, <2>8, SweepFrame
  <2>11. FreeInv' /\ MarkInv' /\ DeadInv' /\ SweptInv' /\ LargeInv'
    <3>1. \A o : ~Freeing(m, o)' /\ ~Freeing(m, o)
      BY <2>4, <2>6, <1>3 DEF Freeing
    <3> QED
      BY <3>1, <2>4, <2>5, <2>6, <2>8, <1>1, UseSame
  <2>12. UNCHANGED <<localRun, useLocal, localFree, freeListHeads, isLocal, objects,
                     nonFullRuns, buffer, globalLock>>
    BY <1>1, <1>5 DEF localVars, taskVars
  <2>13. CallInv'
    <3>1. /\ localRun[m] # None => useLocal[m]
          /\ Allocating(r) /\ r.owner = m => useLocal[m]
          /\ Allocating(r) /\ r.owner = Global => globalLock = m
          /\ localRun[r.owner] = None
      BY <2>4, <1>3, <1>4
    <3> QED
      BY <3>1, <2>4, <2>5, <2>6, <2>8, <2>12, CallFrame
  <2>14. OffInv'
    BY <2>8, <2>12, OthersStay, OffKept DEF HInv
  <2>15. OwnInv'
    <3>1. \A a \in Owners : localRun[a] # None =>
            localRun[a] \in Pages \ {p} /\ label[localRun[a]] = "run"
      BY <2>2, <1>2 DEF HInv, OwnInv, TypeOK
    <3>2. \A a \in Owners : localRun[a] # None => label'[localRun[a]] = "run"
      BY <3>1, <2>2
    <3> QED
      BY <3>2, <2>12 DEF HInv, OwnInv
  <2>16. SpaceInv'
    <3>1. /\ \A q \in Pages : label'[q] = "free" => label[q] = "free" /\ freeList'[q] = {}
          /\ \A q \in Pages : label'[q] = "large" => label[q] = "large" /\ freeList'[q] = {}
      BY <2>2, <2>9 DEF HInv, SpaceInv
    <3>2. \A v, w \in Workers : v # w => buffer[v] \cap buffer[w] = {}
      BY DEF HInv, SpaceInv
    <3>3. /\ \A q \in Pages : label'[q] = "free" =>
               freeList'[q] = {} /\ \A o \in objects : o[1] # q
          /\ \A q \in Pages : label'[q] = "large" =>
               freeList'[q] = {} /\ \A o \in objects : o[1] = q => o[2] = 1
      BY <3>1 DEF HInv, SpaceInv
    <3> QED
      BY <3>2, <3>3, <2>2, <2>12 DEF SpaceInv
  <2>17. SlotInv'
    <3>1. ASSUME NEW q \in Pages, label'[q] = "run", NEW x \in Slots,
                 <<q, x>> \notin objects, x \notin freeList'[q]
          PROVE  \E b \in Owners : /\ localRun[b] = q
                                   /\ x \in localFree[b] \cup freeListHeads[b]
      <4>1. q # p
        BY <3>1, <2>9
      <4> QED
        BY <4>1, <3>1, <2>2, <2>9 DEF HInv, SlotInv
    <3>2. ASSUME NEW q \in Pages, NEW x \in freeList'[q]
          PROVE  <<q, x>> \notin objects
      BY <3>2, <2>2, <2>9 DEF HInv, SlotInv
    <3>3. ASSUME NEW b \in Owners, localRun[b] # None,
                 NEW x \in localFree[b] \cup freeListHeads[b]
          PROVE  <<localRun[b], x>> \notin objects /\ x \notin freeList'[localRun[b]]
      <4>1. localRun[b] \in Pages \ {p}
        BY <3>3, <2>2, <1>2 DEF TypeOK
      <4> QED
        BY <4>1, <3>3, <2>9 DEF HInv, SlotInv
    <3> QED
      BY <3>1, <3>2, <3>3, <2>12 DEF SlotInv
  <2>18. NonFullInv' /\ HolderInv' /\ LoneInv' /\ FullInv'
    <3>1. \A u \in Threads : ~(th[u].pc = "doSweep" /\ th[u].page = p)
      BY <2>2, NotSwept
    <3>2. freeList'[p] # {} /\ nonFullRuns' \subseteq Pages
      BY <2>9, <2>12, <1>2, SlotExists DEF TypeOK
    <3> QED
      BY <3>1, <3>2, <2>2, <2>4, <2>6, <2>8, <2>9, <2>12, <1>3, HoldChange
  <2> QED
    BY <2>10, <2>11, <2>13, <2>14, <2>15, <2>16, <2>17, <2>18 DEF HInv
<1>6. CASE Set(m, Rest) /\ Unlock(m) /\ UNCHANGED <<spaceVars, freeList>>
  <2>1. th'[m] = Rest /\ \A u \in Threads \ {m} : th'[u] = th[u]
    BY <1>2, <1>6, Alone DEF Set
  <2>2. Idle(th'[m]) /\ th'[m].pc \notin UserPcs \cup {"tryInc"}
    BY <2>1, RestRoles
  <2>3. MutatorMoves(m)
    BY <2>1, <2>2, <1>1, <1>3, <1>6, IdleFrees
       DEF MutatorMoves, LabelsStay, spaceVars
  <2>4. LabelInv' /\ SweepingInv' /\ ReturnInv' /\ FreshInv' /\ ProgressInv'
    BY <2>2, <2>3, SweepFrame DEF Idle
  <2>5. FreeInv' /\ MarkInv' /\ DeadInv' /\ SweptInv' /\ LargeInv'
    <3>1. \A o : ~Freeing(m, o)' /\ ~Freeing(m, o)
      BY <2>2, <1>3, IdleFrees DEF Freeing
    <3>2. ~In(th'[m], "free") /\ ~In(th'[m], "freeLarge") /\ th'[m].pc # "freeRun"
      BY <2>2 DEF Idle
    <3> QED
      BY <3>1, <3>2, <2>3, <1>1, UseSame
  <2>6. OwnInv' /\ SlotInv' /\ SpaceInv'
    BY <1>1, <1>6, OwnKept, SlotKept, SpaceKept
       DEF HInv, spaceVars, localVars, taskVars
  <2>7. OffInv'
    BY <2>3, <1>1, OthersStay, OffKept DEF HInv, localVars
  <2>8. CallInv'
    <3>1. UNCHANGED <<localRun, useLocal>>
      BY <1>1 DEF localVars
    <3>2. globalLock \in {m, None} \/ globalLock' = globalLock
      BY <1>6 DEF Unlock
    <3> QED
      BY <3>1, <3>2, <2>2, <2>3, <1>4, CallFrame DEF Idle
  <2>9. NonFullInv' /\ HolderInv' /\ LoneInv' /\ FullInv'
    <3>1. SameHold(th[m], th'[m])
      BY <2>2, <1>3 DEF SameHold, Idle
    <3>2. UNCHANGED <<runVars, label>>
      BY <1>1, <1>6 DEF runVars, spaceVars
    <3> QED
      BY <3>1, <3>2, <2>3, HoldFrame
  <2> QED
    BY <2>4, <2>5, <2>6, <2>7, <2>8, <2>9 DEF HInv
<1> QED
  BY <1>5, <1>6 DEF AllocRun

LEMMA HeapLocaliseRun ==
  ASSUME IInv, IInv', HInv, NEW m \in Mutators, LocaliseRun(m)
  PROVE  HInv'
<1>1. PICK a : a = th[m].owner
  OBVIOUS
<1>2. PICK p : p = th[m].page
  OBVIOUS
<1>3. PICK L : L = freeList[p]
  OBVIOUS
<1>4. PICK s : s = Fetch(L)
  OBVIOUS
<1>5. /\ th[m].pc = "localise" /\ L # {} /\ NewObj(m, <<p, s>>)
      /\ localFree' = [localFree EXCEPT ![a] = L \ {s}]
      /\ freeList' = [freeList EXCEPT ![p] = {}]
      /\ isLocal' = [isLocal EXCEPT ![p] = TRUE]
      /\ localRun' = [localRun EXCEPT ![a] = p]
      /\ UNCHANGED <<spaceVars, nonFullRuns, useLocal, freeListHeads, ctxVars,
                     taskVars, gcVars, ops>>
  BY <1>1, <1>2, <1>3, <1>4 DEF LocaliseRun, At
<1>6. LocalInv /\ RunInv /\ TypeOK /\ HeapOK' /\ m \in Threads
  BY MutatorIsThread, NextTypes DEF IInv
<1>7. Allocating(th[m]) /\ Seeks(th[m])
  BY <1>5 DEF Allocating, Seeks, Fetched, In
<1>8. a \in Owners /\ localRun[a] = None
  <2>1. a \in {m, Global}
    BY <1>1, <1>6, <1>7 DEF LocalInv, LocalOK
  <2> QED
    BY <2>1, <1>1, <1>7, MutatorIsThread DEF HInv, CallInv
<1>9. p \in Pages
  <2>1. Holds(th[m])
    BY <1>5 DEF Holds, Fetched, In
  <2> QED
    BY <2>1, <1>2, <1>6, PageOf
<1>10. L \in SUBSET Slots /\ s \in L
  <2>1. L \in SUBSET Slots
    BY <1>3, <1>6, <1>9 DEF TypeOK
  <2> QED
    BY <2>1, <1>4, <1>5, FetchTakesOne
<1>11. localFree[a] = {} /\ freeListHeads[a] = {}
  BY <1>6, <1>8 DEF RunInv
<1>12. freeListHeads' = [freeListHeads EXCEPT ![a] = {}]
  BY <1>5, <1>6, <1>8, <1>11 DEF TypeOK
<1>13. /\ freeList' \in [Pages -> SUBSET Slots]
       /\ \A q \in Pages \ {p} : freeList'[q] = freeList[q]
       /\ \A x : x \in L \/ x \in freeList'[p] <=>
                   x \in freeList[p] \/ x \in localFree[a] \cup freeListHeads[a]
       /\ L \cap freeList'[p] = {}
  BY <1>3, <1>5, <1>6, <1>9, <1>11 DEF TypeOK
<1> QED
  BY <1>1, <1>2, <1>5, <1>8, <1>9, <1>10, <1>12, <1>13, AllocStep

LEMMA HeapAllocLargeObject ==
  ASSUME IInv, IInv', HInv, NEW m \in Mutators, NEW p \in Pages, AllocLargeObject(m, p)
  PROVE  HInv'
<1>1. /\ th[m].pc = "idle" /\ p \in NewPages /\ TakePage(p, "large")
      /\ th' = [th EXCEPT ![m] = Rest] /\ Unlock(m)
      /\ objects' = objects \cup {<<p, 1>>} /\ live' = live \cup {<<p, 1>>}
      /\ UNCHANGED <<runVars, localVars, ctxVars, taskVars, gcVars>>
  BY DEF AllocLargeObject, NewObj, At, Set
<1>2. LocalInv /\ LocalInv' /\ TypeOK /\ m \in Threads /\ m \in Owners
  BY MutatorIsThread DEF IInv
<1>3. th'[m] = Rest /\ \A u \in Threads \ {m} : th'[u] = th[u]
  BY <1>1, <1>2, Alone
<1>4. Idle(th[m]) /\ Idle(th'[m]) /\ th'[m].pc \notin UserPcs \cup {"tryInc"}
  BY <1>1, <1>3, IdleRoles, RestRoles
<1>5. /\ label[p] = "free" /\ freeList[p] = {} /\ ~Undone(p)
      /\ \A o \in objects : o[1] # p
      /\ p \notin nonFullRuns /\ ~isLocal[p]
      /\ \A u \in Threads : ~(Holds(th[u]) /\ th[u].page = p)
      /\ \A a \in Owners : localRun[a] # p
      /\ label'[p] = "large" /\ \A q \in Pages \ {p} : label'[q] = label[q]
      /\ \A q \in avail' : label'[q] = "free" /\ q <= spaceEnd'
      /\ \A w \in Workers : \A q \in buffer[w] :
           label'[q] = "free" /\ q <= spaceEnd' /\ q \notin avail'
      /\ \A q \in Pages : q > spaceEnd' => label'[q] = "free"
  <2>1. UNCHANGED buffer /\ "large" \in {"run", "large"}
    BY <1>1 DEF taskVars
  <2> QED
    BY <2>1, <1>1, NewPage
<1>6. UNCHANGED <<freeList, nonFullRuns, isLocal, localRun, useLocal, localFree,
                  freeListHeads, buffer>>
  BY <1>1 DEF runVars, localVars, taskVars
<1>7. LabelsStay
  BY <1>5 DEF LabelsStay
<1>8. MutatorMoves(m)
  BY <1>1, <1>3, <1>4, <1>7, IdleFrees DEF MutatorMoves
<1>9. LabelInv' /\ SweepingInv' /\ ReturnInv' /\ FreshInv' /\ ProgressInv'
  BY <1>4, <1>8, SweepFrame DEF Idle
<1>10. FreeInv' /\ MarkInv' /\ DeadInv' /\ SweptInv' /\ LargeInv'
  <2> DEFINE N == {<<p, 1>>}
  <2>1. \A o \in N : o \notin objects /\ ~Undone(o[1]) /\ label[o[1]] # "large"
    BY <1>5
  <2>2. \A o : Freeing(m, o)' <=> Freeing(m, o)
    BY <1>4, IdleFrees
  <2>3. objects' = objects \cup N /\ live' = live \cup N
    BY <1>1
  <2>4. ~In(th'[m], "free") /\ ~In(th'[m], "freeLarge") /\ th'[m].pc # "freeRun"
    BY <1>4 DEF Idle
  <2> HIDE DEF N
  <2> QED
    BY <2>1, <2>2, <2>3, <2>4, <1>8, UseFrame
<1>11. CallInv'
  <2>1. globalLock \in {m, None} \/ globalLock' = globalLock
    BY <1>1 DEF Unlock
  <2>2. localRun[m] # None => useLocal[m]
    BY DEF HInv, CallInv
  <2> QED
    BY <2>1, <2>2, <1>4, <1>6, <1>8, CallFrame DEF Idle
<1>12. OffInv'
  BY <1>6, <1>8, OthersStay, OffKept DEF HInv
<1>13. OwnInv'
  <2>1. \A a \in Owners : localRun[a] # None =>
          localRun[a] \in Pages \ {p} /\ label[localRun[a]] = "run"
    BY <1>2, <1>5 DEF HInv, OwnInv, TypeOK
  <2>2. \A a \in Owners : localRun[a] # None => label'[localRun[a]] = "run"
    BY <2>1, <1>5
  <2> QED
    BY <2>2, <1>6 DEF HInv, OwnInv
<1>14. SpaceInv'
  <2>1. ASSUME NEW q \in Pages
        PROVE  /\ label'[q] = "free" =>
                    freeList[q] = {} /\ \A o \in objects' : o[1] # q
               /\ label'[q] = "large" =>
                    freeList[q] = {} /\ \A o \in objects' : o[1] = q => o[2] = 1
    <3>1. CASE q = p
      BY <3>1, <1>1, <1>5
    <3>2. CASE q # p
      <4>1. label'[q] = label[q] /\ \A o \in objects' : o[1] = q => o \in objects
        BY <3>2, <1>1, <1>5
      <4> QED
        BY <4>1 DEF HInv, SpaceInv
    <3> QED
      BY <3>1, <3>2
  <2>2. \A v, w \in Workers : v # w => buffer[v] \cap buffer[w] = {}
    BY DEF HInv, SpaceInv
  <2> QED
    BY <2>1, <2>2, <1>5, <1>6 DEF SpaceInv
<1>15. SlotInv'
  <2>1. ASSUME NEW q \in Pages, label'[q] = "run", NEW x \in Slots,
               <<q, x>> \notin objects', x \notin freeList[q]
        PROVE  \E b \in Owners : /\ localRun[b] = q
                                 /\ x \in localFree[b] \cup freeListHeads[b]
    <3>1. label[q] = "run" /\ <<q, x>> \notin objects
      BY <2>1, <1>1, <1>5
    <3> QED
      BY <3>1, <2>1 DEF HInv, SlotInv
  <2>2. ASSUME NEW q \in Pages, NEW x \in freeList[q]
        PROVE  <<q, x>> \notin objects'
    <3>1. q # p /\ <<q, x>> \notin objects
      BY <2>2, <1>5 DEF HInv, SlotInv
    <3> QED
      BY <3>1, <1>1
  <2>3. ASSUME NEW b \in Owners, localRun[b] # None,
               NEW x \in localFree[b] \cup freeListHeads[b]
        PROVE  <<localRun[b], x>> \notin objects' /\ x \notin freeList[localRun[b]]
    <3>1. <<localRun[b], x>> \notin objects /\ x \notin freeList[localRun[b]]
      BY <2>3 DEF HInv, SlotInv
    <3>2. localRun[b] # p
      BY <1>5
    <3> QED
      BY <3>1, <3>2, <1>1
  <2> QED
    BY <2>1, <2>2, <2>3, <1>6 DEF SlotInv
<1>16. NonFullInv' /\ HolderInv' /\ LoneInv' /\ FullInv'
  <2>1. \A u \in Threads : ~(th[u].pc = "doSweep" /\ th[u].page = p)
    BY <1>5, NotSwept
  <2>2. nonFullRuns' \subseteq Pages /\ ~Holds(th[m]) /\ ~Holds(th'[m])
    BY <1>2, <1>4, <1>6, IdleFrees DEF TypeOK
  <2> QED
    BY <2>1, <2>2, <1>5, <1>6, <1>8, HoldChange
<1> QED
  BY <1>9, <1>10, <1>11, <1>12, <1>13, <1>14, <1>15, <1>16 DEF HInv

-----------------------------------------------------------------------------
(* Steps of the mutators: reference counting frees an object.              *)

LEMMA HeapFreeInternal ==
  ASSUME IInv, IInv', HInv, NEW m \in Mutators, NEW o \in Objs, FreeInternal(m, o)
  PROVE  HInv'
<1>1. PICK p : p = o[1]
  OBVIOUS
<1>2. PICK l : l = IF label[p] = "run" THEN "free" ELSE "freeLarge"
  OBVIOUS
<1> DEFINE r0 == [Rest EXCEPT !.slot = o[2]]
           r == CallSweep(r0, p, l)
<1>3. /\ th[m].pc = "idle" /\ o \in live /\ live' = live \ {o}
      /\ th' = [th EXCEPT ![m] = r]
      /\ UNCHANGED <<spaceVars, objects, runVars, localVars, globalLock, ctxVars,
                     taskVars, gcVars>>
  BY <1>1, <1>2 DEF FreeInternal, At, Set
<1>4. /\ LocalInv /\ LocalInv' /\ TypeOK /\ m \in Threads /\ m \in Owners
      /\ p \in Pages /\ o[2] \in Slots /\ o = <<p, o[2]>> /\ o \in objects
  <2>1. o \in objects
    BY <1>3 DEF HInv, MarkInv
  <2> QED
    BY <2>1, <1>1, MutatorIsThread DEF IInv, Objs
<1>5. /\ l \in CallRets /\ l \in {"free", "freeLarge"}
      /\ l = "free" <=> label[p] = "run"
      /\ l = "freeLarge" <=> label[p] = "large"
  <2>1. label[p] \in {"run", "large"}
    BY <1>1, <1>4 DEF HInv, SpaceInv, TypeOK
  <2> QED
    BY <2>1, <1>2 DEF CallRets
<1>6. r0 \in Locals /\ r0.slot = o[2]
  BY <1>4, RestRoles DEF Locals, Rest
<1>7. /\ r.page = p /\ r.slot = o[2] /\ ~r.freed /\ ~Sweeps(r)
      /\ r.pc # "freeRun" /\ ~Removes(r) /\ ~Allocating(r) /\ ~Revoking(r)
      /\ ~Seeks(r) /\ ~Fetched(r) /\ ~Holds(r) /\ Frees(r)
      /\ r.pc \in CallRets => ~Undone(p)
      /\ \A k \in CallRets : In(r, k) <=> k = l
  <2> HIDE DEF r, r0
  <2>1. r = CallSweep(r0, p, l)
    BY DEF r
  <2>2. l \notin {"local", "localise", "revoke"}
    BY <1>5
  <2> QED
    BY <2>1, <2>2, <1>4, <1>5, <1>6, CallsSweep
<1>8. /\ In(r, "free") <=> label[p] = "run"
      /\ In(r, "freeLarge") <=> label[p] = "large"
      /\ ~In(r, "local")
  BY <1>5, <1>7 DEF CallRets
<1> HIDE DEF r, r0
<1>9. th'[m] = r /\ \A u \in Threads \ {m} : th'[u] = th[u]
  BY <1>3, <1>4, Alone
<1>10. Idle(th[m])
  BY <1>3, IdleRoles
<1>11. MutatorMoves(m)
  BY <1>3, <1>7, <1>9, <1>10, IdleFrees DEF MutatorMoves, LabelsStay, spaceVars
<1>12. UNCHANGED <<label, marked, objects>>
  BY <1>3 DEF spaceVars, gcVars
<1>13. LabelInv' /\ SweepingInv' /\ ReturnInv' /\ FreshInv' /\ ProgressInv'
  BY <1>7, <1>9, <1>11, SweepFrame
<1>14. \A x : Freeing(m, x)' <=> x = o
  BY <1>4, <1>7, <1>9 DEF Freeing
<1>15. \A n \in Mutators \ {m} : \A x : Freeing(n, x)' <=> Freeing(n, x)
  BY <1>11, <1>12, OthersStay DEF Freeing
<1>16. \A x : ~Freeing(m, x)
  BY <1>10, IdleFrees
<1>17. \A x : InUse(x)' <=> InUse(x)
  BY <1>3, <1>14, <1>15, <1>16 DEF InUse
<1>18. FreeInv'
  <2>1. ASSUME NEW n \in Mutators, NEW x \in Objs, Freeing(n, x)'
        PROVE  x \in objects' /\ x \notin live'
    BY <2>1, <1>3, <1>4, <1>12, <1>14, <1>15 DEF HInv, FreeInv
  <2>2. \A n \in Mutators \ {m} : \A x \in Objs : Freeing(n, x)' => x # o
    BY <1>3, <1>15 DEF HInv, FreeInv
  <2>3. \A n, k \in Mutators : \A x \in Objs : Freeing(n, x)' /\ Freeing(k, x)' => n = k
    BY <2>2, <1>14, <1>15 DEF HInv, FreeInv
  <2>4. ASSUME NEW n \in Mutators
        PROVE  /\ In(th'[n], "free") => label'[th'[n].page] = "run"
               /\ In(th'[n], "freeLarge") => label'[th'[n].page] = "large"
               /\ th'[n].pc = "freeRun" /\ label'[th'[n].page] = "large"
                    => th'[n].slot = 1
    <3>1. CASE n = m
      BY <3>1, <1>7, <1>8, <1>9, <1>12
    <3>2. CASE n # m
      BY <3>2, <1>11, <1>12, OthersStay DEF HInv, FreeInv
    <3> QED
      BY <3>1, <3>2
  <2> QED
    BY <2>1, <2>3, <2>4 DEF FreeInv
<1>19. MarkInv'
  <2>1. /\ \A q : Undone(q)' <=> Undone(q)
        /\ live' \subseteq objects'
    BY <1>3, <1>11, <1>12, OthersStay DEF HInv, MarkInv
  <2> QED
    BY <2>1, <1>12, <1>17 DEF HInv, MarkInv
<1>20. DeadInv' /\ SweptInv' /\ LargeInv'
  <2>1. /\ \A w \in Workers : th'[w] = th[w]
        /\ \A q : Undone(q)' <=> Undone(q)
        /\ \A u \in Threads : th'[u].pc = "setSwept" => th'[u] = th[u]
    BY <1>11, OthersStay
  <2> QED
    BY <2>1, <1>4, <1>12, <1>17, DeadKept, SweptKept, LargeKept DEF HInv
<1>21. CallInv'
  <2>1. localRun[m] # None => useLocal[m]
    BY DEF HInv, CallInv
  <2>2. UNCHANGED <<localRun, useLocal, globalLock>>
    BY <1>3 DEF localVars
  <2> QED
    BY <2>1, <2>2, <1>7, <1>8, <1>9, <1>11, CallFrame
<1>22. OwnInv' /\ SlotInv' /\ SpaceInv'
  BY <1>3, OwnKept, SlotKept, SpaceKept
     DEF HInv, spaceVars, runVars, localVars, taskVars
<1>23. OffInv'
  BY <1>3, <1>11, OthersStay, OffKept DEF HInv, localVars
<1>24. NonFullInv' /\ HolderInv' /\ LoneInv' /\ FullInv'
  <2>1. SameHold(th[m], th'[m])
    BY <1>7, <1>9, <1>10 DEF SameHold, Idle
  <2> QED
    BY <2>1, <1>3, <1>11, <1>12, HoldFrame
<1> QED
  BY <1>13, <1>18, <1>19, <1>20, <1>21, <1>22, <1>23, <1>24 DEF HInv

(* A thread that frees a run, or a large object.                           *)
LEMMA FreeRunRoles ==
  ASSUME NEW r, r.pc = "freeRun"
  PROVE  /\ ~Allocating(r) /\ ~Revoking(r) /\ ~Seeks(r) /\ ~Frees(r) /\ ~Fetched(r)
         /\ ~In(r, "local") /\ ~In(r, "free") /\ ~In(r, "freeLarge") /\ ~Sweeps(r)
         /\ Removes(r) /\ Holds(r) /\ r.pc \notin UserPcs \cup {"tryInc"}
         /\ r.pc \notin CallRets
<1>1. Removes(r) /\ r.pc \notin SweepPcs \cup CallRets
  BY DEF Removes, SweepPcs, CallRets
<1> QED
  BY <1>1 DEF Allocating, Revoking, Seeks, Frees, Fetched, In, Sweeps, Holds,
     UserPcs, SweepPcs, CallRets

(* The object that mutator m frees is gone.                                *)
LEMMA FreedFrame ==
  ASSUME IInv, HInv, NEW m \in Mutators, MutatorMoves(m), UNCHANGED <<label, live>>,
         NEW o \in Objs, Freeing(m, o), objects' = objects \ {o},
         \A x : ~Freeing(m, x)',
         ~In(th'[m], "free"), ~In(th'[m], "freeLarge"),
         th'[m].pc = "freeRun" => label[th'[m].page] = "run"
  PROVE  FreeInv' /\ MarkInv' /\ DeadInv' /\ SweptInv' /\ LargeInv'
<1>1. /\ TypeOK /\ marked' = marked
      /\ \A w \in Workers : th'[w] = th[w]
      /\ \A n \in Mutators \ {m} : th'[n] = th[n]
      /\ \A p : Undone(p)' <=> Undone(p)
      /\ \A u \in Threads : th'[u].pc = "setSwept" => th'[u] = th[u]
  BY OthersStay DEF MutatorMoves, gcVars
<1>2. \A n \in Mutators \ {m} : \A x : Freeing(n, x)' <=> Freeing(n, x)
  BY <1>1 DEF Freeing
<1>3. \A n \in Mutators \ {m} : ~Freeing(n, o)
  BY DEF HInv, FreeInv
<1>4. \A x : Freeing(m, x) => x = o
  BY DEF Freeing
<1>5. \A x : x # o => (InUse(x)' <=> InUse(x))
  BY <1>2, <1>4 DEF InUse
<1>6. \A x : InUse(x)' => InUse(x)
  BY <1>2 DEF InUse
<1>7. o \notin live
  BY DEF HInv, FreeInv
<1>8. FreeInv'
  <2>1. ASSUME NEW n \in Mutators, NEW x \in Objs, Freeing(n, x)'
        PROVE  x \in objects' /\ x \notin live'
    <3>1. n # m /\ Freeing(n, x) /\ x # o
      BY <2>1, <1>2, <1>3
    <3> QED
      BY <3>1 DEF HInv, FreeInv
  <2>2. \A n, k \in Mutators : \A x \in Objs : Freeing(n, x)' /\ Freeing(k, x)' => n = k
    BY <1>2 DEF HInv, FreeInv
  <2>3. ASSUME NEW n \in Mutators
        PROVE  /\ In(th'[n], "free") => label'[th'[n].page] = "run"
               /\ In(th'[n], "freeLarge") => label'[th'[n].page] = "large"
               /\ th'[n].pc = "freeRun" /\ label'[th'[n].page] = "large"
                    => th'[n].slot = 1
    <3>1. CASE n = m
      BY <3>1
    <3>2. CASE n # m
      BY <3>2, <1>1 DEF HInv, FreeInv
    <3> QED
      BY <3>1, <3>2
  <2> QED
    BY <2>1, <2>2, <2>3 DEF FreeInv
<1>9. MarkInv'
  <2>1. live' \subseteq objects'
    BY <1>7 DEF HInv, MarkInv
  <2> QED
    BY <2>1, <1>1, <1>5 DEF HInv, MarkInv
<1>10. DeadInv'
  <2> SUFFICES ASSUME NEW x \in objects'
               PROVE  \/ Undone(x[1])' \/ InUse(x)'
                      \/ \E w \in Workers : th'[w].pc = "freeRun" /\ th'[w].page = x[1]
    BY DEF DeadInv
  <2>1. x \in objects /\ x # o
    OBVIOUS
  <2> QED
    BY <2>1, <1>1, <1>5 DEF HInv, DeadInv
<1>11. SweptInv' /\ LargeInv'
  BY <1>1, <1>6, SweptKept, LargeKept DEF HInv
<1> QED
  BY <1>8, <1>9, <1>10, <1>11

LEMMA HeapFreeFromRun ==
  ASSUME IInv, IInv', HInv, NEW m \in Mutators, FreeFromRun(m)
  PROVE  HInv'
<1>1. PICK p : p = th[m].page
  OBVIOUS
<1>2. PICK s : s = th[m].slot
  OBVIOUS
<1>3. PICK fl : fl = freeList[p] \cup {s}
  OBVIOUS
<1>4. /\ th[m].pc = "free" /\ objects' = objects \ {<<p, s>>}
      /\ UNCHANGED <<spaceVars, isLocal, useLocal, localRun, globalLock,
                     ctxVars, taskVars, gcVars, ops, live>>
  BY <1>1, <1>2 DEF FreeFromRun, At
<1>5. /\ LocalInv /\ LocalInv' /\ TypeOK /\ m \in Threads /\ m \in Owners /\ m # Global
  BY MutatorIsThread DEF IInv
<1>6. /\ Frees(th[m]) /\ In(th[m], "free") /\ ~Sweeps(th[m]) /\ ~Holds(th[m])
      /\ ~Allocating(th[m]) /\ th[m].pc \in CallRets
  BY <1>4 DEF Frees, In, Sweeps, Holds, Fetched, Removes, Allocating, CallRets, SweepPcs
<1>7. /\ p \in Pages /\ s \in Slots /\ <<p, s>> \in objects
      /\ Freeing(m, <<p, s>>) /\ label[p] = "run" /\ ~Undone(p)
      /\ <<p, s>> \in Objs
  <2>1. p \in Pages /\ s \in Slots /\ <<p, s>> \in objects /\ Freeing(m, <<p, s>>)
    BY <1>1, <1>2, <1>6, FreedThere
  <2>2. label[p] = "run"
    BY <1>1, <1>6 DEF HInv, FreeInv
  <2>3. ~Undone(p)
    BY <2>1, <1>1, <1>5, <1>6 DEF HInv, ReturnInv
  <2> QED
    BY <2>1, <2>2, <2>3 DEF Objs
<1>8. \A u \in Threads : ~(th[u].pc = "doSweep" /\ th[u].page = p)
  BY <1>7, NotSwept
<1>9. UNCHANGED <<label, avail, spaceEnd, buffer>>
  BY <1>4 DEF spaceVars, taskVars
<1>10. localRun[m] # None => useLocal[m]
  BY DEF HInv, CallInv
<1>11. CASE /\ localRun[m] = p
            /\ localFree' = [localFree EXCEPT ![m] = @ \cup freeListHeads[m] \cup {s}]
            /\ freeListHeads' = [freeListHeads EXCEPT ![m] = {}]
            /\ Set(m, Rest)
            /\ UNCHANGED <<freeList, nonFullRuns>>
  <2>1. th'[m] = Rest /\ \A u \in Threads \ {m} : th'[u] = th[u]
    BY <1>5, <1>11, Alone DEF Set
  <2>2. Idle(th'[m]) /\ th'[m].pc \notin UserPcs \cup {"tryInc"}
    BY <2>1, RestRoles
  <2>3. MutatorMoves(m)
    BY <2>1, <2>2, <1>4, <1>6, IdleFrees DEF MutatorMoves, LabelsStay, spaceVars
  <2>4. LabelInv' /\ SweepingInv' /\ ReturnInv' /\ FreshInv' /\ ProgressInv'
    BY <2>2, <2>3, SweepFrame DEF Idle
  <2>5. FreeInv' /\ MarkInv' /\ DeadInv' /\ SweptInv' /\ LargeInv'
    <3>1. \A x : ~Freeing(m, x)'
      BY <2>2, IdleFrees
    <3>2. ~In(th'[m], "free") /\ ~In(th'[m], "freeLarge") /\ th'[m].pc # "freeRun"
      BY <2>2 DEF Idle
    <3> QED
      BY <3>1, <3>2, <2>3, <1>4, <1>7, <1>9, FreedFrame
  <2>6. /\ localFree'[m] = localFree[m] \cup freeListHeads[m] \cup {s}
        /\ freeListHeads'[m] = {}
        /\ \A a \in Owners \ {m} :
             localFree'[a] = localFree[a] /\ freeListHeads'[a] = freeListHeads[a]
        /\ \A a \in Owners : localRun[a] = p => a = m
    <3>1. \A a \in Owners : localRun[a] = p => a = m
      BY <1>5, <1>7, <1>11, NoneIsNoPage DEF HInv, OwnInv
    <3> QED
      BY <3>1, <1>5, <1>11 DEF TypeOK
  <2>7. OwnInv'
    <3>1. (\A a \in Owners : localFree'[a] = {} \/ freeListHeads'[a] = {})
          /\ freeListHeads'[Global] = {}
      BY <2>6, <1>5, MutatorIsThread DEF HInv, OwnInv
    <3> QED
      BY <3>1, <1>4, <1>9 DEF HInv, OwnInv
  <2>8. CallInv'
    BY <2>2, <2>3, <1>4, <1>10, CallFrame DEF Idle
  <2>9. OffInv'
    <3>1. \A n \in Mutators : \A q \in Pages :
            localFree'[n] # {} /\ localRun[n] = q => ~Undone(q)
      BY <2>6, <1>7, <1>11, MutatorIsThread DEF HInv, OffInv
    <3> QED
      BY <3>1, <2>3, <1>4, OthersStay DEF OffInv
  <2>10. SpaceInv'
    BY <1>4, <1>9, <1>11, SpaceFrame
  <2>11. SlotInv'
    <3>1. ASSUME NEW q \in Pages, label[q] = "run", NEW x \in Slots,
                 <<q, x>> \notin objects', x \notin freeList[q]
          PROVE  \E b \in Owners : /\ localRun[b] = q
                                   /\ x \in localFree'[b] \cup freeListHeads'[b]
      <4>1. CASE <<q, x>> = <<p, s>>
        BY <4>1, <2>6, <1>5, <1>11
      <4>2. CASE <<q, x>> # <<p, s>>
        <5>1. <<q, x>> \notin objects
          BY <4>2, <3>1, <1>4
        <5>2. PICK b \in Owners : /\ localRun[b] = q
                                  /\ x \in localFree[b] \cup freeListHeads[b]
          BY <5>1, <3>1 DEF HInv, SlotInv
        <5>3. x \in localFree'[b] \cup freeListHeads'[b]
          BY <5>2, <2>6
        <5> QED
          BY <5>2, <5>3
      <4> QED
        BY <4>1, <4>2
    <3>2. \A q \in Pages : \A x \in freeList[q] : <<q, x>> \notin objects'
      BY <1>4 DEF HInv, SlotInv
    <3>3. ASSUME NEW b \in Owners, localRun[b] # None,
                 NEW x \in localFree'[b] \cup freeListHeads'[b]
          PROVE  <<localRun[b], x>> \notin objects' /\ x \notin freeList[localRun[b]]
      <4>1. CASE x \in localFree[b] \cup freeListHeads[b]
        BY <4>1, <3>3, <1>4 DEF HInv, SlotInv
      <4>2. CASE x \notin localFree[b] \cup freeListHeads[b]
        <5>1. b = m /\ x = s
          BY <4>2, <3>3, <2>6
        <5>2. s \notin freeList[p]
          BY <1>7 DEF HInv, SlotInv
        <5> QED
          BY <5>1, <5>2, <1>4, <1>11
      <4> QED
        BY <4>1, <4>2
    <3> QED
      BY <3>1, <3>2, <3>3, <1>4, <1>9, <1>11 DEF SlotInv
  <2>12. NonFullInv' /\ HolderInv' /\ LoneInv' /\ FullInv'
    <3>1. SameHold(th[m], th'[m])
      BY <2>2, <1>4, <1>6 DEF SameHold, Idle, Holds
    <3>2. UNCHANGED <<runVars, label>>
      BY <1>4, <1>9, <1>11 DEF runVars
    <3> QED
      BY <3>1, <3>2, <2>3, HoldFrame
  <2> QED
    BY <2>4, <2>5, <2>7, <2>8, <2>9, <2>10, <2>11, <2>12 DEF HInv
<1>12. CASE /\ localRun[m] # p
            /\ freeList' = [freeList EXCEPT ![p] = fl]
            /\ nonFullRuns' = NonFullAfterFree(p, freeList[p] = {}, fl)
            /\ Set(m, IF RemoveAfterFree(p, freeList[p] = {}, fl)
                      THEN [Rest EXCEPT !.pc = "freeRun", !.page = p]
                      ELSE Rest)
            /\ UNCHANGED <<localFree, freeListHeads>>
  <2>1. PICK r : r = IF RemoveAfterFree(p, freeList[p] = {}, fl)
                     THEN [Rest EXCEPT !.pc = "freeRun", !.page = p]
                     ELSE Rest
    OBVIOUS
  <2>2. th'[m] = r /\ \A u \in Threads \ {m} : th'[u] = th[u]
    BY <2>1, <1>5, <1>12, Alone DEF Set
  <2>3. \/ Idle(r) /\ r.pc = "idle" /\ ~RemoveAfterFree(p, freeList[p] = {}, fl)
        \/ r.pc = "freeRun" /\ r.page = p /\ RemoveAfterFree(p, freeList[p] = {}, fl)
    BY <2>1, RestRoles DEF Rest
  <2>4. /\ ~Allocating(r) /\ ~Revoking(r) /\ ~Seeks(r) /\ ~Frees(r) /\ ~Fetched(r)
        /\ ~In(r, "local") /\ ~In(r, "free") /\ ~In(r, "freeLarge") /\ ~Sweeps(r)
        /\ r.pc \notin UserPcs \cup {"tryInc"} /\ r.pc \notin CallRets
        /\ Holds(r) <=> RemoveAfterFree(p, freeList[p] = {}, fl)
        /\ r.pc = "freeRun" => r.page = p
        /\ Holds(r) => r.page = p
    <3>1. CASE Idle(r) /\ r.pc = "idle" /\ ~RemoveAfterFree(p, freeList[p] = {}, fl)
      BY <3>1 DEF Idle, UserPcs
    <3>2. CASE r.pc = "freeRun" /\ r.page = p /\ RemoveAfterFree(p, freeList[p] = {}, fl)
      BY <3>2, FreeRunRoles
    <3> QED
      BY <3>1, <3>2, <2>3
  <2>5. MutatorMoves(m)
    BY <2>2, <2>4, <1>4, <1>6 DEF MutatorMoves, LabelsStay, spaceVars
  <2>6. LabelInv' /\ SweepingInv' /\ ReturnInv' /\ FreshInv' /\ ProgressInv'
    BY <2>2, <2>4, <2>5, <1>7, SweepFrame
  <2>7. FreeInv' /\ MarkInv' /\ DeadInv' /\ SweptInv' /\ LargeInv'
    <3>1. r.pc = "freeRun" => label[r.page] = "run"
      BY <2>4, <1>7
    <3>2. \A x : ~Freeing(m, x)'
      BY <3>1, <2>2, <2>4, <1>9 DEF Freeing
    <3> QED
      BY <3>1, <3>2, <2>2, <2>4, <2>5, <1>4, <1>7, <1>9, FreedFrame
  <2>8. freeList'[p] = fl /\ \A q \in Pages \ {p} : freeList'[q] = freeList[q]
    BY <1>5, <1>7, <1>12 DEF TypeOK
  <2>9. OwnInv'
    BY <1>4, <1>9, <1>12, OwnKept DEF HInv
  <2>10. CallInv'
    BY <2>2, <2>4, <2>5, <1>4, <1>10, CallFrame
  <2>11. OffInv'
    BY <2>5, <1>4, <1>12, OthersStay, OffKept DEF HInv
  <2>12. SpaceInv'
    <3>1. \A q \in Pages : label[q] # "run" => freeList'[q] = freeList[q]
      BY <2>8, <1>7
    <3> QED
      BY <3>1, <1>4, <1>9, SpaceFrame
  <2>13. SlotInv'
    <3>1. ASSUME NEW q \in Pages, label[q] = "run", NEW x \in Slots,
                 <<q, x>> \notin objects', x \notin freeList'[q]
          PROVE  \E b \in Owners : /\ localRun[b] = q
                                   /\ x \in localFree[b] \cup freeListHeads[b]
      <4>1. <<q, x>> # <<p, s>> /\ x \notin freeList[q]
        BY <3>1, <2>8, <1>3
      <4>2. <<q, x>> \notin objects
        BY <4>1, <3>1, <1>4
      <4> QED
        BY <4>1, <4>2, <3>1 DEF HInv, SlotInv
    <3>2. ASSUME NEW q \in Pages, NEW x \in freeList'[q]
          PROVE  <<q, x>> \notin objects'
      <4>1. CASE x \in freeList[q]
        BY <4>1, <1>4 DEF HInv, SlotInv
      <4>2. CASE x \notin freeList[q]
        BY <4>2, <3>2, <2>8, <1>3, <1>4
      <4> QED
        BY <4>1, <4>2
    <3>3. ASSUME NEW b \in Owners, localRun[b] # None,
                 NEW x \in localFree[b] \cup freeListHeads[b]
          PROVE  <<localRun[b], x>> \notin objects' /\ x \notin freeList'[localRun[b]]
      <4>1. <<localRun[b], x>> \notin objects /\ x \notin freeList[localRun[b]]
        BY <3>3 DEF HInv, SlotInv
      <4>2. localRun[b] = p => x # s
        BY <4>1, <1>7
      <4>3. localRun[b] \in Pages
        BY <3>3, <1>5 DEF TypeOK
      <4> QED
        BY <4>1, <4>2, <4>3, <2>8, <1>3, <1>4
    <3> QED
      BY <3>1, <3>2, <3>3, <1>4, <1>9, <1>12 DEF SlotInv
  <2>14. NonFullInv' /\ HolderInv' /\ LoneInv' /\ FullInv'
    <3>1. /\ \A u \in Threads : Holds(th[u]) /\ th[u].page = p =>
               /\ ~isLocal[p] /\ p \notin nonFullRuns /\ freeList[p] # {}
               /\ Fetched(th[u]) \/ freeList[p] = Slots
               /\ Removes(th[u]) => freeList[p] = Slots
      <4>1. Slots # {}
        BY SlotExists
      <4> QED
        BY <4>1, <1>7 DEF HInv, HolderInv, NonFullInv, Holds
    <3>2. p \in nonFullRuns => ~isLocal[p] /\ freeList[p] # {}
      BY DEF HInv, NonFullInv
    <3>3. /\ freeList[p] # {} /\ p \notin nonFullRuns /\ ~isLocal[p]
          /\ \A u \in Threads : ~(Holds(th[u]) /\ th[u].page = p)
          => \E u \in Threads : th[u].pc = "doSweep" /\ th[u].page = p /\ th[u].full
      BY <1>7 DEF HInv, LoneInv
    <3>4. fl # {} /\ (freeList[p] = Slots => fl = Slots)
      BY <1>3, <1>7
    <3>5. nonFullRuns \subseteq Pages
      BY <1>5 DEF TypeOK
    <3>6. /\ nonFullRuns' \subseteq Pages
          /\ \A q \in Pages \ {p} : q \in nonFullRuns' <=> q \in nonFullRuns
          /\ p \in nonFullRuns' <=>
               /\ ~isLocal[p] /\ fl # Slots
               /\ freeList[p] = {} \/ p \in nonFullRuns
      BY <3>2, <3>4, <3>5, <1>7, <1>12 DEF NonFullAfterFree
    <3>7. Holds(r) <=> /\ ~isLocal[p] /\ fl = Slots
                       /\ p \in nonFullRuns \/ freeList[p] = {}
      BY <2>4 DEF RemoveAfterFree
    <3>8. /\ isLocal' = isLocal /\ label' = label /\ freeList'[p] = fl
          /\ \A q \in Pages \ {p} : freeList'[q] = freeList[q]
      BY <2>8, <1>4, <1>9
    <3>9. p \in nonFullRuns' =>
           /\ label'[p] = "run" /\ freeList'[p] # {} /\ ~isLocal'[p]
           /\ ~Holds(th'[m])
           /\ \A u \in Threads \ {m} : ~(Holds(th[u]) /\ th[u].page = p)
      BY <3>1, <3>4, <3>6, <3>7, <3>8, <2>2, <1>7
    <3>10. Holds(th'[m]) =>
           /\ label'[p] # "free" /\ ~isLocal'[p]
           /\ Fetched(th'[m]) => label'[p] = "run" /\ freeList'[p] # {}
           /\ Removes(th'[m]) /\ label'[p] = "run" => freeList'[p] = Slots
           /\ \A u \in Threads \ {m} : ~(Holds(th[u]) /\ th[u].page = p)
      BY <3>1, <3>4, <3>7, <3>8, <2>2, <1>7
    <3>11. \A u \in Threads \ {m} : Holds(th[u]) /\ th[u].page = p =>
           /\ label'[p] # "free" /\ ~isLocal'[p]
           /\ Fetched(th[u]) => label'[p] = "run" /\ freeList'[p] # {}
           /\ Removes(th[u]) /\ label'[p] = "run" => freeList'[p] = Slots
      BY <3>1, <3>4, <3>8, <1>7
    <3>12. /\ label'[p] = "run" /\ freeList'[p] # {}
           /\ p \notin nonFullRuns' /\ ~isLocal'[p] /\ ~Holds(th'[m])
           /\ \A u \in Threads \ {m} : ~(Holds(th[u]) /\ th[u].page = p)
           => \E u \in Threads : th[u].pc = "doSweep" /\ th[u].page = p /\ th[u].full
      BY <3>3, <3>6, <3>7, <3>8, <2>2, <1>6
    <3> QED
      BY <3>6, <3>8, <3>9, <3>10, <3>11, <3>12, <2>2, <2>4, <2>5, <1>6, <1>7, <1>8,
         HoldChange
  <2> QED
    BY <2>6, <2>7, <2>9, <2>10, <2>11, <2>12, <2>13, <2>14 DEF HInv
<1> QED
  BY <1>1, <1>2, <1>3, <1>11, <1>12 DEF FreeFromRun

LEMMA HeapFreeLargeObj ==
  ASSUME IInv, IInv', HInv, NEW m \in Mutators, FreeLargeObj(m)
  PROVE  HInv'
<1>1. PICK p : p = th[m].page
  OBVIOUS
<1>2. PICK r : r = [Rest EXCEPT !.pc = "freeRun", !.page = p]
  OBVIOUS
<1>3. /\ th[m].pc = "freeLarge" /\ th' = [th EXCEPT ![m] = r]
      /\ UNCHANGED <<spaceVars, objects, runVars, localVars, globalLock, ctxVars,
                     taskVars, gcVars, ops, live>>
  BY <1>1, <1>2 DEF FreeLargeObj, At, Set
<1>4. /\ LocalInv /\ LocalInv' /\ TypeOK /\ m \in Threads /\ m \in Owners /\ m # Global
  BY MutatorIsThread DEF IInv
<1>5. r.pc = "freeRun" /\ r.page = p /\ r.slot = 1
  BY <1>2 DEF Rest
<1>6. /\ ~Allocating(r) /\ ~Revoking(r) /\ ~Seeks(r) /\ ~Frees(r) /\ ~Fetched(r)
      /\ ~In(r, "local") /\ ~In(r, "free") /\ ~In(r, "freeLarge") /\ ~Sweeps(r)
      /\ Removes(r) /\ Holds(r) /\ r.pc \notin UserPcs \cup {"tryInc"}
      /\ r.pc \notin CallRets
  BY <1>5, FreeRunRoles
<1>7. /\ Frees(th[m]) /\ In(th[m], "freeLarge") /\ ~Sweeps(th[m]) /\ ~Holds(th[m])
      /\ th[m].pc \in CallRets
  BY <1>3 DEF Frees, In, Sweeps, Holds, Fetched, Removes, CallRets, SweepPcs
<1>8. th'[m] = r /\ \A u \in Threads \ {m} : th'[u] = th[u]
  BY <1>3, <1>4, Alone
<1>9. /\ p \in Pages /\ th[m].slot = 1 /\ label[p] = "large" /\ ~Undone(p)
      /\ <<p, 1>> \in objects /\ Freeing(m, <<p, 1>>) /\ <<p, 1>> \in Objs
  <2>1. /\ p \in Pages /\ <<p, th[m].slot>> \in objects
        /\ Freeing(m, <<p, th[m].slot>>) /\ th[m].slot \in Slots
    BY <1>1, <1>7, FreedThere
  <2>2. label[p] = "large"
    BY <1>1, <1>7 DEF HInv, FreeInv
  <2>3. th[m].slot = 1
    BY <2>1, <2>2 DEF HInv, SpaceInv
  <2>4. ~Undone(p)
    BY <2>1, <1>1, <1>4, <1>7 DEF HInv, ReturnInv
  <2> QED
    BY <2>1, <2>2, <2>3, <2>4 DEF Objs
<1>10. MutatorMoves(m)
  BY <1>3, <1>6, <1>7, <1>8 DEF MutatorMoves, LabelsStay, spaceVars
<1>11. UNCHANGED <<label, localRun, useLocal, freeList, nonFullRuns, isLocal>>
  BY <1>3 DEF spaceVars, runVars, localVars
<1>12. LabelInv' /\ SweepingInv' /\ ReturnInv' /\ FreshInv' /\ ProgressInv'
  BY <1>5, <1>6, <1>8, <1>9, <1>10, SweepFrame
<1>13. FreeInv' /\ MarkInv' /\ DeadInv' /\ SweptInv' /\ LargeInv'
  <2>1. \A x : Freeing(m, x)' <=> Freeing(m, x)
    BY <1>1, <1>5, <1>7, <1>8, <1>9, <1>11 DEF Freeing
  <2> QED
    BY <2>1, <1>3, <1>5, <1>6, <1>8, <1>10, UseSame
<1>14. OwnInv' /\ SlotInv' /\ SpaceInv'
  BY <1>3, OwnKept, SlotKept, SpaceKept
     DEF HInv, spaceVars, runVars, localVars, taskVars
<1>15. OffInv'
  BY <1>3, <1>10, OthersStay, OffKept DEF HInv, localVars
<1>16. CallInv'
  <2>1. localRun[m] # None => useLocal[m]
    BY DEF HInv, CallInv
  <2> QED
    BY <2>1, <1>3, <1>6, <1>8, <1>10, <1>11, CallFrame
<1>17. \A u \in Threads \ {m} : ~(Holds(th[u]) /\ th[u].page = p)
  <2> SUFFICES ASSUME NEW u \in Threads \ {m}, Holds(th[u]), th[u].page = p
               PROVE  FALSE
    OBVIOUS
  <2>1. Removes(th[u])
    BY <1>9 DEF HInv, HolderInv, Holds
  <2>2. CASE u \in Workers
    <3>1. ~InUse(<<p, 1>>)
      BY <2>1, <2>2, <1>9 DEF HInv, LargeInv
    <3> QED
      BY <3>1, <1>9 DEF InUse
  <2>3. CASE u \in Mutators
    <3>1. th[u].pc = "freeRun"
      BY <2>1, <2>3, MutatorIsThread DEF Removes, HInv, SweptInv
    <3>2. th[u].slot = 1
      BY <3>1, <2>3, <1>9 DEF HInv, FreeInv
    <3>3. Freeing(u, <<p, 1>>)
      BY <3>1, <3>2, <1>9 DEF Freeing
    <3> QED
      BY <3>3, <2>3, <1>9 DEF HInv, FreeInv
  <2> QED
    BY <2>2, <2>3 DEF Threads
<1>18. NonFullInv' /\ HolderInv' /\ LoneInv' /\ FullInv'
  <2>1. \A u \in Threads : ~(th[u].pc = "doSweep" /\ th[u].page = p)
    BY <1>9, NotSwept
  <2>2. p \notin nonFullRuns /\ nonFullRuns' \subseteq Pages
    BY <1>4, <1>9, <1>11 DEF HInv, NonFullInv, TypeOK
  <2>3. ~isLocal[p]
    BY <1>9, NoneIsNoPage DEF HInv, OwnInv
  <2> QED
    BY <2>1, <2>2, <2>3, <1>5, <1>6, <1>7, <1>8, <1>9, <1>10, <1>11, <1>17, HoldChange
<1> QED
  BY <1>12, <1>13, <1>14, <1>15, <1>16, <1>18 DEF HInv

-----------------------------------------------------------------------------
(* Steps of the mutators: threads that end and begin.                      *)

LEMMA HeapRevokeLocalRuns ==
  ASSUME IInv, IInv', HInv, NEW m \in Mutators, RevokeLocalRuns(m)
  PROVE  HInv'
<1> DEFINE r == IF localRun[m] = None THEN [Rest EXCEPT !.pc = "absent"]
                ELSE CallSweep(Rest, localRun[m], "revoke")
<1>1. /\ th[m].pc = "idle" /\ th' = [th EXCEPT ![m] = r]
      /\ useLocal' = [useLocal EXCEPT ![m] = useLocal[m] /\ localRun[m] # None]
      /\ UNCHANGED <<spaceVars, objects, runVars, localRun, localFree,
                     freeListHeads, globalLock, ctxVars, taskVars, gcVars, live>>
  BY DEF RevokeLocalRuns, At, Set
<1>2. LocalInv /\ LocalInv' /\ TypeOK /\ m \in Threads /\ m \in Owners
  BY MutatorIsThread DEF IInv
<1>3. th'[m] = r /\ \A u \in Threads \ {m} : th'[u] = th[u]
  BY <1>1, <1>2, Alone
<1>4. /\ ~Allocating(r) /\ ~Seeks(r) /\ ~Holds(r) /\ ~Sweeps(r) /\ ~Fetched(r)
      /\ ~Removes(r) /\ ~Frees(r) /\ ~In(r, "local") /\ ~In(r, "free")
      /\ ~In(r, "freeLarge") /\ r.pc # "freeRun"
      /\ r.pc \in UserPcs \cup {"tryInc"} => ~r.freed
      /\ r.pc \in CallRets => \A p \in Pages : r.page = p => ~Undone(p)
      /\ Revoking(r) => r.page = localRun[m]
  <2>1. CASE localRun[m] = None
    <3>1. r = [Rest EXCEPT !.pc = "absent"]
      BY <2>1
    <3>2. Idle(r) /\ r.pc \notin UserPcs \cup {"tryInc"}
      BY <3>1, RestRoles
    <3> HIDE DEF r
    <3> QED
      BY <3>2 DEF Idle
  <2>2. CASE localRun[m] # None
    <3>1. localRun[m] \in Pages /\ Rest \in Locals
      BY <2>2, <1>2, RestRoles DEF TypeOK
    <3>2. r = CallSweep(Rest, localRun[m], "revoke")
      BY <2>2
    <3>3. /\ "revoke" \in CallRets /\ "local" \in CallRets
          /\ "free" \in CallRets /\ "freeLarge" \in CallRets
      BY DEF CallRets
    <3> HIDE DEF r
    <3> QED
      BY <3>1, <3>2, <3>3, CallsSweep
  <2> QED
    BY <2>1, <2>2
<1> HIDE DEF r
<1>5. Idle(th[m])
  BY <1>1, IdleRoles
<1>6. MutatorMoves(m)
  BY <1>1, <1>3, <1>4, <1>5, IdleFrees DEF MutatorMoves, LabelsStay, spaceVars
<1>7. LabelInv' /\ SweepingInv' /\ ReturnInv' /\ FreshInv' /\ ProgressInv'
  BY <1>3, <1>4, <1>6, SweepFrame
<1>8. FreeInv' /\ MarkInv' /\ DeadInv' /\ SweptInv' /\ LargeInv'
  <2>1. \A o : ~Freeing(m, o)' /\ ~Freeing(m, o)
    BY <1>3, <1>4, <1>5, IdleFrees DEF Freeing
  <2> QED
    BY <2>1, <1>1, <1>3, <1>4, <1>6, UseSame
<1>9. OwnInv' /\ SlotInv' /\ SpaceInv'
  BY <1>1, OwnKept, SlotKept, SpaceKept DEF HInv, spaceVars, runVars, taskVars
<1>10. OffInv'
  BY <1>1, <1>6, OthersStay, OffKept DEF HInv
<1>11. CallInv'
  <2>1. /\ \A n \in Mutators \ {m} : useLocal'[n] = useLocal[n]
        /\ useLocal'[m] <=> useLocal[m] /\ localRun[m] # None
    BY <1>1, <1>2 DEF TypeOK
  <2>2. localRun[m] # None => useLocal'[m]
    BY <2>1 DEF HInv, CallInv
  <2> QED
    BY <2>1, <2>2, <1>1, <1>3, <1>4, <1>6, CallFrame
<1>12. NonFullInv' /\ HolderInv' /\ LoneInv' /\ FullInv'
  <2>1. SameHold(th[m], th'[m])
    BY <1>3, <1>4, <1>5 DEF SameHold, Idle
  <2> QED
    BY <2>1, <1>1, <1>6, HoldFrame DEF spaceVars
<1> QED
  BY <1>7, <1>8, <1>9, <1>10, <1>11, <1>12 DEF HInv

LEMMA HeapRevokeLocalRun ==
  ASSUME IInv, IInv', HInv, NEW m \in Mutators, RevokeLocalRun(m)
  PROVE  HInv'
<1>1. PICK p : p = localRun[m]
  OBVIOUS
<1>2. PICK fl : fl = freeList[p] \cup localFree[m] \cup freeListHeads[m]
  OBVIOUS
<1>3. PICK remove \in BOOLEAN : remove <=> fl = Slots /\ gcPc # "mark"
  OBVIOUS
<1>4. PICK r : r = IF remove THEN [Rest EXCEPT !.pc = "freeRun", !.page = p,
                                               !.ret = "absent"]
                   ELSE [Rest EXCEPT !.pc = "absent"]
  OBVIOUS
<1>5. /\ th[m].pc = "revoke" /\ th' = [th EXCEPT ![m] = r]
      /\ freeList' = [freeList EXCEPT ![p] = fl]
      /\ localFree' = [localFree EXCEPT ![m] = {}]
      /\ freeListHeads' = [freeListHeads EXCEPT ![m] = {}]
      /\ isLocal' = [isLocal EXCEPT ![p] = FALSE]
      /\ localRun' = [localRun EXCEPT ![m] = None]
      /\ useLocal' = [useLocal EXCEPT ![m] = FALSE]
      /\ nonFullRuns' = IF remove \/ fl = {} THEN nonFullRuns
                                             ELSE nonFullRuns \cup {p}
      /\ UNCHANGED <<spaceVars, objects, globalLock, ctxVars, taskVars, gcVars,
                     ops, live>>
  BY <1>1, <1>2, <1>3, <1>4 DEF RevokeLocalRun, At, Set
<1>6. /\ LocalInv /\ LocalInv' /\ RunInv /\ TypeOK /\ m \in Threads /\ m \in Owners
      /\ m # Global
  BY MutatorIsThread DEF IInv
<1>7. th'[m] = r /\ \A u \in Threads \ {m} : th'[u] = th[u]
  BY <1>5, <1>6, Alone
<1>8. /\ Revoking(th[m]) /\ ~Sweeps(th[m]) /\ ~Holds(th[m]) /\ ~Frees(th[m])
      /\ th[m].pc # "freeRun" /\ th[m].pc \in CallRets
  BY <1>5 DEF Revoking, Sweeps, Holds, Fetched, Removes, Frees, In, CallRets, SweepPcs
<1>9. /\ p \in Pages /\ p # None /\ label[p] = "run" /\ isLocal[p] /\ ~Undone(p)
      /\ \A a \in Owners : localRun[a] = p => a = m
  <2>1. p \in Pages /\ p # None
    BY <1>1, <1>6, <1>8 DEF RunInv, TypeOK
  <2>2. label[p] = "run" /\ isLocal[p] /\ \A a \in Owners : localRun[a] = p => a = m
    BY <2>1, <1>1, <1>6 DEF HInv, OwnInv
  <2>3. th[m].page = p
    BY <1>1, <1>8 DEF HInv, CallInv
  <2>4. ~Undone(p)
    BY <2>1, <2>3, <1>6, <1>8 DEF HInv, ReturnInv
  <2> QED
    BY <2>1, <2>2, <2>4
<1>10. p \notin nonFullRuns /\ \A u \in Threads : ~(Holds(th[u]) /\ th[u].page = p)
  BY <1>9 DEF HInv, NonFullInv, HolderInv
<1>11. /\ ~Allocating(r) /\ ~Revoking(r) /\ ~Seeks(r) /\ ~Frees(r) /\ ~Fetched(r)
       /\ ~In(r, "local") /\ ~In(r, "free") /\ ~In(r, "freeLarge") /\ ~Sweeps(r)
       /\ r.pc \notin UserPcs \cup {"tryInc"} /\ r.pc \notin CallRets
       /\ Holds(r) <=> remove
       /\ r.pc = "freeRun" => r.page = p
       /\ Holds(r) => r.page = p
  <2>1. CASE remove
    <3>1. r.pc = "freeRun" /\ r.page = p
      BY <2>1, <1>4 DEF Rest
    <3> QED
      BY <3>1, <2>1, FreeRunRoles
  <2>2. CASE ~remove
    <3>1. r = [Rest EXCEPT !.pc = "absent"]
      BY <2>2, <1>4
    <3>2. Idle(r) /\ r.pc \notin UserPcs \cup {"tryInc"}
      BY <3>1, RestRoles
    <3> QED
      BY <3>2, <2>2 DEF Idle
  <2> QED
    BY <2>1, <2>2
<1>12. /\ freeList'[p] = fl /\ \A q \in Pages \ {p} : freeList'[q] = freeList[q]
       /\ ~isLocal'[p] /\ \A q \in Pages \ {p} : isLocal'[q] = isLocal[q]
       /\ localRun'[m] = None /\ localFree'[m] = {} /\ freeListHeads'[m] = {}
       /\ \A a \in Owners \ {m} :
            /\ localRun'[a] = localRun[a] /\ localFree'[a] = localFree[a]
            /\ freeListHeads'[a] = freeListHeads[a]
       /\ ~useLocal'[m] /\ \A n \in Mutators \ {m} : useLocal'[n] = useLocal[n]
  BY <1>5, <1>6, <1>9 DEF TypeOK
<1>13. UNCHANGED <<label, avail, spaceEnd, buffer>>
  BY <1>5 DEF spaceVars, taskVars
<1>14. MutatorMoves(m)
  BY <1>5, <1>7, <1>8, <1>11 DEF MutatorMoves, LabelsStay, spaceVars
<1>15. LabelInv' /\ SweepingInv' /\ ReturnInv' /\ FreshInv' /\ ProgressInv'
  BY <1>7, <1>9, <1>11, <1>14, SweepFrame
<1>16. FreeInv' /\ MarkInv' /\ DeadInv' /\ SweptInv' /\ LargeInv'
  <2>1. r.pc = "freeRun" => label[r.page] # "large"
    BY <1>9, <1>11
  <2>2. \A o : ~Freeing(m, o)' /\ ~Freeing(m, o)
    BY <2>1, <1>7, <1>8, <1>11, <1>13 DEF Freeing
  <2> QED
    BY <2>1, <2>2, <1>5, <1>7, <1>11, <1>13, <1>14, UseSame
<1>17. OwnInv'
  <2>1. \A a \in Owners : localRun'[a] # None =>
          a # m /\ localRun'[a] = localRun[a]
    BY <1>12
  <2>2. (\A a \in Owners : localRun'[a] # None => label[localRun'[a]] = "run")
        /\ \A a, b \in Owners : localRun'[a] = localRun'[b] /\ localRun'[a] # None => a = b
    BY <2>1 DEF HInv, OwnInv
  <2>3. ASSUME NEW q \in Pages
        PROVE  isLocal'[q] <=> \E a \in Owners : localRun'[a] = q
    <3>1. isLocal[q] <=> \E a \in Owners : localRun[a] = q
      BY DEF HInv, OwnInv
    <3>2. q # None
      BY NoneIsNoPage
    <3> QED
      BY <3>1, <3>2, <1>1, <1>9, <1>12
  <2>4. (\A a \in Owners : localFree'[a] = {} \/ freeListHeads'[a] = {})
        /\ freeListHeads'[Global] = {}
    BY <1>6, <1>12, MutatorIsThread DEF HInv, OwnInv
  <2> QED
    BY <2>2, <2>3, <2>4, <1>13 DEF OwnInv
<1>18. CallInv'
  <2>1. /\ \A n \in Mutators \ {m} : localRun'[n] = localRun[n] /\ useLocal'[n] = useLocal[n]
        /\ localRun'[Global] = localRun[Global]
    BY <1>6, <1>12, MutatorIsThread
  <2> QED
    BY <2>1, <1>5, <1>7, <1>11, <1>12, <1>14, CallFrame
<1>19. OffInv'
  <2>1. \A n \in Mutators : \A q \in Pages :
          localFree'[n] # {} /\ localRun'[n] = q => ~Undone(q)
    BY <1>12, MutatorIsThread DEF HInv, OffInv
  <2> QED
    BY <2>1, <1>14, OthersStay DEF OffInv
<1>20. SpaceInv'
  <2>1. \A q \in Pages : label[q] # "run" => freeList'[q] = freeList[q]
    BY <1>9, <1>12
  <2> QED
    BY <2>1, <1>5, <1>13, SpaceFrame
<1>21. SlotInv'
  <2>1. ASSUME NEW q \in Pages, label[q] = "run", NEW x \in Slots,
               <<q, x>> \notin objects, x \notin freeList'[q]
        PROVE  \E b \in Owners : /\ localRun'[b] = q
                                 /\ x \in localFree'[b] \cup freeListHeads'[b]
    <3>1. x \notin freeList[q]
      BY <2>1, <1>2, <1>12
    <3>2. PICK b \in Owners : localRun[b] = q /\ x \in localFree[b] \cup freeListHeads[b]
      BY <3>1, <2>1 DEF HInv, SlotInv
    <3>3. b # m
      BY <3>2, <2>1, <1>1, <1>2, <1>12
    <3> QED
      BY <3>2, <3>3, <1>12
  <2>2. ASSUME NEW q \in Pages, NEW x \in freeList'[q]
        PROVE  <<q, x>> \notin objects
    <3>1. CASE x \in freeList[q]
      BY <3>1 DEF HInv, SlotInv
    <3>2. CASE x \notin freeList[q]
      <4>1. q = p /\ x \in localFree[m] \cup freeListHeads[m]
        BY <3>2, <2>2, <1>2, <1>12
      <4> QED
        BY <4>1, <1>1, <1>6, <1>9 DEF HInv, SlotInv
    <3> QED
      BY <3>1, <3>2
  <2>3. ASSUME NEW b \in Owners, localRun'[b] # None,
               NEW x \in localFree'[b] \cup freeListHeads'[b]
        PROVE  <<localRun'[b], x>> \notin objects /\ x \notin freeList'[localRun'[b]]
    <3>1. b # m /\ localRun'[b] = localRun[b] /\ localRun[b] \in Pages \ {p}
      BY <2>3, <1>6, <1>9, <1>12 DEF TypeOK
    <3>2. x \in localFree[b] \cup freeListHeads[b]
      BY <3>1, <2>3, <1>12
    <3>3. <<localRun[b], x>> \notin objects /\ x \notin freeList[localRun[b]]
      BY <3>1, <3>2, NoneIsNoPage DEF HInv, SlotInv
    <3> QED
      BY <3>1, <3>3, <1>12
  <2> QED
    BY <2>1, <2>2, <2>3, <1>5, <1>13 DEF SlotInv
<1>22. NonFullInv' /\ HolderInv' /\ LoneInv' /\ FullInv'
  <2>1. \A u \in Threads : ~(th[u].pc = "doSweep" /\ th[u].page = p)
    BY <1>9, NotSwept
  <2>2. /\ nonFullRuns' \subseteq Pages
        /\ \A q \in Pages \ {p} : q \in nonFullRuns' <=> q \in nonFullRuns
        /\ p \in nonFullRuns' <=> ~remove /\ fl # {}
    BY <1>5, <1>6, <1>9, <1>10 DEF TypeOK
  <2>3. remove => fl = Slots
    BY <1>3
  <2> QED
    BY <2>1, <2>2, <2>3, <1>7, <1>8, <1>9, <1>10, <1>11, <1>12, <1>13, <1>14, HoldChange
<1> QED
  BY <1>15, <1>16, <1>17, <1>18, <1>19, <1>20, <1>21, <1>22 DEF HInv

LEMMA HeapAddAllocMutator ==
  ASSUME IInv, IInv', HInv, NEW m \in Mutators, AddAllocMutator(m)
  PROVE  HInv'
<1>1. /\ th[m].pc = "absent" /\ th' = [th EXCEPT ![m] = Rest]
      /\ UNCHANGED <<spaceVars, objects, runVars, localVars, globalLock, ctxVars,
                     taskVars, gcVars, ops, live>>
  BY DEF AddAllocMutator, At, Set
<1>2. LocalInv /\ LocalInv' /\ m \in Threads /\ m \in Owners
  BY MutatorIsThread DEF IInv
<1>3. th'[m] = Rest /\ \A u \in Threads \ {m} : th'[u] = th[u]
  BY <1>1, <1>2, Alone
<1>4. Idle(th[m]) /\ Idle(th'[m]) /\ th'[m].pc \notin UserPcs \cup {"tryInc"}
  BY <1>1, <1>3, IdleRoles, RestRoles
<1>5. MutatorMoves(m)
  BY <1>1, <1>3, <1>4, IdleFrees DEF MutatorMoves, LabelsStay, spaceVars
<1>6. LabelInv' /\ SweepingInv' /\ ReturnInv' /\ FreshInv' /\ ProgressInv'
  BY <1>4, <1>5, SweepFrame DEF Idle
<1>7. FreeInv' /\ MarkInv' /\ DeadInv' /\ SweptInv' /\ LargeInv'
  <2>1. \A o : Freeing(m, o)' <=> Freeing(m, o)
    BY <1>4, IdleFrees
  <2>2. ~In(th'[m], "free") /\ ~In(th'[m], "freeLarge") /\ th'[m].pc # "freeRun"
    BY <1>4 DEF Idle
  <2> QED
    BY <2>1, <2>2, <1>1, <1>5, UseSame
<1>8. OwnInv' /\ SlotInv' /\ SpaceInv'
  BY <1>1, OwnKept, SlotKept, SpaceKept
     DEF HInv, spaceVars, runVars, localVars, taskVars
<1>9. OffInv'
  BY <1>1, <1>5, OthersStay, OffKept DEF HInv, localVars
<1>10. CallInv'
  <2>1. localRun[m] # None => useLocal[m]
    BY DEF HInv, CallInv
  <2>2. UNCHANGED <<localRun, useLocal, globalLock>>
    BY <1>1 DEF localVars
  <2> QED
    BY <2>1, <2>2, <1>4, <1>5, CallFrame DEF Idle
<1>11. NonFullInv' /\ HolderInv' /\ LoneInv' /\ FullInv'
  BY <1>1, <1>4, <1>5, IdleSame, HoldFrame DEF Same, spaceVars
<1> QED
  BY <1>6, <1>7, <1>8, <1>9, <1>10, <1>11 DEF HInv

-----------------------------------------------------------------------------
(* The invariant holds at first, and every step preserves it.              *)

LEMMA HeapInit ==
  ASSUME Init, IInv
  PROVE  HInv
<1>1. \A t \in Threads : Idle(th[t]) /\ th[t].pc = "idle"
  BY RestRoles DEF Init
<1>2. /\ \A t \in Threads : /\ th[t].pc \notin UserPcs \cup {"tryInc"}
                            /\ th[t].pc \notin CallRets \cup {"freeRun"}
                            /\ th[t].pc \notin {"doSweep", "setSwept"}
                            /\ ~Holds(th[t]) /\ ~Sweeps(th[t]) /\ ~Removes(th[t])
                            /\ ~Fetched(th[t])
      /\ \A m \in Mutators : m \in Threads /\ \A o : ~Freeing(m, o)
      /\ \A w \in Workers : w \in Threads
  BY <1>1, MutatorIsThread DEF UserPcs, CallRets, Idle, Freeing
<1>3. \A p : ~Undone(p)
  BY DEF Init, Undone
<1>4. OwnInv
  <2>1. \A a \in Owners : localRun[a] # None => label[localRun[a]] = "run"
    BY DEF Init
  <2>2. \A a, b \in Owners : localRun[a] = localRun[b] /\ localRun[a] # None => a = b
    BY DEF Init
  <2>3. \A p \in Pages : isLocal[p] <=> \E a \in Owners : localRun[a] = p
    BY DEF Init
  <2>4. \A a \in Owners : freeListHeads[a] = {}
    BY DEF Init
  <2> QED
    BY <2>1, <2>2, <2>3, <2>4, MutatorIsThread DEF OwnInv
<1>5. CallInv
  <2>1. \A m \in Mutators : localRun[m] # None => useLocal[m]
    BY DEF Init
  <2> QED
    BY <2>1, <1>1, MutatorIsThread DEF CallInv, Idle
<1>6. LabelInv /\ SweepingInv /\ ReturnInv /\ OffInv /\ FreshInv /\ FullInv
  <2>1. LabelInv
    BY <1>3 DEF Init, LabelInv
  <2>2. SweepingInv /\ ReturnInv /\ OffInv /\ FreshInv /\ FullInv
    BY <1>2, <1>3 DEF SweepingInv, ReturnInv, OffInv, FreshInv, FullInv
  <2> QED
    BY <2>1, <2>2
<1>7. /\ \A p \in Pages : label[p] = "run" /\ ~isLocal[p] =>
           freeList[p] = {s \in Slots : <<p, s>> \notin objects}
      /\ \A p \in Pages : label[p] # "run" \/ isLocal[p] => freeList[p] = {}
      /\ \A a \in Owners : localRun[a] # None =>
           localFree[a] = {s \in Slots : <<localRun[a], s>> \notin objects}
      /\ \A a \in Owners : freeListHeads[a] = {}
      /\ nonFullRuns = {p \in Pages : freeList[p] # {}}
  BY DEF Init
<1>8. SpaceInv
  <2>1. \A o \in objects : label[o[1]] = "run" \/ (label[o[1]] = "large" /\ o[2] = 1)
    BY DEF Init
  <2>2. /\ \A p \in avail : label[p] = "free" /\ p <= spaceEnd
        /\ \A w \in Workers : buffer[w] = {}
        /\ \A p \in Pages : p > spaceEnd => label[p] = "free"
    BY DEF Init
  <2>3. /\ \A p \in Pages : label[p] = "free" => \A o \in objects : o[1] # p
        /\ \A p \in Pages : label[p] = "large" => \A o \in objects : o[1] = p => o[2] = 1
    BY <2>1
  <2> QED
    BY <2>2, <2>3, <1>7 DEF SpaceInv
<1>9. SlotInv
  <2>1. ASSUME NEW p \in Pages, label[p] = "run", NEW s \in Slots,
               <<p, s>> \notin objects, s \notin freeList[p]
        PROVE  \E a \in Owners : localRun[a] = p /\ s \in localFree[a] \cup freeListHeads[a]
    <3>1. isLocal[p]
      BY <2>1, <1>7
    <3>2. PICK a \in Owners : localRun[a] = p
      BY <3>1, <1>4 DEF OwnInv
    <3> QED
      BY <3>2, <2>1, <1>7, NoneIsNoPage
  <2>2. \A p \in Pages : \A s \in freeList[p] : <<p, s>> \notin objects
    BY <1>7
  <2>3. ASSUME NEW a \in Owners, localRun[a] # None,
               NEW s \in localFree[a] \cup freeListHeads[a]
        PROVE  <<localRun[a], s>> \notin objects /\ s \notin freeList[localRun[a]]
    <3>1. localRun[a] \in Pages
      BY <2>3 DEF IInv, TypeOK
    <3>2. freeList[localRun[a]] = {}
      BY <3>1, <1>4, <1>7 DEF OwnInv
    <3> QED
      BY <3>2, <2>3, <1>7
  <2> QED
    BY <2>1, <2>2, <2>3 DEF SlotInv
<1>10. NonFullInv /\ HolderInv /\ LoneInv
  <2>1. NonFullInv /\ LoneInv
    BY <1>2, <1>7 DEF NonFullInv, LoneInv
  <2>2. HolderInv
    BY <1>2 DEF HolderInv
  <2> QED
    BY <2>1, <2>2
<1>11. FreeInv
  BY <1>1, <1>2 DEF FreeInv, Idle
<1>12. MarkInv /\ DeadInv
  <2>1. live = objects
    BY DEF Init
  <2>2. \A o \in objects : InUse(o)
    BY <2>1 DEF InUse
  <2> QED
    BY <2>1, <2>2, <1>3 DEF MarkInv, DeadInv
<1>13. SweptInv /\ LargeInv /\ ProgressInv
  BY <1>2, <1>3 DEF SweptInv, LargeInv, ProgressInv
<1> QED
  BY <1>4, <1>5, <1>6, <1>8, <1>9, <1>10, <1>11, <1>12, <1>13 DEF HInv

LEMMA HeapCall ==
  ASSUME IInv, IInv', HInv, NEW m \in Mutators, Call(m)
  PROVE  HInv'
BY HeapFastNewObj, HeapAllocFromRun, HeapAllocLargeObject, HeapFreeInternal,
   HeapRevokeLocalRuns, HeapAddAllocMutator DEF Call

LEMMA HeapContinue ==
  ASSUME IInv, IInv', HInv, NEW m \in Mutators, Continue(m)
  PROVE  HInv'
BY MutatorIsThread, HeapSweep, HeapAllocFromLocalRun, HeapFetchRun, HeapAllocRun,
   HeapLocaliseRun, HeapFreeFromRun, HeapFreeLargeObj, HeapRevokeLocalRun
   DEF Continue

LEMMA HeapStutter ==
  ASSUME IInv, HInv, UNCHANGED vars
  PROVE  HInv'
<1>1. UNCHANGED <<label, avail, spaceEnd, objects, freeList, nonFullRuns, isLocal,
                  useLocal, localRun, localFree, freeListHeads, globalLock,
                  marked, sweepRunning, pageState, highestPageIndex, refCount, th,
                  tasks, cursor, buffer, gcPc, live>>
  BY DEF vars, spaceVars, runVars, localVars, ctxVars, taskVars, gcVars
<1>2. /\ \A t \in Threads : SameHold(th[t], th'[t]) /\ SameSweep(th[t], th'[t])
      /\ \A m \in Mutators : SameCall(th[m], th'[m])
  BY <1>1, SameSelf
<1>3. TypeOK /\ \A p : Undone(p)' <=> Undone(p)
  BY <1>1 DEF Undone, IInv
<1>4. \A o : InUse(o)' <=> InUse(o)
  BY <1>1, <1>2, UseKept
<1>5. OwnInv' /\ CallInv' /\ LabelInv' /\ SweepingInv' /\ OffInv' /\ SpaceInv' /\ SlotInv'
  BY <1>1, <1>2, <1>3, OwnKept, CallKept, LabelKept, SweepingKept, OffKept,
     SpaceKept, SlotKept DEF HInv
<1>6. ReturnInv' /\ FreshInv'
  BY <1>1, <1>3 DEF HInv, ReturnInv, FreshInv
<1>7. NonFullInv' /\ HolderInv' /\ LoneInv' /\ FullInv'
  BY <1>1, <1>2, NonFullKept, HolderKept, LoneKept, FullKept DEF HInv
<1>8. FreeInv'
  BY <1>1, <1>2, FreeKept DEF HInv, FreeInv
<1>9. MarkInv' /\ DeadInv' /\ SweptInv' /\ LargeInv'
  BY <1>1, <1>3, <1>4, MarkKept, DeadKept, SweptKept, LargeKept DEF HInv
<1>10. ProgressInv'
  BY <1>1, <1>3, ProgressKept DEF HInv
<1> QED
  BY <1>5, <1>6, <1>7, <1>8, <1>9, <1>10 DEF HInv

LEMMA HeapStep ==
  ASSUME IInv, IInv', HInv, [Next]_vars
  PROVE  HInv'
BY HeapCollect, HeapWork, HeapCall, HeapContinue, HeapStutter DEF Next

-----------------------------------------------------------------------------
(* The theorems.                                                           *)

(* HInv holds in every reachable state: who owns each run and each slot,   *)
(* what is marked and in use on the pages that are not swept, and where    *)
(* those pages wait for their sweep.                                       *)
THEOREM HeapInvariant == Spec => [](IInv /\ HInv)
<1>1. Init => IInv /\ HInv
  BY InitEstablishes, HeapInit
<1>2. (IInv /\ HInv) /\ [Next]_vars => (IInv /\ HInv)'
  BY StepPreserves, HeapStep
<1> QED
  BY <1>1, <1>2, PTL DEF Spec

(* Neither a sweeping thread nor FreeRun() frees an object that is in use, *)
(* marked or allocated since the sweep began.                              *)
THEOREM LiveObjectsKept == Spec => []LiveKept
<1>1. HInv => LiveKept
  BY DEF HInv, MarkInv, LiveKept
<1> QED
  BY <1>1, HeapInvariant, PTL

(* A slot of a run is in one place, whoever allocates, frees or sweeps.    *)
LEMMA SlotsAreConserved ==
  ASSUME IInv, HInv
  PROVE  SlotsConserved
<1> SUFFICES ASSUME NEW p \in {q \in Pages : label[q] = "run"}
             PROVE  LET own == {a \in Owners : localRun[a] = p}
                        parts == {{s \in Slots : <<p, s>> \in objects}, freeList[p]}
                        lists == {localFree[a] : a \in own}
                                   \cup {freeListHeads[a] : a \in own}
                    IN  /\ \A s \in Slots : \E x \in parts \cup lists : s \in x
                        /\ {s \in Slots : <<p, s>> \in objects} \cap freeList[p] = {}
                        /\ \A a \in own :
                             /\ localFree[a] \cap freeListHeads[a] = {}
                             /\ \A x \in parts :
                                  x \cap (localFree[a] \cup freeListHeads[a]) = {}
  BY DEF SlotsConserved
<1> DEFINE own == {a \in Owners : localRun[a] = p}
           parts == {{s \in Slots : <<p, s>> \in objects}, freeList[p]}
           lists == {localFree[a] : a \in own} \cup {freeListHeads[a] : a \in own}
<1>1. ASSUME NEW s \in Slots
      PROVE  \E x \in parts \cup lists : s \in x
  <2>1. CASE <<p, s>> \in objects \/ s \in freeList[p]
    BY <2>1
  <2>2. CASE ~(<<p, s>> \in objects \/ s \in freeList[p])
    <3>1. PICK a \in Owners : localRun[a] = p /\ s \in localFree[a] \cup freeListHeads[a]
      BY <2>2 DEF HInv, SlotInv
    <3>2. localFree[a] \in lists /\ freeListHeads[a] \in lists
      BY <3>1
    <3> QED
      BY <3>1, <3>2
  <2> QED
    BY <2>1, <2>2
<1>2. {s \in Slots : <<p, s>> \in objects} \cap freeList[p] = {}
  BY DEF HInv, SlotInv
<1>3. ASSUME NEW a \in own
      PROVE  /\ localFree[a] \cap freeListHeads[a] = {}
             /\ \A x \in parts : x \cap (localFree[a] \cup freeListHeads[a]) = {}
  <2>1. a \in Owners /\ localRun[a] = p /\ p # None
    BY NoneIsNoPage
  <2>2. localFree[a] \cap freeListHeads[a] = {}
    BY <2>1 DEF HInv, OwnInv
  <2>3. \A s \in localFree[a] \cup freeListHeads[a] :
          <<p, s>> \notin objects /\ s \notin freeList[p]
    BY <2>1 DEF HInv, SlotInv
  <2> QED
    BY <2>2, <2>3
<1> QED
  BY <1>1, <1>2, <1>3

(* A set with at most one element.                                         *)
LEMMA OneOrNone ==
  ASSUME NEW S, \A x, y \in S : x = y
  PROVE  /\ S = {} => Cardinality(S) = 0
         /\ S # {} => Cardinality(S) = 1
<1>1. S = {} => Cardinality(S) = 0
  BY FS_EmptySet
<1>2. ASSUME S # {}
      PROVE  Cardinality(S) = 1
  <2>1. PICK x : S = {x}
    BY <1>2
  <2> QED
    BY <2>1, FS_Singleton
<1> QED
  BY <1>1, <1>2

LEMMA RunsAreHeldOnce ==
  ASSUME IInv, HInv
  PROVE  RunHeldOnce
<1> SUFFICES ASSUME NEW p \in Pages,
                    NEW n, n = (IF p \in nonFullRuns THEN 1 ELSE 0)
                                 + Cardinality({a \in Owners : localRun[a] = p})
                                 + Cardinality(Holders(p))
             PROVE  /\ n > 0 => label[p] # "free"
                    /\ n < 2
                    /\ label[p] = "run" /\ n = 0 =>
                         \/ freeList[p] = {}
                         \/ \E t \in Threads : At(t, "doSweep") /\ th[t].page = p
  BY DEF RunHeldOnce
<1>1. PICK own : own = {a \in Owners : localRun[a] = p}
  OBVIOUS
<1>2. PICK hold : hold = {t \in Threads : Holds(th[t]) /\ th[t].page = p}
  OBVIOUS
<1>3. Holders(p) = hold
  BY <1>2 DEF Holders, Holds, Fetched, Removes, In
<1>4. /\ own = {} => Cardinality(own) = 0
      /\ own # {} => Cardinality(own) = 1
  <2>1. \A a, b \in own : a = b
    BY <1>1, NoneIsNoPage DEF HInv, OwnInv
  <2> QED
    BY <2>1, OneOrNone
<1>5. /\ hold = {} => Cardinality(hold) = 0
      /\ hold # {} => Cardinality(hold) = 1
  <2>1. \A t, u \in hold : t = u
    BY <1>2 DEF HInv, HolderInv
  <2> QED
    BY <2>1, OneOrNone
<1>6. isLocal[p] <=> own # {}
  BY <1>1 DEF HInv, OwnInv
<1>7. own # {} => label[p] = "run"
  BY <1>1, NoneIsNoPage DEF HInv, OwnInv
<1>8. hold # {} => ~isLocal[p] /\ label[p] # "free" /\ p \notin nonFullRuns
  BY <1>2 DEF HInv, HolderInv, NonFullInv
<1>9. p \in nonFullRuns => ~isLocal[p] /\ label[p] = "run"
  BY DEF HInv, NonFullInv
<1>10. n = (IF p \in nonFullRuns THEN 1 ELSE 0) + Cardinality(own) + Cardinality(hold)
  BY <1>1, <1>3
<1>11. CASE p \in nonFullRuns
  <2>1. own = {} /\ hold = {}
    BY <1>6, <1>8, <1>9, <1>11
  <2>2. n = 1
    BY <2>1, <1>4, <1>5, <1>10, <1>11
  <2> QED
    BY <2>2, <1>9, <1>11
<1>12. CASE p \notin nonFullRuns /\ own # {}
  <2>1. hold = {}
    BY <1>6, <1>8, <1>12
  <2>2. n = 1
    BY <2>1, <1>4, <1>5, <1>10, <1>12
  <2> QED
    BY <2>2, <1>7, <1>12
<1>13. CASE p \notin nonFullRuns /\ own = {} /\ hold # {}
  <2>1. n = 1
    BY <1>4, <1>5, <1>10, <1>13
  <2> QED
    BY <2>1, <1>8, <1>13
<1>14. CASE p \notin nonFullRuns /\ own = {} /\ hold = {}
  <2>1. n = 0
    BY <1>4, <1>5, <1>10, <1>14
  <2>2. ASSUME label[p] = "run", freeList[p] # {}
        PROVE  \E t \in Threads : At(t, "doSweep") /\ th[t].page = p
    <3>1. ~isLocal[p] /\ \A t \in Threads : ~(Holds(th[t]) /\ th[t].page = p)
      BY <1>2, <1>6, <1>14
    <3> QED
      BY <3>1, <2>2, <1>14 DEF HInv, LoneInv, At
  <2> QED
    BY <2>1, <2>2
<1> QED
  BY <1>11, <1>12, <1>13, <1>14

(* The heap is consistent in every state: no slot is lost or handed out    *)
(* twice, and no run is used by two, or freed while it is used.            *)
THEOREM HeapStaysConsistent == Spec => []HeapConsistent
<1>1. IInv /\ HInv => HeapConsistent
  BY SlotsAreConserved, RunsAreHeldOnce DEF HeapConsistent, IInv
<1> QED
  BY <1>1, HeapInvariant, PTL

(* ConcurrentSweep() returns only when every page is swept and every dead  *)
(* object is freed, although mutators swept some of the pages.             *)
THEOREM SweepIsComplete == Spec => []SweepComplete
<1>1. IInv /\ HInv => SweepComplete
  <2> SUFFICES ASSUME IInv, HInv, gcPc = "release"
               PROVE  /\ \A o \in objects : InUse(o)
                      /\ \A p \in 1 .. highestPageIndex : pageState[p] \in {"free", "swept"}
    BY DEF SweepComplete
  <2>1. ASSUME NEW o \in objects
        PROVE  InUse(o)
    <3>1. ~Undone(o[1])
      BY DEF Undone
    <3>2. \A w \in Workers : th[w].pc # "freeRun"
      BY DEF IInv, WorkInv, At
    <3> QED
      BY <3>1, <3>2 DEF HInv, DeadInv
  <2>2. ASSUME NEW p \in 1 .. highestPageIndex
        PROVE  pageState[p] \in {"free", "swept"}
    <3>1. p \in Pages
      BY ConstantsAssumption DEF IInv, TypeOK, Pages
    <3> QED
      BY <3>1 DEF HInv, LabelInv
  <2> QED
    BY <2>1, <2>2
<1> QED
  BY <1>1, HeapInvariant, PTL

=============================================================================
