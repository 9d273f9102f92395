----------------------- MODULE ConcurrentSweepProofs -----------------------
(***************************************************************************)
(* Proofs about module ConcurrentSweep, for any finite sets of mutators    *)
(* and workers and any number of pages and slots.                          *)
(*                                                                         *)
(* IInv is inductive: it is well-typed, says which locals a thread has at  *)
(* each step and which pages the workers still have to take, and counts    *)
(* the threads between TryIncRC() and DecRC().                             *)
(***************************************************************************)
EXTENDS ConcurrentSweep, FiniteSetTheorems, WellFoundedInduction, TLAPS

-----------------------------------------------------------------------------
(* The inductive invariant.                                                *)

(* Where Sweep() returns to, in the operations of a mutator.               *)
CallRets == {"local", "localise", "free", "freeLarge", "revoke"}

Pcs == SweepPcs \cup CallRets
         \cup {"idle", "absent", "next", "freeRun", "fetch", "allocRun"}

Locals ==
  [pc : Pcs, ret : CallRets \cup {"idle", "absent", "next"},
   page : Pages \cup {None}, slot : Slots, owner : Owners \cup {None},
   full : BOOLEAN, freed : BOOLEAN, remove : BOOLEAN]

(* A thread with the locals r is allocating, or gives its run up.          *)
Allocating(r) ==
  \/ r.pc \in {"local", "fetch", "allocRun", "localise"}
  \/ r.pc \in SweepPcs /\ r.ret \in {"local", "localise"}

Revoking(r) == r.pc = "revoke" \/ (r.pc \in SweepPcs /\ r.ret = "revoke")

(* Which locals r go together for thread t.                                *)
LocalOK(t, r) ==
  /\ r.pc \in SweepPcs \cup {"freeRun", "localise", "free", "freeLarge"}
       => r.page \in Pages
  /\ t \in Workers =>
       /\ r.pc \in SweepPcs \cup {"idle", "next", "freeRun"}
       /\ r.pc \in SweepPcs \cup {"freeRun"} => r.ret = "next"
  /\ t \in Mutators =>
       /\ r.pc # "next"
       /\ r.pc \in SweepPcs => r.ret \in CallRets
       /\ r.pc = "freeRun" => r.ret \in {"idle", "absent"}
       /\ Allocating(r) => r.owner \in {t, Global}

LocalInv ==
  /\ th \in [Threads -> Locals]
  /\ \A t \in Threads : LocalOK(t, th[t])

(* Free slots that are not those of a run belong to a local run.           *)
RunInv ==
  /\ \A m \in Mutators : Revoking(th[m]) => localRun[m] # None
  /\ \A a \in Owners :
       localRun[a] = None => localFree[a] = {} /\ freeListHeads[a] = {}

(* The pages of the tasks, and of the workers, are within the copy of the  *)
(* page map; without a sweep there is no task.                             *)
WorkInv ==
  /\ tasks \subseteq 1 .. highestPageIndex
  /\ \A w \in Workers : At(w, "idle") \/ cursor[w] <= highestPageIndex
  /\ gcPc # "sweep" => tasks = {} /\ \A w \in Workers : At(w, "idle")

(* The threads that use the copy of the page map.                          *)
UserPcs == {"label", "wait", "block", "blocked"}
Users   == {t \in Threads : th[t].pc \in UserPcs}

(* The GC thread uses it too, from Init() to Release().                    *)
Held == IF gcPc \in {"sweep", "release"} THEN 1 ELSE 0

CountInv ==
  /\ refCount = Held + Cardinality(Users)
  /\ mapped <=> refCount > 0

IInv == TypeOK /\ LocalInv /\ RunInv /\ WorkInv /\ CountInv


(* What TypeOK says of the heap, the context and the GC thread.            *)
HeapOK ==
  /\ label \in [Pages -> {"free", "run", "large"}]
  /\ avail \in SUBSET Pages /\ spaceEnd \in Pages
  /\ objects \in SUBSET Objs /\ marked \in SUBSET Objs /\ live \in SUBSET Objs
  /\ freeList \in [Pages -> SUBSET Slots]
  /\ nonFullRuns \in SUBSET Pages /\ isLocal \in [Pages -> BOOLEAN]
  /\ useLocal \in [Mutators -> BOOLEAN]
  /\ localRun \in [Owners -> Pages \cup {None}]
  /\ localFree \in [Owners -> SUBSET Slots]
  /\ freeListHeads \in [Owners -> SUBSET Slots]
  /\ globalLock \in Mutators \cup {None}
  /\ sweepRunning \in BOOLEAN /\ mapped \in BOOLEAN
  /\ pageState \in [Pages -> {"free", "run", "large", "sweeping", "swept"}]
  /\ highestPageIndex \in 0 .. NPages
  /\ tasks \in SUBSET Pages
  /\ cursor \in [Workers -> 0 .. NPages]
  /\ buffer \in [Workers -> SUBSET Pages]
  /\ gcPc \in {"idle", "mark", "sweep", "release"}
  /\ ops \in 0 .. MaxOps /\ sweeps \in 0 .. MaxSweeps

-----------------------------------------------------------------------------
(* Lemmas about the operators.                                             *)

LEMMA LeastExists ==
  ASSUME NEW S \in SUBSET Nat, S # {}
  PROVE  \E m \in S : \A n \in S : m <= n
<1>1. \E m \in S : \A n \in S : ~ (<<n, m>> \in OpToRel(<, Nat))
  BY NatLessThanWellFounded, WFMin
<1>2. PICK m \in S : \A n \in S : ~ (<<n, m>> \in OpToRel(<, Nat))
  BY <1>1
<1>3. ASSUME NEW n \in S
      PROVE  m <= n
  <2>1. m \in Nat /\ n \in Nat
    OBVIOUS
  <2>2. ~ (n < m)
    BY <1>2, <2>1 DEF OpToRel
  <2> QED
    BY <2>1, <2>2
<1> QED
  BY <1>3

(* A free list that is not empty has a slot to fetch.                      *)
LEMMA FetchTakesOne ==
  ASSUME NEW list \in SUBSET Slots, list # {}
  PROVE  Fetch(list) \in list
<1>1. list \in SUBSET Nat
  BY DEF Slots
<1>2. \E s \in list : \A x \in list : s <= x
  BY <1>1, LeastExists
<1> QED
  BY <1>2 DEF Fetch

LEMMA RestLocals ==
  ASSUME NEW l \in Pcs
  PROVE  /\ Rest \in Locals
         /\ [Rest EXCEPT !.pc = l] \in Locals
<1>1. 1 \in Slots
  BY ConstantsAssumption DEF Slots
<1> QED
  BY <1>1 DEF Rest, Locals, Pcs, CallRets

(* The locals of a thread that calls Sweep() for page p.                   *)
LEMMA SweepLocals ==
  ASSUME NEW r \in Locals, NEW p \in Pages,
         NEW l \in CallRets \cup {"next"}
  PROVE  LET c == CallSweep(r, p, l)
         IN  /\ c \in Locals /\ c.pc \in {"tryInc", l}
             /\ c.page = p /\ c.ret = l /\ c.owner = r.owner
<1>1. "tryInc" \in Pcs /\ l \in Pcs
  BY DEF Pcs, SweepPcs
<1> QED
  BY <1>1 DEF CallSweep, Locals

(* A step of thread t alone.                                               *)
LEMMA OneThread ==
  ASSUME LocalInv, NEW t \in Threads, NEW r \in Locals, LocalOK(t, r),
         th' = [th EXCEPT ![t] = r]
  PROVE  /\ LocalInv'
         /\ th'[t] = r
         /\ \A u \in Threads \ {t} : th'[u] = th[u]
<1>1. th' \in [Threads -> Locals]
  BY DEF LocalInv
<1>2. th'[t] = r /\ \A u \in Threads \ {t} : th'[u] = th[u]
  BY DEF LocalInv
<1>3. \A u \in Threads : LocalOK(u, th'[u])
  BY <1>2 DEF LocalInv
<1> QED
  BY <1>1, <1>2, <1>3 DEF LocalInv

LEMMA GotoSets ==
  ASSUME LocalInv, NEW t \in Threads, NEW l \in Pcs, Goto(t, l)
  PROVE  /\ [th[t] EXCEPT !.pc = l] \in Locals
         /\ th' = [th EXCEPT ![t] = [th[t] EXCEPT !.pc = l]]
<1>1. th[t] \in Locals
  BY DEF LocalInv
<1> QED
  BY <1>1 DEF Goto, Locals, LocalInv

-----------------------------------------------------------------------------
(* The users of the page map.                                              *)

LEMMA UsersFinite ==
  ASSUME TRUE
  PROVE  /\ IsFiniteSet(Threads)
         /\ IsFiniteSet(Users) /\ Cardinality(Users) \in Nat
         /\ Cardinality(Users) <= Cardinality(Threads)
         /\ Cardinality(Threads) \in Nat
<1>1. IsFiniteSet(Threads)
  BY ConstantsAssumption, FS_Union DEF Threads
<1>2. Users \subseteq Threads
  BY DEF Users
<1> QED
  BY <1>1, <1>2, FS_Subset, FS_CardinalityType

LEMMA UsersKept ==
  ASSUME \A t \in Threads : th[t].pc \in UserPcs <=> th'[t].pc \in UserPcs
  PROVE  Users' = Users
BY DEF Users

LEMMA UserEnters ==
  ASSUME NEW t \in Threads, th[t].pc \notin UserPcs, th'[t].pc \in UserPcs,
         \A u \in Threads \ {t} : th'[u] = th[u]
  PROVE  Cardinality(Users') = Cardinality(Users) + 1
<1>1. Users' = Users \cup {t} /\ t \notin Users
  BY DEF Users
<1> QED
  BY <1>1, UsersFinite, FS_AddElement

LEMMA UserLeaves ==
  ASSUME NEW t \in Threads, th[t].pc \in UserPcs, th'[t].pc \notin UserPcs,
         \A u \in Threads \ {t} : th'[u] = th[u]
  PROVE  /\ Cardinality(Users') = Cardinality(Users) - 1
         /\ Cardinality(Users) > 0
<1>1. Users' = Users \ {t} /\ t \in Users
  BY DEF Users
<1>2. Cardinality(Users') = Cardinality(Users) - 1
  BY <1>1, UsersFinite, FS_RemoveElement
<1>3. Cardinality(Users) # 0
  BY <1>1, UsersFinite, FS_EmptySet
<1> QED
  BY <1>2, <1>3, UsersFinite

(* DecRC() of a user that is done.                                         *)
LEMMA UserDone ==
  ASSUME CountInv, gcPc' = gcPc, DecRC,
         NEW t \in Threads, th[t].pc \in UserPcs, th'[t].pc \notin UserPcs,
         \A u \in Threads \ {t} : th'[u] = th[u]
  PROVE  CountInv' /\ mapped' \in BOOLEAN
<1>1. Cardinality(Users') = Cardinality(Users) - 1 /\ Cardinality(Users) > 0
  BY UserLeaves
<1>2. Held' = Held /\ Held \in {0, 1}
  BY DEF Held
<1>3. refCount' = Held' + Cardinality(Users') /\ refCount > 0 /\ refCount \in Nat
  BY <1>1, <1>2, UsersFinite DEF CountInv, DecRC
<1>4. mapped' <=> refCount' > 0
  <2>1. mapped
    BY <1>3 DEF CountInv
  <2>2. mapped' <=> refCount # 1
    BY <2>1 DEF DecRC
  <2>3. refCount' = refCount - 1
    BY DEF DecRC
  <2> QED
    BY <2>2, <2>3, <1>3
<1> QED
  BY <1>3, <1>4 DEF CountInv, DecRC

(* A step that leaves the users and the counter alone.                     *)
LEMMA CountKept ==
  ASSUME CountInv, UNCHANGED <<refCount, mapped>>, Held' = Held,
         \A t \in Threads : th[t].pc \in UserPcs <=> th'[t].pc \in UserPcs
  PROVE  CountInv'
<1>1. Users' = Users
  BY UsersKept
<1> QED
  BY <1>1 DEF CountInv

LEMMA TypeParts == HeapOK /\ LocalInv /\ CountInv => TypeOK
<1> SUFFICES ASSUME HeapOK, LocalInv, CountInv PROVE TypeOK
  OBVIOUS
<1>1. refCount \in 0 .. Cardinality(Threads) + 1
  <2>1. Held \in {0, 1}
    BY DEF Held
  <2> QED
    BY <2>1, UsersFinite DEF CountInv
<1>2. ASSUME NEW t \in Threads
      PROVE  /\ th[t].pc \in Pcs
             /\ th[t].page \in Pages \cup {None}
             /\ th[t].owner \in Owners \cup {None}
  <2>1. th[t] \in Locals
    BY DEF LocalInv
  <2> QED
    BY <2>1 DEF Locals
<1> QED
  BY <1>1, <1>2 DEF TypeOK, HeapOK, Pcs, CallRets

LEMMA TypePartsNext == (HeapOK /\ LocalInv /\ CountInv)' => TypeOK'
BY TypeParts, PTL

LEMMA HeapPart ==
  ASSUME TypeOK
  PROVE  HeapOK
BY DEF TypeOK, HeapOK

-----------------------------------------------------------------------------
(* Steps of Sweep().                                                       *)

(* What a step of a thread proves, besides the type of the heap.           *)
Parts == LocalInv /\ RunInv /\ WorkInv /\ CountInv

(* A thread goes on in Sweep(), or to where Sweep() returns.               *)
LEMMA InSweep ==
  ASSUME LocalInv, RunInv, WorkInv, NEW t \in Threads,
         th[t].pc \in SweepPcs, NEW r \in Locals,
         r.pc \in SweepPcs \cup {th[t].ret},
         r.ret = th[t].ret /\ r.page = th[t].page /\ r.owner = th[t].owner,
         th' = [th EXCEPT ![t] = r],
         UNCHANGED <<localVars, highestPageIndex, taskVars, gcPc>>
  PROVE  /\ LocalInv' /\ RunInv' /\ WorkInv'
         /\ th'[t] = r
         /\ \A u \in Threads \ {t} : th'[u] = th[u]
         /\ r.pc \notin UserPcs \/ r.pc \in SweepPcs
<1>1. th[t] \in Locals /\ LocalOK(t, th[t])
  BY DEF LocalInv
<1>2. t \in Workers \/ t \in Mutators
  BY DEF Threads
<1>3. LocalOK(t, r)
  BY <1>1, <1>2 DEF LocalOK, Allocating, SweepPcs, CallRets
<1>4. LocalInv' /\ th'[t] = r /\ \A u \in Threads \ {t} : th'[u] = th[u]
  BY <1>3, OneThread
<1>5. RunInv'
  <2>1. \A m \in Mutators : Revoking(th'[m]) => Revoking(th[m])
    BY <1>1, <1>4 DEF Threads, Revoking, SweepPcs
  <2> QED
    BY <2>1 DEF RunInv, localVars
<1>6. WorkInv'
  <2>1. \A w \in Workers : th[w].pc = "idle" => th'[w].pc = "idle"
    BY <1>4 DEF Threads, SweepPcs
  <2> QED
    BY <2>1 DEF WorkInv, At, taskVars
<1>7. r.pc \notin UserPcs \/ r.pc \in SweepPcs
  BY <1>1, <1>2 DEF LocalOK, UserPcs, SweepPcs, CallRets
<1> QED
  BY <1>4, <1>5, <1>6, <1>7

(* Where Sweep() returns to is not inside it.                              *)
LEMMA RetOutside ==
  ASSUME LocalInv, NEW t \in Threads, th[t].pc \in SweepPcs
  PROVE  /\ th[t] \in Locals
         /\ th[t].page \in Pages
         /\ th[t].ret \in CallRets \cup {"next"}
         /\ th[t].ret \in Pcs /\ th[t].ret \notin UserPcs
<1>1. th[t] \in Locals /\ LocalOK(t, th[t])
  BY DEF LocalInv
<1>2. t \in Workers \/ t \in Mutators
  BY DEF Threads
<1> QED
  BY <1>1, <1>2 DEF LocalOK, UserPcs, SweepPcs, CallRets, Pcs

LEMMA TryIncRCStep ==
  ASSUME IInv, NEW t \in Threads, TryIncRC(t)
  PROVE  HeapOK' /\ Parts'
<1> DEFINE G(l) == [th[t] EXCEPT !.pc = l]
<1>0. LocalInv /\ RunInv /\ WorkInv /\ CountInv /\ HeapOK
  BY HeapPart DEF IInv
<1>1. th[t].pc = "tryInc" /\ th[t].pc \in SweepPcs
  BY DEF TryIncRC, At, SweepPcs
<1>2. HeapOK'
  BY <1>0 DEF TryIncRC, HeapOK, spaceVars, runVars, localVars, taskVars, gcVars
<1>3. UNCHANGED <<localVars, highestPageIndex, taskVars, gcPc>>
  BY DEF TryIncRC, gcVars
<1>4. CASE refCount = 0 \/ th[t].page > highestPageIndex
  <2>1. Goto(t, th[t].ret) /\ UNCHANGED <<refCount, mapped>>
    BY <1>4 DEF TryIncRC
  <2>2. G(th[t].ret) \in Locals /\ th' = [th EXCEPT ![t] = G(th[t].ret)]
    BY <2>1, <1>0, <1>1, RetOutside, GotoSets
  <2>3. /\ G(th[t].ret).pc = th[t].ret /\ G(th[t].ret).ret = th[t].ret
        /\ G(th[t].ret).page = th[t].page /\ G(th[t].ret).owner = th[t].owner
    BY <1>0, <1>1, RetOutside DEF Locals
  <2>4. /\ LocalInv' /\ RunInv' /\ WorkInv' /\ th'[t].pc = th[t].ret
        /\ \A u \in Threads \ {t} : th'[u] = th[u]
    BY <2>2, <2>3, <1>0, <1>1, <1>3, InSweep
  <2>5. CountInv'
    <3>1. \A u \in Threads : th[u].pc \in UserPcs <=> th'[u].pc \in UserPcs
      BY <2>4, <1>0, <1>1, RetOutside DEF UserPcs
    <3>2. Held' = Held
      BY <1>3 DEF Held
    <3> QED
      BY <3>1, <3>2, <2>1, <1>0, CountKept
  <2> QED
    BY <1>2, <2>4, <2>5 DEF Parts
<1>5. CASE ~ (refCount = 0 \/ th[t].page > highestPageIndex)
  <2>1. Goto(t, "label") /\ refCount' = refCount + 1 /\ mapped' = mapped
    BY <1>5 DEF TryIncRC
  <2>2. G("label") \in Locals /\ th' = [th EXCEPT ![t] = G("label")]
    BY <2>1, <1>0, GotoSets DEF Pcs, SweepPcs
  <2>3. /\ G("label").pc = "label" /\ G("label").ret = th[t].ret
        /\ G("label").page = th[t].page /\ G("label").owner = th[t].owner
    BY <1>0, <1>1, RetOutside DEF Locals
  <2>4. /\ LocalInv' /\ RunInv' /\ WorkInv' /\ th'[t].pc = "label"
        /\ \A u \in Threads \ {t} : th'[u] = th[u]
    BY <2>2, <2>3, <1>0, <1>1, <1>3, InSweep DEF SweepPcs
  <2>5. Cardinality(Users') = Cardinality(Users) + 1
    BY <2>4, <1>1, UserEnters DEF UserPcs
  <2>6. Held' = Held /\ Held \in {0, 1}
    BY <1>3 DEF Held
  <2>7. /\ refCount' = Held' + Cardinality(Users')
        /\ refCount' > 0 /\ refCount > 0
    BY <2>1, <2>5, <2>6, <1>0, <1>5, UsersFinite DEF CountInv
  <2>8. CountInv'
    BY <2>1, <2>7, <1>0 DEF CountInv
  <2> QED
    BY <1>2, <2>4, <2>8 DEF Parts
<1> QED
  BY <1>4, <1>5

LEMMA SetSweepingStep ==
  ASSUME IInv, NEW t \in Threads, SetSweeping(t)
  PROVE  HeapOK' /\ Parts'
<1> DEFINE p == th[t].page
           G(l) == [th[t] EXCEPT !.pc = l]
<1>0. LocalInv /\ RunInv /\ WorkInv /\ CountInv /\ HeapOK
  BY HeapPart DEF IInv
<1>1. th[t].pc = "label" /\ th[t].pc \in SweepPcs /\ th[t].pc \in UserPcs
  BY DEF SetSweeping, At, SweepPcs, UserPcs
<1>2. /\ th[t] \in Locals /\ p \in Pages
      /\ th[t].ret \in Pcs /\ th[t].ret \notin UserPcs
  BY <1>0, <1>1, RetOutside
<1>3. UNCHANGED <<localVars, highestPageIndex, taskVars, gcPc>>
  BY DEF SetSweeping, gcVars
<1>4. ASSUME mapped' \in BOOLEAN,
             pageState' \in {pageState, [pageState EXCEPT ![p] = "sweeping"]}
      PROVE  HeapOK'
  BY <1>0, <1>2, <1>4
     DEF SetSweeping, HeapOK, spaceVars, runVars, localVars, taskVars, gcVars
<1>5. Held' = Held
  BY <1>3 DEF Held
<1>6. CASE pageState[p] = "sweeping"
  <2>1. Goto(t, "wait") /\ UNCHANGED <<refCount, mapped, pageState>>
    BY <1>6 DEF SetSweeping
  <2>2. G("wait") \in Locals /\ th' = [th EXCEPT ![t] = G("wait")]
    BY <2>1, <1>0, GotoSets DEF Pcs, SweepPcs
  <2>3. /\ G("wait").pc = "wait" /\ G("wait").ret = th[t].ret
        /\ G("wait").page = th[t].page /\ G("wait").owner = th[t].owner
    BY <1>2 DEF Locals
  <2>4. /\ LocalInv' /\ RunInv' /\ WorkInv' /\ th'[t].pc = "wait"
        /\ \A u \in Threads \ {t} : th'[u] = th[u]
    BY <2>2, <2>3, <1>0, <1>1, <1>3, InSweep DEF SweepPcs
  <2>5. \A u \in Threads : th[u].pc \in UserPcs <=> th'[u].pc \in UserPcs
    BY <2>4, <1>1 DEF UserPcs
  <2>6. CountInv'
    BY <2>1, <2>5, <1>0, <1>5, CountKept
  <2>7. HeapOK'
    BY <2>1, <1>0, <1>4 DEF HeapOK
  <2> QED
    BY <2>4, <2>6, <2>7 DEF Parts
<1>7. ASSUME NEW r \in Locals, Set(t, r), DecRC,
             r.pc \in {"doSweep", "setSwept", th[t].ret},
             r.ret = th[t].ret /\ r.page = p /\ r.owner = th[t].owner,
             pageState' \in {pageState, [pageState EXCEPT ![p] = "sweeping"]}
      PROVE  HeapOK' /\ Parts'
  <2>1. th' = [th EXCEPT ![t] = r]
    BY <1>7 DEF Set
  <2>2. /\ LocalInv' /\ RunInv' /\ WorkInv' /\ th'[t] = r
        /\ \A u \in Threads \ {t} : th'[u] = th[u]
    BY <2>1, <1>0, <1>1, <1>3, <1>7, InSweep DEF SweepPcs
  <2>3. th'[t].pc \notin UserPcs
    BY <2>2, <1>2, <1>7 DEF UserPcs
  <2>4. CountInv' /\ mapped' \in BOOLEAN
    BY <2>2, <2>3, <1>0, <1>1, <1>3, <1>7, UserDone
  <2> QED
    BY <2>2, <2>4, <1>4, <1>7 DEF Parts
<1>8. CASE pageState[p] = "run"
  <2> DEFINE r == [th[t] EXCEPT !.pc = "doSweep", !.full = freeList[p] = {}]
  <2>1. /\ Set(t, r) /\ DecRC
        /\ pageState' = [pageState EXCEPT ![p] = "sweeping"]
    BY <1>8 DEF SetSweeping
  <2>2. /\ r \in Locals /\ r.pc = "doSweep" /\ r.ret = th[t].ret
        /\ r.page = p /\ r.owner = th[t].owner
    BY <1>2 DEF Locals, Pcs, SweepPcs
  <2> HIDE DEF r
  <2> QED
    BY <2>1, <2>2, <1>7
<1>9. CASE pageState[p] = "large"
  <2> DEFINE r == [th[t] EXCEPT !.pc = "setSwept",
                     !.remove = t \in Workers /\ IsGarbage(<<p, 1>>)]
  <2>1. /\ Set(t, r) /\ DecRC
        /\ pageState' = [pageState EXCEPT ![p] = "sweeping"]
    BY <1>9 DEF SetSweeping
  <2>2. /\ r \in Locals /\ r.pc = "setSwept" /\ r.ret = th[t].ret
        /\ r.page = p /\ r.owner = th[t].owner
    BY <1>2 DEF Locals, Pcs, SweepPcs
  <2> HIDE DEF r
  <2> QED
    BY <2>1, <2>2, <1>7
<1>10. CASE pageState[p] \in {"free", "swept"}
  <2> DEFINE r == G(th[t].ret)
  <2>1. Goto(t, th[t].ret) /\ DecRC /\ pageState' = pageState
    BY <1>10 DEF SetSweeping
  <2>2. r \in Locals /\ Set(t, r)
    BY <2>1, <1>0, <1>2, GotoSets DEF Set
  <2>3. /\ r.pc = th[t].ret /\ r.ret = th[t].ret
        /\ r.page = p /\ r.owner = th[t].owner
    BY <1>2 DEF Locals
  <2> HIDE DEF r
  <2> QED
    BY <2>1, <2>2, <2>3, <1>7
<1> QED
  BY <1>6, <1>8, <1>9, <1>10 DEF SetSweeping

(* The sleep and its ends.                                                 *)
LEMMA WaitStep ==
  ASSUME IInv, NEW t \in Threads,
         WaitUntilSwept(t) \/ BlockUntilSwept(t) \/ SweepTimeout(t)
  PROVE  HeapOK' /\ Parts'
<1> DEFINE G(l) == [th[t] EXCEPT !.pc = l]
<1>0. LocalInv /\ RunInv /\ WorkInv /\ CountInv /\ HeapOK
  BY HeapPart DEF IInv
<1>1. th[t].pc \in {"wait", "block", "blocked"}
  BY DEF WaitUntilSwept, BlockUntilSwept, SweepTimeout, At
<1>2. /\ th[t].pc \in SweepPcs /\ th[t].pc \in UserPcs
      /\ th[t] \in Locals
      /\ th[t].ret \in Pcs /\ th[t].ret \notin UserPcs
  BY <1>0, <1>1, RetOutside DEF SweepPcs, UserPcs
<1>3. UNCHANGED <<localVars, highestPageIndex, taskVars, gcPc>>
  BY DEF WaitUntilSwept, BlockUntilSwept, SweepTimeout, gcVars, ctxVars
<1>4. ASSUME mapped' \in BOOLEAN
      PROVE  HeapOK'
  BY <1>0, <1>4
     DEF WaitUntilSwept, BlockUntilSwept, SweepTimeout, HeapOK, spaceVars,
         runVars, localVars, taskVars, gcVars, ctxVars
<1>5. Held' = Held
  BY <1>3 DEF Held
<1>6. ASSUME NEW l \in {"block", "blocked"}, Goto(t, l),
             UNCHANGED <<refCount, mapped>>
      PROVE  HeapOK' /\ Parts'
  <2>1. G(l) \in Locals /\ th' = [th EXCEPT ![t] = G(l)]
    BY <1>0, <1>6, GotoSets DEF Pcs, SweepPcs
  <2>2. /\ G(l).pc = l /\ G(l).ret = th[t].ret
        /\ G(l).page = th[t].page /\ G(l).owner = th[t].owner
    BY <1>2 DEF Locals
  <2>3. /\ LocalInv' /\ RunInv' /\ WorkInv' /\ th'[t].pc = l
        /\ \A u \in Threads \ {t} : th'[u] = th[u]
    BY <2>1, <2>2, <1>0, <1>2, <1>3, InSweep DEF SweepPcs
  <2>4. \A u \in Threads : th[u].pc \in UserPcs <=> th'[u].pc \in UserPcs
    BY <2>3, <1>2 DEF UserPcs
  <2>5. CountInv'
    BY <2>4, <1>0, <1>5, <1>6, CountKept
  <2>6. HeapOK'
    BY <1>0, <1>4, <1>6 DEF HeapOK
  <2> QED
    BY <2>3, <2>5, <2>6 DEF Parts
<1>7. ASSUME Goto(t, th[t].ret), DecRC
      PROVE  HeapOK' /\ Parts'
  <2> DEFINE l == th[t].ret
  <2>1. G(l) \in Locals /\ th' = [th EXCEPT ![t] = G(l)]
    BY <1>0, <1>2, <1>7, GotoSets
  <2>2. /\ G(l).pc = l /\ G(l).ret = th[t].ret
        /\ G(l).page = th[t].page /\ G(l).owner = th[t].owner
    BY <1>2 DEF Locals
  <2>3. /\ LocalInv' /\ RunInv' /\ WorkInv' /\ th'[t].pc = l
        /\ \A u \in Threads \ {t} : th'[u] = th[u]
    BY <2>1, <2>2, <1>0, <1>2, <1>3, InSweep
  <2>4. CountInv' /\ mapped' \in BOOLEAN
    BY <2>3, <1>0, <1>2, <1>3, <1>7, UserDone
  <2> QED
    BY <2>3, <2>4, <1>4 DEF Parts
<1>8. \/ Goto(t, th[t].ret) /\ DecRC
      \/ \E l \in {"block", "blocked"} : Goto(t, l) /\ UNCHANGED <<refCount, mapped>>
  BY DEF WaitUntilSwept, BlockUntilSwept, SweepTimeout, ctxVars
<1> QED
  BY <1>6, <1>7, <1>8

(* DoSweep(): its locals change, and the free list of the run.             *)
LEMMA DoSweepStep ==
  ASSUME IInv, NEW t \in Threads, SweepSlot(t) \/ DoSweepDone(t)
  PROVE  HeapOK' /\ Parts'
<1> DEFINE p == th[t].page
<1>0. LocalInv /\ RunInv /\ WorkInv /\ CountInv /\ HeapOK
  BY HeapPart DEF IInv
<1>1. th[t].pc = "doSweep" /\ th[t].pc \in SweepPcs
  BY DEF SweepSlot, DoSweepDone, At, SweepPcs
<1>2. th[t] \in Locals /\ p \in Pages
  BY <1>0, <1>1, RetOutside
<1>3. UNCHANGED <<localVars, highestPageIndex, taskVars, gcPc, refCount, mapped>>
  BY DEF SweepSlot, DoSweepDone, gcVars, ctxVars
<1>4. ASSUME NEW r \in Locals, Set(t, r), r.pc \in {"doSweep", "setSwept"},
             r.ret = th[t].ret /\ r.page = p /\ r.owner = th[t].owner
      PROVE  Parts'
  <2>1. th' = [th EXCEPT ![t] = r]
    BY <1>4 DEF Set
  <2>2. /\ LocalInv' /\ RunInv' /\ WorkInv' /\ th'[t] = r
        /\ \A u \in Threads \ {t} : th'[u] = th[u]
    BY <2>1, <1>0, <1>1, <1>3, <1>4, InSweep DEF SweepPcs
  <2>3. \A u \in Threads : th[u].pc \in UserPcs <=> th'[u].pc \in UserPcs
    BY <2>2, <1>1, <1>4 DEF UserPcs
  <2>4. Held' = Held
    BY <1>3 DEF Held
  <2> QED
    BY <2>2, <2>3, <2>4, <1>0, <1>3, CountKept DEF Parts
<1>5. CASE SweepSlot(t)
  <2> DEFINE dead == {x \in Slots : <<p, x>> \in objects /\ IsGarbage(<<p, x>>)}
             r == [th[t] EXCEPT !.freed = TRUE]
  <2>1. Fetch(dead) \in Slots
    BY <1>5, FetchTakesOne DEF SweepSlot
  <2>2. HeapOK'
    <3>1. freeList' = [freeList EXCEPT ![p] = @ \cup {Fetch(dead)}]
      BY <1>5 DEF SweepSlot
    <3>2. freeList' \in [Pages -> SUBSET Slots]
      BY <3>1, <2>1, <1>0, <1>2 DEF HeapOK
    <3>3. objects' \subseteq objects
      BY <1>5 DEF SweepSlot
    <3> QED
      BY <3>2, <3>3, <1>0, <1>5
         DEF SweepSlot, HeapOK, spaceVars, localVars, taskVars, gcVars, ctxVars
  <2>3. /\ r \in Locals /\ r.pc = "doSweep" /\ r.ret = th[t].ret
        /\ r.page = p /\ r.owner = th[t].owner
    BY <1>1, <1>2 DEF Locals
  <2>4. Set(t, r)
    BY <1>5 DEF SweepSlot
  <2> HIDE DEF r
  <2> QED
    BY <2>2, <2>3, <2>4, <1>4
<1>6. CASE DoSweepDone(t)
  <2> DEFINE rm == th[t].freed /\ RemoveAfterFree(p, th[t].full, freeList[p])
             r == [th[t] EXCEPT !.pc = "setSwept", !.remove = rm]
  <2>1. HeapOK'
    <3>1. nonFullRuns' \in SUBSET Pages
      BY <1>0, <1>2, <1>6 DEF DoSweepDone, NonFullAfterFree, HeapOK
    <3> QED
      BY <3>1, <1>0, <1>6
         DEF DoSweepDone, HeapOK, spaceVars, localVars, taskVars, gcVars, ctxVars
  <2>2. rm \in BOOLEAN
    BY DEF RemoveAfterFree
  <2>3. Set(t, r)
    BY <1>6 DEF DoSweepDone
  <2> HIDE DEF rm
  <2>4. /\ r \in Locals /\ r.pc = "setSwept" /\ r.ret = th[t].ret
        /\ r.page = p /\ r.owner = th[t].owner
    BY <2>2, <1>2 DEF Locals, Pcs, SweepPcs
  <2> HIDE DEF r
  <2> QED
    BY <2>1, <2>3, <2>4, <1>4
<1> QED
  BY <1>5, <1>6

LEMMA SetSweptStep ==
  ASSUME IInv, NEW t \in Threads, SetSwept(t)
  PROVE  HeapOK' /\ Parts'
<1> DEFINE next == IF t \in Workers /\ th[t].remove THEN "freeRun" ELSE th[t].ret
<1>0. LocalInv /\ RunInv /\ WorkInv /\ CountInv /\ HeapOK
  BY HeapPart DEF IInv
<1>1. th[t].pc = "setSwept" /\ th[t].pc \in SweepPcs
  BY DEF SetSwept, At, SweepPcs
<1>2. /\ th[t] \in Locals /\ th[t].page \in Pages /\ LocalOK(t, th[t])
      /\ th[t].ret \in Pcs /\ th[t].ret \notin UserPcs
      /\ th[t].ret \in CallRets \cup {"next"}
  BY <1>0, <1>1, RetOutside DEF LocalInv
<1>3. UNCHANGED <<localVars, highestPageIndex, taskVars, gcPc, refCount, mapped>>
  BY DEF SetSwept, gcVars
<1>4. HeapOK'
  <2>1. pageState' \in {pageState, [pageState EXCEPT ![th[t].page] = "swept"]}
    BY DEF SetSwept
  <2>2. pageState' \in [Pages -> {"free", "run", "large", "sweeping", "swept"}]
    BY <2>1, <1>0, <1>2 DEF HeapOK
  <2> QED
    BY <2>2, <1>0
       DEF SetSwept, HeapOK, spaceVars, runVars, localVars, taskVars, gcVars
<1>5. /\ th'[t] = [th[t] EXCEPT !.pc = next]
      /\ \A u \in Threads \ {t} :
           th'[u] = IF th[u].pc = "blocked" THEN [th[u] EXCEPT !.pc = "wait"]
                                            ELSE th[u]
      /\ th' = [u \in Threads |-> th'[u]]
  BY DEF SetSwept
<1>6. next \in Pcs /\ next \notin UserPcs
  BY <1>2 DEF Pcs, UserPcs
<1>7. /\ th'[t] \in Locals /\ LocalOK(t, th'[t])
      /\ th'[t].pc = next /\ th'[t].ret = th[t].ret
  <2> DEFINE r == [th[t] EXCEPT !.pc = next]
  <2>1. /\ r \in Locals /\ r.pc = next /\ r.ret = th[t].ret
        /\ r.page = th[t].page /\ r.owner = th[t].owner
    BY <1>2, <1>6 DEF Locals
  <2>2. th'[t] = r
    BY <1>5
  <2>3. t \in Workers => t \notin Mutators
    BY ConstantsAssumption
  <2> HIDE DEF r
  <2>4. ASSUME next = "freeRun", t \in Workers
        PROVE  LocalOK(t, r)
    BY <2>1, <2>3, <2>4, <1>1, <1>2 DEF LocalOK, Allocating, SweepPcs, CallRets
  <2>5. ASSUME next = th[t].ret
        PROVE  LocalOK(t, r)
    BY <2>1, <2>3, <2>5, <1>1, <1>2 DEF LocalOK, Allocating, SweepPcs, CallRets
  <2>6. LocalOK(t, r)
    BY <2>4, <2>5
  <2> QED
    BY <2>1, <2>2, <2>6
<1>8. ASSUME NEW u \in Threads \ {t}
      PROVE  /\ th'[u] \in Locals /\ LocalOK(u, th'[u])
             /\ th[u].pc \in UserPcs <=> th'[u].pc \in UserPcs
             /\ th[u].pc = "idle" => th'[u].pc = "idle"
             /\ Revoking(th'[u]) => Revoking(th[u])
  <2>1. th[u] \in Locals /\ LocalOK(u, th[u])
    BY <1>0 DEF LocalInv
  <2>2. CASE th[u].pc = "blocked"
    <3> DEFINE r == [th[u] EXCEPT !.pc = "wait"]
    <3>1. /\ r \in Locals /\ r.pc = "wait" /\ r.ret = th[u].ret
          /\ r.page = th[u].page /\ r.owner = th[u].owner
      BY <2>1 DEF Locals, Pcs, SweepPcs
    <3>2. th'[u] = r
      BY <1>5, <2>2
    <3> HIDE DEF r
    <3>3. LocalOK(u, r)
      BY <3>1, <2>1, <2>2 DEF LocalOK, Allocating, SweepPcs
    <3>4. Revoking(r) => Revoking(th[u])
      BY <3>1, <2>2 DEF Revoking, SweepPcs
    <3> QED
      BY <3>1, <3>2, <3>3, <3>4, <2>2 DEF UserPcs
  <2>3. CASE th[u].pc # "blocked"
    BY <1>5, <2>1, <2>3
  <2> QED
    BY <2>2, <2>3
<1>9. LocalInv'
  <2>1. \A u \in Threads : th'[u] \in Locals /\ LocalOK(u, th'[u])
    BY <1>7, <1>8
  <2>2. th' \in [Threads -> Locals]
    BY <2>1, <1>5
  <2> QED
    BY <2>1, <2>2 DEF LocalInv
<1>10. RunInv'
  <2>1. Revoking(th'[t]) => Revoking(th[t])
    BY <1>1, <1>2, <1>7 DEF Revoking, SweepPcs, CallRets
  <2>2. \A m \in Mutators : Revoking(th'[m]) => Revoking(th[m])
    BY <2>1, <1>8 DEF Threads
  <2> QED
    BY <2>2, <1>0, <1>3 DEF RunInv, localVars
<1>11. WorkInv'
  <2>1. \A w \in Workers : th[w].pc = "idle" => th'[w].pc = "idle"
    BY <1>1, <1>8 DEF Threads
  <2> QED
    BY <2>1, <1>0, <1>3 DEF WorkInv, At, taskVars
<1>12. CountInv'
  <2>1. \A u \in Threads : th[u].pc \in UserPcs <=> th'[u].pc \in UserPcs
    BY <1>1, <1>6, <1>7, <1>8 DEF UserPcs
  <2>2. Held' = Held
    BY <1>3 DEF Held
  <2> QED
    BY <2>1, <2>2, <1>0, <1>3, CountKept
<1> QED
  BY <1>4, <1>9, <1>10, <1>11, <1>12 DEF Parts

LEMMA FreeRunStep ==
  ASSUME IInv, NEW t \in Threads, FreeRun(t)
  PROVE  HeapOK' /\ Parts'
<1> DEFINE p == th[t].page
           r == [Rest EXCEPT !.pc = th[t].ret]
<1>0. LocalInv /\ RunInv /\ WorkInv /\ CountInv /\ HeapOK
  BY HeapPart DEF IInv
<1>1. th[t].pc = "freeRun"
  BY DEF FreeRun, At
<1>2. th[t] \in Locals /\ LocalOK(t, th[t]) /\ p \in Pages
  BY <1>0, <1>1 DEF LocalInv, LocalOK
<1>3. UNCHANGED <<localVars, highestPageIndex, tasks, cursor, gcPc, refCount, mapped>>
  BY DEF FreeRun, gcVars, ctxVars
<1>4. th[t].ret \in {"idle", "absent", "next"}
  BY <1>1, <1>2 DEF LocalOK, Threads
<1>5. /\ r \in Locals /\ r.pc = th[t].ret
  BY <1>4, RestLocals DEF Pcs, Rest
<1>6. LocalOK(t, r)
  <2>1. t \in Workers => t \notin Mutators
    BY ConstantsAssumption
  <2> HIDE DEF r
  <2>2. t \in Workers => r.pc = "next"
    BY <1>1, <1>2, <1>5 DEF LocalOK
  <2>3. t \in Mutators => r.pc \in {"idle", "absent"}
    BY <1>1, <1>2, <1>5 DEF LocalOK
  <2> QED
    BY <2>1, <2>2, <2>3, <1>4, <1>5 DEF LocalOK, Allocating, SweepPcs
<1>7. th' = [th EXCEPT ![t] = r]
  BY DEF FreeRun, Set
<1> HIDE DEF r
<1>8. LocalInv' /\ th'[t] = r /\ \A u \in Threads \ {t} : th'[u] = th[u]
  BY <1>0, <1>5, <1>6, <1>7, OneThread
<1>9. RunInv'
  <2>1. \A m \in Mutators : Revoking(th'[m]) => Revoking(th[m])
    BY <1>4, <1>5, <1>8 DEF Threads, Revoking, SweepPcs
  <2> QED
    BY <2>1, <1>0, <1>3 DEF RunInv, localVars
<1>10. WorkInv'
  <2>1. \A w \in Workers : th[w].pc = "idle" => th'[w].pc = "idle"
    BY <1>1, <1>8 DEF Threads
  <2> QED
    BY <2>1, <1>0, <1>3 DEF WorkInv, At
<1>11. CountInv'
  <2>1. \A u \in Threads : th[u].pc \in UserPcs <=> th'[u].pc \in UserPcs
    BY <1>1, <1>4, <1>5, <1>8 DEF UserPcs
  <2>2. Held' = Held
    BY <1>3 DEF Held
  <2> QED
    BY <2>1, <2>2, <1>0, <1>3, CountKept
<1>12. HeapOK'
  <2>1. /\ label' \in [Pages -> {"free", "run", "large"}]
        /\ freeList' \in [Pages -> SUBSET Slots]
        /\ objects' \subseteq objects
    BY <1>0, <1>2 DEF FreeRun, HeapOK
  <2>2. avail' \in SUBSET Pages /\ buffer' \in [Workers -> SUBSET Pages]
    BY <1>0, <1>2 DEF FreeRun, HeapOK
  <2> QED
    BY <2>1, <2>2, <1>0
       DEF FreeRun, HeapOK, localVars, gcVars, ctxVars
<1> QED
  BY <1>8, <1>9, <1>10, <1>11, <1>12 DEF Parts

LEMMA SweepStep ==
  ASSUME IInv, NEW t \in Threads, Sweep(t)
  PROVE  HeapOK' /\ Parts'
BY TryIncRCStep, SetSweepingStep, WaitStep, DoSweepStep, SetSweptStep,
   FreeRunStep DEF Sweep

-----------------------------------------------------------------------------
(* Steps of the GC thread and the workers.                                 *)

LEMMA PrepareStep ==
  ASSUME IInv, PrepareConcurrentSweep
  PROVE  HeapOK' /\ Parts'
<1>0. LocalInv /\ RunInv /\ WorkInv /\ CountInv /\ HeapOK
  BY HeapPart DEF IInv
<1>1. \A t \in Threads : th[t].pc \in {"idle", "absent"}
  BY <1>0 DEF PrepareConcurrentSweep, WorkInv, At, Threads
<1>2. th' = th
  BY DEF PrepareConcurrentSweep
<1>3. LocalInv'
  BY <1>0, <1>2 DEF LocalInv
<1>4. RunInv'
  <2>1. \A m \in Mutators : ~ Revoking(th'[m])
    BY <1>1, <1>2 DEF Revoking, SweepPcs, Threads
  <2>2. localRun' = localRun
    BY DEF PrepareConcurrentSweep
  <2>3. \A a \in Owners :
          localRun[a] = None => localFree'[a] = {} /\ freeListHeads'[a] = {}
    BY <1>0 DEF PrepareConcurrentSweep, RunInv
  <2> QED
    BY <2>1, <2>2, <2>3 DEF RunInv
<1>5. tasks' \subseteq 1 .. highestPageIndex' /\ tasks' \subseteq Pages
  <2>1. tasks' \subseteq 1 .. spaceEnd /\ highestPageIndex' = spaceEnd
    BY DEF PrepareConcurrentSweep
  <2>2. spaceEnd \in 1 .. NPages /\ NPages \in Nat
    BY <1>0, ConstantsAssumption DEF HeapOK, Pages
  <2>3. 1 .. spaceEnd \subseteq 1 .. NPages
    BY <2>2
  <2> QED
    BY <2>1, <2>3 DEF Pages
<1>6. WorkInv'
  <2>1. \A w \in Workers : th'[w].pc = "idle"
    BY <1>0, <1>2 DEF PrepareConcurrentSweep, WorkInv, At
  <2> QED
    BY <2>1, <1>5 DEF WorkInv, At, PrepareConcurrentSweep
<1>7. CountInv'
  <2>1. Users' = {}
    BY <1>1, <1>2 DEF Users, UserPcs
  <2>2. Held' = 1
    BY DEF Held, PrepareConcurrentSweep
  <2>3. Cardinality(Users') = 0
    BY <2>1, FS_EmptySet
  <2>4. refCount' = 1 /\ mapped' = TRUE
    BY DEF PrepareConcurrentSweep
  <2> QED
    BY <2>2, <2>3, <2>4 DEF CountInv
<1>8. HeapOK'
  <2>1. /\ localFree' \in [Owners -> SUBSET Slots]
        /\ freeListHeads' \in [Owners -> SUBSET Slots]
    BY <1>0 DEF PrepareConcurrentSweep, HeapOK
  <2>2. pageState' \in [Pages -> {"free", "run", "large", "sweeping", "swept"}]
    BY <1>0 DEF PrepareConcurrentSweep, HeapOK
  <2>3. highestPageIndex' \in 0 .. NPages
    BY <1>0 DEF PrepareConcurrentSweep, HeapOK, Pages
  <2>4. marked' \in SUBSET Objs /\ live' \in SUBSET Objs
    BY <1>0 DEF PrepareConcurrentSweep, HeapOK
  <2> QED
    BY <2>1, <2>2, <2>3, <2>4, <1>0, <1>5
       DEF PrepareConcurrentSweep, HeapOK, spaceVars, runVars
<1> QED
  BY <1>3, <1>4, <1>6, <1>7, <1>8 DEF Parts

LEMMA CollectStep ==
  ASSUME IInv, Collect
  PROVE  HeapOK' /\ Parts'
<1>0. LocalInv /\ RunInv /\ WorkInv /\ CountInv /\ HeapOK
  BY HeapPart DEF IInv
<1>1. CASE StartConcurrentMark
  <2>1. UNCHANGED <<th, localVars, highestPageIndex, taskVars, refCount, mapped>>
    BY <1>1 DEF StartConcurrentMark, ctxVars
  <2>2. LocalInv' /\ RunInv'
    BY <2>1, <1>0 DEF LocalInv, RunInv, localVars
  <2>3. WorkInv'
    BY <2>1, <1>0, <1>1 DEF WorkInv, StartConcurrentMark, At, taskVars
  <2>4. Held' = Held
    BY <1>1 DEF Held, StartConcurrentMark
  <2>5. CountInv'
    BY <2>1, <2>4, <1>0, CountKept
  <2>6. HeapOK'
    BY <1>0, <1>1, ConstantsAssumption
       DEF StartConcurrentMark, HeapOK, spaceVars, runVars, localVars, ctxVars,
           taskVars
  <2> QED
    BY <2>2, <2>3, <2>5, <2>6 DEF Parts
<1>2. CASE ConcurrentSweepDone
  <2>1. UNCHANGED <<th, localVars, highestPageIndex, taskVars, refCount, mapped>>
    BY <1>2 DEF ConcurrentSweepDone, ctxVars
  <2>2. LocalInv' /\ RunInv'
    BY <2>1, <1>0 DEF LocalInv, RunInv, localVars
  <2>3. WorkInv'
    BY <2>1, <1>0, <1>2 DEF WorkInv, ConcurrentSweepDone, At, taskVars
  <2>4. Held' = Held
    BY <1>2 DEF Held, ConcurrentSweepDone
  <2>5. CountInv'
    BY <2>1, <2>4, <1>0, CountKept
  <2>6. HeapOK'
    BY <1>0, <1>2
       DEF ConcurrentSweepDone, HeapOK, spaceVars, runVars, localVars, ctxVars,
           taskVars
  <2> QED
    BY <2>2, <2>3, <2>5, <2>6 DEF Parts
<1>3. CASE Release
  <2>1. UNCHANGED <<th, localVars, highestPageIndex, taskVars>>
    BY <1>3 DEF Release
  <2>2. LocalInv' /\ RunInv'
    BY <2>1, <1>0 DEF LocalInv, RunInv, localVars
  <2>3. WorkInv'
    BY <2>1, <1>0, <1>3 DEF WorkInv, Release, At, taskVars
  <2>4. Held = 1 /\ Held' = 0
    BY <1>3 DEF Held, Release
  <2>5. Users' = Users
    BY <2>1 DEF Users
  <2>6. refCount' = refCount - 1 /\ mapped' = (mapped /\ refCount # 1)
    BY <1>3 DEF Release, DecRC
  <2>7. /\ refCount' = Held' + Cardinality(Users')
        /\ refCount > 0 /\ refCount \in Nat
    BY <2>4, <2>5, <2>6, <1>0, UsersFinite DEF CountInv
  <2>8. mapped' <=> refCount' > 0
    <3>1. mapped
      BY <2>7, <1>0 DEF CountInv
    <3>2. mapped' <=> refCount # 1
      BY <2>6, <3>1
    <3> QED
      BY <3>2, <2>6, <2>7
  <2>9. CountInv'
    BY <2>7, <2>8 DEF CountInv
  <2>10. HeapOK'
    BY <2>6, <1>0, <1>3
       DEF Release, HeapOK, spaceVars, runVars, localVars, taskVars
  <2> QED
    BY <2>2, <2>3, <2>9, <2>10 DEF Parts
<1> QED
  BY <1>1, <1>2, <1>3, PrepareStep DEF Collect

(* A worker takes a task, calls SweepPage() for a page, is done.           *)
LEMMA WorkerStep ==
  ASSUME IInv, NEW w \in Workers,
         SweepPages(w) \/ SweepPage(w) \/ ClearBuffer(w)
  PROVE  HeapOK' /\ Parts'
<1>0. LocalInv /\ RunInv /\ WorkInv /\ CountInv /\ HeapOK
  BY HeapPart DEF IInv
<1>1. w \in Threads /\ w \notin Mutators
  BY ConstantsAssumption DEF Threads
<1>2. th[w] \in Locals /\ th[w].pc \in {"idle", "next"}
  BY <1>0, <1>1 DEF LocalInv, SweepPages, SweepPage, ClearBuffer, At
<1>3. /\ UNCHANGED <<localVars, highestPageIndex, gcPc, refCount, mapped>>
      /\ Held' = Held
  BY DEF SweepPages, SweepPage, ClearBuffer, gcVars, ctxVars, Held
<1>4. gcPc = "sweep"
  BY <1>0 DEF WorkInv, At, SweepPages, SweepPage, ClearBuffer
<1>5. ASSUME NEW r \in Locals, LocalOK(w, r),
             r.pc \in {"idle", "next", "tryInc"},
             th' = [th EXCEPT ![w] = r]
      PROVE  /\ LocalInv' /\ RunInv' /\ CountInv'
             /\ th'[w] = r /\ \A u \in Threads \ {w} : th'[u] = th[u]
  <2>1. LocalInv' /\ th'[w] = r /\ \A u \in Threads \ {w} : th'[u] = th[u]
    BY <1>0, <1>1, <1>5, OneThread
  <2>2. RunInv'
    <3>1. \A m \in Mutators : th'[m] = th[m]
      BY <2>1, <1>1 DEF Threads
    <3> QED
      BY <3>1, <1>0, <1>3 DEF RunInv, localVars
  <2>3. CountInv'
    <3>1. \A u \in Threads : th[u].pc \in UserPcs <=> th'[u].pc \in UserPcs
      BY <2>1, <1>2, <1>5 DEF UserPcs
    <3> QED
      BY <3>1, <1>0, <1>3, CountKept
  <2> QED
    BY <2>1, <2>2, <2>3
<1>6. CASE SweepPages(w)
  <2>1. PICK p \in tasks : /\ tasks' = tasks \ {p}
                           /\ cursor' = [cursor EXCEPT ![w] = p]
                           /\ Goto(w, "next")
    BY <1>6 DEF SweepPages
  <2> DEFINE r == [th[w] EXCEPT !.pc = "next"]
  <2>2. r \in Locals /\ th' = [th EXCEPT ![w] = r]
    BY <2>1, <1>0, <1>1, GotoSets DEF Pcs
  <2>3. r.pc = "next"
    BY <1>2 DEF Locals
  <2> HIDE DEF r
  <2>4. LocalOK(w, r)
    BY <2>3, <1>1 DEF LocalOK, SweepPcs
  <2>5. /\ LocalInv' /\ RunInv' /\ CountInv'
        /\ th'[w] = r /\ \A u \in Threads \ {w} : th'[u] = th[u]
    BY <2>2, <2>3, <2>4, <1>5
  <2>6. p \in 0 .. NPages /\ p <= highestPageIndex
    BY <1>0 DEF WorkInv, HeapOK, Pages
  <2>7. cursor' \in [Workers -> 0 .. NPages]
    BY <2>1, <2>6, <1>0 DEF HeapOK
  <2>8. WorkInv'
    <3>1. \A v \in Workers : th'[v].pc = "idle" \/ cursor'[v] <= highestPageIndex
      BY <2>1, <2>5, <2>6, <1>0 DEF WorkInv, At, HeapOK, Threads
    <3>2. tasks' \subseteq 1 .. highestPageIndex
      BY <2>1, <1>0 DEF WorkInv
    <3> QED
      BY <3>1, <3>2, <1>3, <1>4 DEF WorkInv, At
  <2>9. HeapOK'
    BY <2>1, <2>7, <1>0, <1>6
       DEF SweepPages, HeapOK, spaceVars, runVars, localVars, gcVars, ctxVars
  <2> QED
    BY <2>5, <2>8, <2>9 DEF Parts
<1>7. CASE SweepPage(w)
  <2> DEFINE c == cursor[w]
             r == CallSweep(Rest, c, "next")
  <2>1. /\ c # 0 /\ th' = [th EXCEPT ![w] = r]
        /\ cursor' = [cursor EXCEPT ![w] = IF TaskEnd(c) THEN 0 ELSE c + 1]
    BY <1>7 DEF SweepPage, Set
  <2>2. c \in Pages /\ c <= highestPageIndex
    <3>1. c \in 0 .. NPages
      BY <1>0 DEF HeapOK
    <3>2. ~ At(w, "idle")
      BY <1>7 DEF SweepPage, At
    <3> QED
      BY <3>1, <3>2, <2>1, <1>0 DEF WorkInv, Pages
  <2>3. /\ r \in Locals /\ r.pc \in {"tryInc", "next"} /\ r.page = c
        /\ r.ret = "next"
    <3>1. Rest \in Locals
      BY RestLocals DEF Pcs
    <3> QED
      BY <3>1, <2>2, SweepLocals
  <2> HIDE DEF r
  <2>4. LocalOK(w, r)
    BY <2>2, <2>3, <1>1 DEF LocalOK, SweepPcs
  <2>5. /\ LocalInv' /\ RunInv' /\ CountInv'
        /\ th'[w] = r /\ \A u \in Threads \ {w} : th'[u] = th[u]
    BY <2>1, <2>3, <2>4, <1>5
  <2>6. cursor'[w] \in 0 .. NPages /\ cursor'[w] <= highestPageIndex
    <3>1. highestPageIndex \in 0 .. NPages
      BY <1>0 DEF HeapOK
    <3>2. cursor'[w] \in {0, c + 1} /\ (c = highestPageIndex => cursor'[w] = 0)
      BY <2>1, <1>0 DEF HeapOK, TaskEnd
    <3>3. NPages \in Nat /\ highestPageIndex \in Nat /\ c \in Nat
      BY <3>1, <2>2, ConstantsAssumption DEF Pages
    <3>4. CASE c = highestPageIndex
      BY <3>1, <3>2, <3>3, <3>4
    <3>5. CASE c < highestPageIndex
      BY <3>1, <3>2, <3>3, <3>5
    <3> QED
      BY <3>3, <3>4, <3>5, <2>2
  <2>7. /\ cursor' \in [Workers -> 0 .. NPages]
        /\ \A v \in Workers \ {w} : cursor'[v] = cursor[v]
    BY <2>1, <2>6, <1>0 DEF HeapOK
  <2>8. WorkInv'
    <3>1. \A v \in Workers : th'[v].pc = "idle" \/ cursor'[v] <= highestPageIndex
      BY <2>5, <2>6, <2>7, <1>0 DEF WorkInv, At, Threads
    <3>2. tasks' = tasks
      BY <1>7 DEF SweepPage
    <3> QED
      BY <3>1, <3>2, <1>0, <1>3, <1>4 DEF WorkInv, At
  <2>9. HeapOK'
    BY <2>7, <1>0, <1>7
       DEF SweepPage, HeapOK, spaceVars, runVars, localVars, gcVars, ctxVars
  <2> QED
    BY <2>5, <2>8, <2>9 DEF Parts
<1>8. CASE ClearBuffer(w)
  <2>1. Rest \in Locals /\ Rest.pc = "idle"
    BY RestLocals DEF Rest, Pcs
  <2>2. LocalOK(w, Rest)
    BY <2>1, <1>1 DEF LocalOK, SweepPcs
  <2>3. th' = [th EXCEPT ![w] = Rest]
    BY <1>8 DEF ClearBuffer, Set
  <2>4. /\ LocalInv' /\ RunInv' /\ CountInv'
        /\ th'[w] = Rest /\ \A u \in Threads \ {w} : th'[u] = th[u]
    BY <2>1, <2>2, <2>3, <1>5
  <2>5. /\ cursor' \in [Workers -> 0 .. NPages]
        /\ \A v \in Workers \ {w} : cursor'[v] = cursor[v]
    BY <1>0, <1>8, ConstantsAssumption DEF ClearBuffer, HeapOK
  <2>6. WorkInv'
    <3>1. \A v \in Workers : th'[v].pc = "idle" \/ cursor'[v] <= highestPageIndex
      BY <2>1, <2>4, <2>5, <1>0 DEF WorkInv, At, Threads
    <3>2. tasks' = tasks
      BY <1>8 DEF ClearBuffer
    <3> QED
      BY <3>1, <3>2, <1>0, <1>3, <1>4 DEF WorkInv, At
  <2>7. avail' \in SUBSET Pages /\ buffer' \in [Workers -> SUBSET Pages]
    BY <1>0, <1>8 DEF ClearBuffer, HeapOK
  <2>8. HeapOK'
    BY <2>5, <2>7, <1>0, <1>8
       DEF ClearBuffer, HeapOK, runVars, localVars, gcVars, ctxVars
  <2> QED
    BY <2>4, <2>6, <2>8 DEF Parts
<1> QED
  BY <1>6, <1>7, <1>8

-----------------------------------------------------------------------------
(* Steps of the mutators.                                                  *)

(* A step of a mutator outside Sweep().                                    *)
LEMMA MutatorStep ==
  ASSUME LocalInv, WorkInv, CountInv, NEW m \in Mutators,
         th[m].pc \notin UserPcs, NEW r \in Locals, LocalOK(m, r),
         r.pc \notin UserPcs, th' = [th EXCEPT ![m] = r],
         UNCHANGED <<ctxVars, taskVars, gcVars>>
  PROVE  /\ LocalInv' /\ WorkInv' /\ CountInv'
         /\ th'[m] = r
         /\ \A u \in Threads \ {m} : th'[u] = th[u]
<1>1. m \in Threads /\ m \notin Workers
  BY ConstantsAssumption DEF Threads
<1>2. LocalInv' /\ th'[m] = r /\ \A u \in Threads \ {m} : th'[u] = th[u]
  BY <1>1, OneThread
<1>3. WorkInv'
  <2>1. \A w \in Workers : th'[w] = th[w]
    BY <1>1, <1>2 DEF Threads
  <2> QED
    BY <2>1 DEF WorkInv, At, taskVars, ctxVars, gcVars
<1>4. CountInv'
  <2>1. \A u \in Threads : th[u].pc \in UserPcs <=> th'[u].pc \in UserPcs
    BY <1>2
  <2>2. Held' = Held
    BY DEF Held, gcVars
  <2> QED
    BY <2>1, <2>2, CountKept DEF ctxVars
<1> QED
  BY <1>2, <1>3, <1>4

(* An operation is over, with nothing in the thread's locals.              *)
LEMMA RestOK ==
  ASSUME NEW m \in Mutators, NEW l \in {"idle", "absent"}
  PROVE  /\ Rest \in Locals /\ LocalOK(m, Rest)
         /\ Rest.pc \notin UserPcs /\ ~ Revoking(Rest)
         /\ [Rest EXCEPT !.pc = l] \in Locals
         /\ LocalOK(m, [Rest EXCEPT !.pc = l])
         /\ [Rest EXCEPT !.pc = l].pc \notin UserPcs
         /\ ~ Revoking([Rest EXCEPT !.pc = l])
<1>1. Rest \in Locals /\ [Rest EXCEPT !.pc = l] \in Locals
  BY RestLocals DEF Pcs
<1>2. Rest.pc = "idle" /\ [Rest EXCEPT !.pc = l].pc = l
  BY DEF Rest
<1>3. m \notin Workers
  BY ConstantsAssumption
<1> QED
  BY <1>1, <1>2, <1>3 DEF LocalOK, Allocating, Revoking, SweepPcs, UserPcs

(* A mutator goes on to free page p.                                       *)
LEMMA FreeRunOK ==
  ASSUME NEW m \in Mutators, NEW p \in Pages,
         NEW r, \/ r = [Rest EXCEPT !.pc = "freeRun", !.page = p]
                \/ r = [Rest EXCEPT !.pc = "freeRun", !.page = p,
                                    !.ret = "absent"]
  PROVE  /\ r \in Locals /\ LocalOK(m, r)
         /\ r.pc \notin UserPcs /\ ~ Revoking(r)
<1>1. Rest \in Locals /\ Rest.ret = "idle"
  BY RestLocals DEF Pcs, Rest
<1>2. /\ r \in Locals /\ r.pc = "freeRun" /\ r.page = p
      /\ r.ret \in {"idle", "absent"}
  BY <1>1 DEF Locals, Pcs
<1>3. m \notin Workers
  BY ConstantsAssumption
<1> QED
  BY <1>2, <1>3 DEF LocalOK, Allocating, Revoking, SweepPcs, UserPcs

(* A mutator calls Sweep() for page p.                                     *)
LEMMA CallOK ==
  ASSUME NEW m \in Mutators, NEW r \in Locals, NEW p \in Pages,
         NEW l \in CallRets,
         l \in {"local", "localise"} => r.owner \in {m, Global}
  PROVE  LET c == CallSweep(r, p, l)
         IN  /\ c \in Locals /\ LocalOK(m, c)
             /\ c.pc \notin UserPcs
             /\ Revoking(c) => l = "revoke"
<1> DEFINE c == CallSweep(r, p, l)
<1>1. /\ c \in Locals /\ c.pc \in {"tryInc", l}
      /\ c.page = p /\ c.ret = l /\ c.owner = r.owner
  BY SweepLocals
<1>2. m \notin Workers
  BY ConstantsAssumption
<1> HIDE DEF c
<1>3. /\ c \in Locals /\ LocalOK(m, c)
      /\ c.pc \notin UserPcs
      /\ Revoking(c) => l = "revoke"
  BY <1>1, <1>2 DEF LocalOK, Allocating, Revoking, SweepPcs, UserPcs, CallRets
<1> QED
  BY <1>3 DEF c

(* The runs of the other mutators are left alone.                          *)
LEMMA RunKept ==
  ASSUME LocalInv, RunInv, NEW m \in Mutators,
         \A u \in Threads \ {m} : th'[u] = th[u],
         Revoking(th'[m]) => localRun'[m] # None,
         \A n \in Mutators \ {m} : localRun'[n] = localRun[n],
         \A a \in Owners :
           localRun'[a] = None => localFree'[a] = {} /\ freeListHeads'[a] = {}
  PROVE  RunInv'
<1>1. \A n \in Mutators : Revoking(th'[n]) => localRun'[n] # None
  BY DEF RunInv, Threads
<1> QED
  BY <1>1 DEF RunInv

(* The types of what an operation returns.                                 *)
LEMMA NewObjOK ==
  ASSUME HeapOK, NEW m \in Mutators, NEW o \in Objs, NewObj(m, o)
  PROVE  /\ objects' \in SUBSET Objs /\ live' \in SUBSET Objs
         /\ globalLock' \in Mutators \cup {None}
         /\ th' = [th EXCEPT ![m] = Rest]
BY DEF HeapOK, NewObj, Unlock, Set

(* What AllocPagesInternal() returns is a page.                            *)
LEMMA NewPageOK ==
  ASSUME HeapOK, NEW p \in NewPages, NEW l \in {"run", "large"}, TakePage(p, l)
  PROVE  /\ p \in Pages
         /\ label' \in [Pages -> {"free", "run", "large"}]
         /\ avail' \in SUBSET Pages /\ spaceEnd' \in Pages
<1>1. p \in Pages
  BY DEF NewPages, HeapOK
<1> QED
  BY <1>1 DEF HeapOK, TakePage

LEMMA FastNewObjStep ==
  ASSUME IInv, NEW m \in Mutators, FastNewObj(m)
  PROVE  HeapOK' /\ Parts'
<1> DEFINE s == Fetch(localFree[m])
<1>0. LocalInv /\ RunInv /\ WorkInv /\ CountInv /\ HeapOK
  BY HeapPart DEF IInv
<1>1. m \in Owners
  BY DEF Owners
<1>2. s \in localFree[m] /\ s \in Slots /\ localRun[m] \in Pages
  <2>1. localFree[m] \in SUBSET Slots /\ localFree[m] # {}
    BY <1>0, <1>1 DEF FastNewObj, HeapOK
  <2> QED
    BY <2>1, <1>0, <1>1, FetchTakesOne DEF RunInv, HeapOK
<1>3. /\ objects' \in SUBSET Objs /\ live' \in SUBSET Objs
      /\ globalLock' \in Mutators \cup {None}
      /\ th' = [th EXCEPT ![m] = Rest]
  <2>1. <<localRun[m], s>> \in Objs
    BY <1>2 DEF Objs
  <2>2. NewObj(m, <<localRun[m], s>>)
    BY DEF FastNewObj
  <2> QED
    BY <2>1, <2>2, <1>0, NewObjOK
<1>4. /\ LocalInv' /\ WorkInv' /\ CountInv'
      /\ th'[m] = Rest
      /\ \A u \in Threads \ {m} : th'[u] = th[u]
  <2>1. th[m].pc \notin UserPcs /\ UNCHANGED <<ctxVars, taskVars, gcVars>>
    BY DEF FastNewObj, At, UserPcs
  <2> QED
    BY <2>1, <1>0, <1>3, RestOK, MutatorStep
<1>5. /\ localFree' \in [Owners -> SUBSET Slots]
      /\ \A a \in Owners : localFree'[a] \subseteq localFree[a]
  <2>1. localFree' = [localFree EXCEPT ![m] = @ \ {Fetch(@)}]
    BY DEF FastNewObj
  <2> QED
    BY <2>1, <1>0 DEF HeapOK
<1>6. RunInv'
  <2>1. UNCHANGED <<localRun, freeListHeads>>
    BY DEF FastNewObj
  <2>2. \A a \in Owners :
          localRun'[a] = None => localFree'[a] = {} /\ freeListHeads'[a] = {}
    BY <2>1, <1>0, <1>5 DEF RunInv
  <2>3. ~ Revoking(th'[m])
    BY <1>4, RestOK
  <2> QED
    BY <2>1, <2>2, <2>3, <1>0, <1>4, RunKept
<1>7. HeapOK'
  <2>1. ops' \in 0 .. MaxOps
    BY <1>0, ConstantsAssumption DEF FastNewObj, HeapOK
  <2> QED
    BY <2>1, <1>0, <1>3, <1>5
       DEF FastNewObj, HeapOK, spaceVars, runVars, ctxVars, taskVars, gcVars
<1> QED
  BY <1>4, <1>6, <1>7 DEF Parts

LEMMA AllocFromRunStep ==
  ASSUME IInv, NEW m \in Mutators, NEW a \in Owners, AllocFromRun(m, a)
  PROVE  HeapOK' /\ Parts'
<1> DEFINE q == [Rest EXCEPT !.owner = a]
           r == IF localRun[a] = None THEN [q EXCEPT !.pc = "local"]
                ELSE CallSweep(q, localRun[a], "local")
<1>0. LocalInv /\ RunInv /\ WorkInv /\ CountInv /\ HeapOK
  BY HeapPart DEF IInv
<1>1. a \in {m, Global}
  BY DEF AllocFromRun
<1>2. th' = [th EXCEPT ![m] = r]
  BY DEF AllocFromRun, Set
<1>3. Rest \in Locals
  BY RestLocals DEF Pcs
<1>4. q \in Locals /\ q.owner = a
  BY <1>3 DEF Locals
<1>5. r \in Locals /\ LocalOK(m, r) /\ r.pc \notin UserPcs /\ ~ Revoking(r)
  <2>1. CASE localRun[a] = None
    <3>1. r = [q EXCEPT !.pc = "local"]
      BY <2>1
    <3> HIDE DEF q
    <3>2. r \in Locals /\ r.pc = "local" /\ r.owner = a
      BY <3>1, <1>4 DEF Locals, Pcs, CallRets
    <3>3. m \notin Workers
      BY ConstantsAssumption
    <3> HIDE DEF r
    <3> QED
      BY <3>2, <3>3, <1>1
         DEF LocalOK, Allocating, Revoking, SweepPcs, UserPcs
  <2>2. CASE localRun[a] # None
    <3>1. localRun[a] \in Pages
      BY <2>2, <1>0 DEF HeapOK
    <3>2. r = CallSweep(q, localRun[a], "local")
      BY <2>2
    <3> HIDE DEF q, r
    <3> QED
      BY <3>1, <3>2, <1>1, <1>4, CallOK DEF CallRets
  <2> QED
    BY <2>1, <2>2
<1> HIDE DEF r
<1>6. /\ LocalInv' /\ WorkInv' /\ CountInv'
      /\ th'[m] = r
      /\ \A u \in Threads \ {m} : th'[u] = th[u]
  <2>1. th[m].pc \notin UserPcs /\ UNCHANGED <<ctxVars, taskVars, gcVars>>
    BY DEF AllocFromRun, At, UserPcs
  <2> QED
    BY <2>1, <1>0, <1>2, <1>5, MutatorStep
<1>7. RunInv'
  <2>1. UNCHANGED <<localRun, localFree, freeListHeads>>
    BY DEF AllocFromRun
  <2> QED
    BY <2>1, <1>0, <1>5, <1>6, RunKept DEF RunInv
<1>8. HeapOK'
  <2>1. ops' \in 0 .. MaxOps
    BY <1>0, ConstantsAssumption DEF AllocFromRun, HeapOK
  <2>2. /\ useLocal' \in [Mutators -> BOOLEAN]
        /\ globalLock' \in Mutators \cup {None}
    BY <1>0 DEF AllocFromRun, HeapOK
  <2> QED
    BY <2>1, <2>2, <1>0
       DEF AllocFromRun, HeapOK, spaceVars, runVars, ctxVars, taskVars, gcVars
<1> QED
  BY <1>6, <1>7, <1>8 DEF Parts

LEMMA AllocFromLocalRunStep ==
  ASSUME IInv, NEW m \in Mutators, AllocFromLocalRun(m)
  PROVE  HeapOK' /\ Parts'
<1> DEFINE a    == th[m].owner
           run  == localRun[a]
           list == localFree[a] \cup freeListHeads[a]
           more == IF run = None THEN {} ELSE freeList[run]
<1>0. LocalInv /\ RunInv /\ WorkInv /\ CountInv /\ HeapOK
  BY HeapPart DEF IInv
<1>1. m \in Threads /\ th[m].pc = "local" /\ th[m].pc \notin UserPcs
  BY DEF AllocFromLocalRun, At, UserPcs, Threads
<1>2. /\ th[m] \in Locals /\ LocalOK(m, th[m])
      /\ a \in {m, Global} /\ a \in Owners
  BY <1>0, <1>1 DEF LocalInv, LocalOK, Allocating, Owners
<1>3. UNCHANGED <<ctxVars, taskVars, gcVars>>
  BY DEF AllocFromLocalRun
<1>4. /\ run \in Pages \cup {None} /\ list \in SUBSET Slots
      /\ more \in SUBSET Slots
      /\ list # {} => run \in Pages
      /\ more # {} => run \in Pages
  BY <1>0, <1>2 DEF HeapOK, RunInv
<1>5. freeListHeads' = [freeListHeads EXCEPT ![a] = {}]
  BY DEF AllocFromLocalRun
<1>6. freeListHeads' \in [Owners -> SUBSET Slots]
  BY <1>0, <1>5 DEF HeapOK
<1>7. ASSUME NEW l \in SUBSET Slots, l # {}, run \in Pages,
             NewObj(m, <<run, Fetch(l)>>),
             localFree' = [localFree EXCEPT ![a] = l \ {Fetch(l)}],
             freeList' \in {freeList, [freeList EXCEPT ![run] = {}]},
             UNCHANGED <<isLocal, localRun>>
      PROVE  HeapOK' /\ Parts'
  <2>1. <<run, Fetch(l)>> \in Objs
    BY <1>7, FetchTakesOne DEF Objs
  <2>2. /\ objects' \in SUBSET Objs /\ live' \in SUBSET Objs
        /\ globalLock' \in Mutators \cup {None}
        /\ th' = [th EXCEPT ![m] = Rest]
    BY <2>1, <1>0, <1>7, NewObjOK
  <2>3. /\ LocalInv' /\ WorkInv' /\ CountInv' /\ th'[m] = Rest
        /\ \A u \in Threads \ {m} : th'[u] = th[u]
    BY <2>2, <1>0, <1>1, <1>3, RestOK, MutatorStep
  <2>4. localFree' \in [Owners -> SUBSET Slots] /\ freeList' \in [Pages -> SUBSET Slots]
    BY <1>0, <1>7 DEF HeapOK
  <2>5. RunInv'
    <3>1. \A b \in Owners :
            localRun'[b] = None => localFree'[b] = {} /\ freeListHeads'[b] = {}
      <4>1. localRun[a] # None
        BY <1>7, ConstantsAssumption DEF Pages
      <4> QED
        BY <4>1, <1>0, <1>5, <1>7 DEF RunInv, HeapOK
    <3>2. ~ Revoking(th'[m])
      BY <2>3, RestOK
    <3> QED
      BY <3>1, <3>2, <2>3, <1>0, <1>7, RunKept
  <2>6. HeapOK'
    BY <2>2, <2>4, <1>0, <1>6, <1>7
       DEF AllocFromLocalRun, HeapOK, spaceVars, ctxVars, taskVars, gcVars
  <2> QED
    BY <2>3, <2>5, <2>6 DEF Parts
<1>8. ASSUME list = {}, localRun' = [localRun EXCEPT ![a] = None],
             isLocal' = [p \in Pages |-> p # run /\ isLocal[p]],
             Goto(m, "fetch"),
             UNCHANGED <<objects, live, globalLock, localFree, freeList>>
      PROVE  HeapOK' /\ Parts'
  <2> DEFINE r == [th[m] EXCEPT !.pc = "fetch"]
  <2>1. r \in Locals /\ th' = [th EXCEPT ![m] = r]
    BY <1>0, <1>1, <1>8, GotoSets DEF Pcs
  <2>2. r.pc = "fetch" /\ r.owner = a
    BY <1>2 DEF Locals
  <2> HIDE DEF r
  <2>3. LocalOK(m, r) /\ r.pc \notin UserPcs /\ ~ Revoking(r)
    <3>1. m \notin Workers
      BY ConstantsAssumption
    <3> QED
      BY <3>1, <2>2, <1>2 DEF LocalOK, Allocating, Revoking, SweepPcs, UserPcs
  <2>4. /\ LocalInv' /\ WorkInv' /\ CountInv' /\ th'[m] = r
        /\ \A u \in Threads \ {m} : th'[u] = th[u]
    BY <2>1, <2>3, <1>0, <1>1, <1>3, MutatorStep
  <2>5. RunInv'
    <3>1. \A n \in Mutators \ {m} : localRun'[n] = localRun[n]
      BY <1>2, <1>0, <1>8, ConstantsAssumption DEF HeapOK, Owners
    <3>2. \A b \in Owners :
            localRun'[b] = None => localFree'[b] = {} /\ freeListHeads'[b] = {}
      BY <1>0, <1>5, <1>8 DEF RunInv, HeapOK
    <3> QED
      BY <3>1, <3>2, <2>3, <2>4, <1>0, RunKept
  <2>6. localRun' \in [Owners -> Pages \cup {None}] /\ isLocal' \in [Pages -> BOOLEAN]
    BY <1>0, <1>8 DEF HeapOK
  <2>7. HeapOK'
    BY <2>6, <1>0, <1>6, <1>8
       DEF AllocFromLocalRun, HeapOK, spaceVars, ctxVars, taskVars, gcVars
  <2> QED
    BY <2>4, <2>5, <2>7 DEF Parts
<1>9. CASE list # {}
  <2>1. /\ NewObj(m, <<run, Fetch(list)>>)
        /\ localFree' = [localFree EXCEPT ![a] = list \ {Fetch(list)}]
        /\ UNCHANGED <<freeList, isLocal, localRun>>
    BY <1>9 DEF AllocFromLocalRun
  <2> QED
    BY <2>1, <1>4, <1>7, <1>9
<1>10. CASE list = {} /\ more # {}
  <2>1. /\ NewObj(m, <<run, Fetch(more)>>)
        /\ localFree' = [localFree EXCEPT ![a] = more \ {Fetch(more)}]
        /\ freeList' = [freeList EXCEPT ![run] = {}]
        /\ UNCHANGED <<isLocal, localRun>>
    BY <1>10 DEF AllocFromLocalRun
  <2> QED
    BY <2>1, <1>4, <1>7, <1>10
<1>11. CASE list = {} /\ more = {}
  <2>1. /\ localRun' = [localRun EXCEPT ![a] = None]
        /\ isLocal' = [p \in Pages |-> p # run /\ isLocal[p]]
        /\ Goto(m, "fetch")
        /\ UNCHANGED <<objects, live, globalLock, localFree, freeList>>
    BY <1>11 DEF AllocFromLocalRun
  <2> QED
    BY <2>1, <1>8, <1>11
<1> QED
  BY <1>9, <1>10, <1>11

LEMMA FetchRunStep ==
  ASSUME IInv, NEW m \in Mutators, FetchRunFromNonFulls(m)
  PROVE  HeapOK' /\ Parts'
<1>0. LocalInv /\ RunInv /\ WorkInv /\ CountInv /\ HeapOK
  BY HeapPart DEF IInv
<1>1. /\ m \in Threads /\ m \notin Workers /\ th[m].pc = "fetch"
      /\ th[m].pc \notin UserPcs
  BY ConstantsAssumption DEF FetchRunFromNonFulls, At, UserPcs, Threads
<1>2. th[m] \in Locals /\ LocalOK(m, th[m]) /\ th[m].owner \in {m, Global}
  BY <1>0, <1>1 DEF LocalInv, LocalOK, Allocating
<1>3. ASSUME NEW r \in Locals, LocalOK(m, r), r.pc \notin UserPcs,
             ~ Revoking(r), th' = [th EXCEPT ![m] = r],
             nonFullRuns' \in SUBSET Pages
      PROVE  HeapOK' /\ Parts'
  <2>1. UNCHANGED <<ctxVars, taskVars, gcVars, localRun, localFree, freeListHeads>>
    BY DEF FetchRunFromNonFulls, localVars
  <2>2. /\ LocalInv' /\ WorkInv' /\ CountInv' /\ th'[m] = r
        /\ \A u \in Threads \ {m} : th'[u] = th[u]
    BY <2>1, <1>0, <1>1, <1>3, MutatorStep
  <2>3. RunInv'
    BY <2>1, <2>2, <1>0, <1>3, RunKept DEF RunInv
  <2>4. HeapOK'
    BY <1>0, <1>3
       DEF FetchRunFromNonFulls, HeapOK, spaceVars, localVars, ctxVars,
           taskVars, gcVars
  <2> QED
    BY <2>2, <2>3, <2>4 DEF Parts
<1>4. ASSUME NEW p \in nonFullRuns, nonFullRuns' = nonFullRuns \ {p},
             Set(m, CallSweep(th[m], p, "localise"))
      PROVE  HeapOK' /\ Parts'
  <2> DEFINE r == CallSweep(th[m], p, "localise")
  <2>1. p \in Pages /\ nonFullRuns' \in SUBSET Pages
    BY <1>0, <1>4 DEF HeapOK
  <2>2. r \in Locals /\ LocalOK(m, r) /\ r.pc \notin UserPcs /\ ~ Revoking(r)
    BY <2>1, <1>2, CallOK DEF CallRets
  <2>3. th' = [th EXCEPT ![m] = r]
    BY <1>4 DEF Set
  <2> HIDE DEF r
  <2> QED
    BY <2>1, <2>2, <2>3, <1>3
<1>5. ASSUME Goto(m, "allocRun"), nonFullRuns' = nonFullRuns
      PROVE  HeapOK' /\ Parts'
  <2> DEFINE r == [th[m] EXCEPT !.pc = "allocRun"]
  <2>1. r \in Locals /\ th' = [th EXCEPT ![m] = r]
    BY <1>0, <1>1, <1>5, GotoSets DEF Pcs
  <2>2. r.pc = "allocRun" /\ r.owner = th[m].owner
    BY <1>2 DEF Locals
  <2> HIDE DEF r
  <2>3. LocalOK(m, r) /\ r.pc \notin UserPcs /\ ~ Revoking(r)
    BY <2>2, <1>1, <1>2 DEF LocalOK, Allocating, Revoking, SweepPcs, UserPcs
  <2>4. nonFullRuns' \in SUBSET Pages
    BY <1>0, <1>5 DEF HeapOK
  <2> QED
    BY <2>1, <2>3, <2>4, <1>3
<1> QED
  BY <1>4, <1>5 DEF FetchRunFromNonFulls

LEMMA AllocRunStep ==
  ASSUME IInv, NEW m \in Mutators, AllocRun(m)
  PROVE  HeapOK' /\ Parts'
<1>0. LocalInv /\ RunInv /\ WorkInv /\ CountInv /\ HeapOK
  BY HeapPart DEF IInv
<1>1. /\ m \in Threads /\ m \notin Workers /\ th[m].pc = "allocRun"
      /\ th[m].pc \notin UserPcs
  BY ConstantsAssumption DEF AllocRun, At, UserPcs, Threads
<1>2. th[m] \in Locals /\ LocalOK(m, th[m]) /\ th[m].owner \in {m, Global}
  BY <1>0, <1>1 DEF LocalInv, LocalOK, Allocating
<1>3. ASSUME NEW r \in Locals, LocalOK(m, r), r.pc \notin UserPcs,
             ~ Revoking(r), th' = [th EXCEPT ![m] = r],
             label' \in [Pages -> {"free", "run", "large"}],
             avail' \in SUBSET Pages, spaceEnd' \in Pages,
             freeList' \in [Pages -> SUBSET Slots],
             globalLock' \in Mutators \cup {None}
      PROVE  HeapOK' /\ Parts'
  <2>1. UNCHANGED <<ctxVars, taskVars, gcVars, localRun, localFree, freeListHeads>>
    BY DEF AllocRun, localVars
  <2>2. /\ LocalInv' /\ WorkInv' /\ CountInv' /\ th'[m] = r
        /\ \A u \in Threads \ {m} : th'[u] = th[u]
    BY <2>1, <1>0, <1>1, <1>3, MutatorStep
  <2>3. RunInv'
    BY <2>1, <2>2, <1>0, <1>3, RunKept DEF RunInv
  <2>4. HeapOK'
    BY <1>0, <1>3
       DEF AllocRun, HeapOK, localVars, ctxVars, taskVars, gcVars
  <2> QED
    BY <2>2, <2>3, <2>4 DEF Parts
<1>4. ASSUME NEW p \in NewPages, TakePage(p, "run"),
             freeList' = [freeList EXCEPT ![p] = Slots],
             Set(m, CallSweep(th[m], p, "localise")), UNCHANGED globalLock
      PROVE  HeapOK' /\ Parts'
  <2> DEFINE r == CallSweep(th[m], p, "localise")
  <2>1. /\ p \in Pages
        /\ label' \in [Pages -> {"free", "run", "large"}]
        /\ avail' \in SUBSET Pages /\ spaceEnd' \in Pages
    BY <1>0, <1>4, NewPageOK
  <2>2. r \in Locals /\ LocalOK(m, r) /\ r.pc \notin UserPcs /\ ~ Revoking(r)
    BY <2>1, <1>2, CallOK DEF CallRets
  <2>3. th' = [th EXCEPT ![m] = r]
    BY <1>4 DEF Set
  <2>4. /\ freeList' \in [Pages -> SUBSET Slots]
        /\ globalLock' \in Mutators \cup {None}
    BY <2>1, <1>0, <1>4 DEF HeapOK
  <2> HIDE DEF r
  <2> QED
    BY <2>1, <2>2, <2>3, <2>4, <1>3
<1>5. ASSUME Set(m, Rest), Unlock(m), UNCHANGED <<spaceVars, freeList>>
      PROVE  HeapOK' /\ Parts'
  <2>1. th' = [th EXCEPT ![m] = Rest]
    BY <1>5 DEF Set
  <2>2. /\ label' \in [Pages -> {"free", "run", "large"}]
        /\ avail' \in SUBSET Pages /\ spaceEnd' \in Pages
        /\ freeList' \in [Pages -> SUBSET Slots]
        /\ globalLock' \in Mutators \cup {None}
    BY <1>0, <1>5 DEF HeapOK, spaceVars, Unlock
  <2> QED
    BY <2>1, <2>2, <1>3, RestOK
<1> QED
  BY <1>4, <1>5 DEF AllocRun

LEMMA LocaliseRunStep ==
  ASSUME IInv, NEW m \in Mutators, LocaliseRun(m)
  PROVE  HeapOK' /\ Parts'
<1> DEFINE a == th[m].owner
           p == th[m].page
           s == Fetch(freeList[p])
<1>0. LocalInv /\ RunInv /\ WorkInv /\ CountInv /\ HeapOK
  BY HeapPart DEF IInv
<1>1. m \in Threads /\ th[m].pc = "localise" /\ th[m].pc \notin UserPcs
  BY DEF LocaliseRun, At, UserPcs, Threads
<1>2. /\ th[m] \in Locals /\ LocalOK(m, th[m])
      /\ a \in {m, Global} /\ a \in Owners /\ p \in Pages
  BY <1>0, <1>1 DEF LocalInv, LocalOK, Allocating, Owners
<1>3. s \in Slots
  <2>1. freeList[p] \in SUBSET Slots /\ freeList[p] # {}
    BY <1>0, <1>2 DEF HeapOK, LocaliseRun
  <2> QED
    BY <2>1, FetchTakesOne
<1>4. /\ objects' \in SUBSET Objs /\ live' \in SUBSET Objs
      /\ globalLock' \in Mutators \cup {None}
      /\ th' = [th EXCEPT ![m] = Rest]
  <2>1. <<p, s>> \in Objs
    BY <1>2, <1>3 DEF Objs
  <2>2. NewObj(m, <<p, s>>)
    BY DEF LocaliseRun
  <2> QED
    BY <2>1, <2>2, <1>0, NewObjOK
<1>5. /\ LocalInv' /\ WorkInv' /\ CountInv' /\ th'[m] = Rest
      /\ \A u \in Threads \ {m} : th'[u] = th[u]
  <2>1. UNCHANGED <<ctxVars, taskVars, gcVars>>
    BY DEF LocaliseRun
  <2> QED
    BY <2>1, <1>0, <1>1, <1>4, RestOK, MutatorStep
<1>6. /\ localFree' \in [Owners -> SUBSET Slots]
      /\ freeList' \in [Pages -> SUBSET Slots]
      /\ isLocal' \in [Pages -> BOOLEAN]
      /\ localRun' \in [Owners -> Pages \cup {None}]
  BY <1>0, <1>2 DEF LocaliseRun, HeapOK
<1>7. RunInv'
  <2>1. p # None
    BY <1>2, ConstantsAssumption DEF Pages
  <2>2. /\ localRun' = [localRun EXCEPT ![a] = p]
        /\ localFree' = [localFree EXCEPT ![a] = freeList[p] \ {s}]
        /\ freeListHeads' = freeListHeads
    BY DEF LocaliseRun
  <2>3. \A b \in Owners :
          localRun'[b] = None => localFree'[b] = {} /\ freeListHeads'[b] = {}
    BY <2>1, <2>2, <1>0, <1>2 DEF RunInv, HeapOK
  <2>4. \A n \in Mutators \ {m} : localRun'[n] = localRun[n]
    BY <2>2, <1>0, <1>2, ConstantsAssumption DEF HeapOK, Owners
  <2>5. ~ Revoking(th'[m])
    BY <1>5, RestOK
  <2> QED
    BY <2>3, <2>4, <2>5, <1>0, <1>5, RunKept
<1>8. HeapOK'
  BY <1>0, <1>4, <1>6
     DEF LocaliseRun, HeapOK, spaceVars, ctxVars, taskVars, gcVars
<1> QED
  BY <1>5, <1>7, <1>8 DEF Parts

LEMMA AllocLargeObjectStep ==
  ASSUME IInv, NEW m \in Mutators, NEW p \in Pages, AllocLargeObject(m, p)
  PROVE  HeapOK' /\ Parts'
<1>0. LocalInv /\ RunInv /\ WorkInv /\ CountInv /\ HeapOK
  BY HeapPart DEF IInv
<1>1. /\ objects' \in SUBSET Objs /\ live' \in SUBSET Objs
      /\ globalLock' \in Mutators \cup {None}
      /\ th' = [th EXCEPT ![m] = Rest]
  <2>1. <<p, 1>> \in Objs
    BY ConstantsAssumption DEF Objs, Slots
  <2>2. NewObj(m, <<p, 1>>)
    BY DEF AllocLargeObject
  <2> QED
    BY <2>1, <2>2, <1>0, NewObjOK
<1>2. /\ LocalInv' /\ WorkInv' /\ CountInv' /\ th'[m] = Rest
      /\ \A u \in Threads \ {m} : th'[u] = th[u]
  <2>1. th[m].pc \notin UserPcs /\ UNCHANGED <<ctxVars, taskVars, gcVars>>
    BY DEF AllocLargeObject, At, UserPcs
  <2> QED
    BY <2>1, <1>0, <1>1, RestOK, MutatorStep
<1>3. RunInv'
  <2>1. UNCHANGED <<localRun, localFree, freeListHeads>>
    BY DEF AllocLargeObject, localVars
  <2> QED
    BY <2>1, <1>0, <1>2, RestOK, RunKept DEF RunInv
<1>4. /\ label' \in [Pages -> {"free", "run", "large"}]
      /\ avail' \in SUBSET Pages /\ spaceEnd' \in Pages
  BY <1>0, NewPageOK DEF AllocLargeObject
<1>5. ops' \in 0 .. MaxOps
  BY <1>0, ConstantsAssumption DEF AllocLargeObject, HeapOK
<1>6. HeapOK'
  BY <1>0, <1>1, <1>4, <1>5
     DEF AllocLargeObject, HeapOK, runVars, localVars, ctxVars, taskVars, gcVars
<1> QED
  BY <1>2, <1>3, <1>6 DEF Parts

LEMMA FreeInternalStep ==
  ASSUME IInv, NEW m \in Mutators, NEW o \in Objs, FreeInternal(m, o)
  PROVE  HeapOK' /\ Parts'
<1> DEFINE l == IF label[o[1]] = "run" THEN "free" ELSE "freeLarge"
           q == [Rest EXCEPT !.slot = o[2]]
           r == CallSweep(q, o[1], l)
<1>0. LocalInv /\ RunInv /\ WorkInv /\ CountInv /\ HeapOK
  BY HeapPart DEF IInv
<1>1. o[1] \in Pages /\ o[2] \in Slots
  BY DEF Objs
<1>2. q \in Locals
  <2>1. Rest \in Locals
    BY RestLocals DEF Pcs
  <2> QED
    BY <2>1, <1>1 DEF Locals
<1>3. l \in CallRets /\ l \notin {"local", "localise", "revoke"}
  BY DEF CallRets
<1>4. th' = [th EXCEPT ![m] = r]
  BY DEF FreeInternal, Set
<1> HIDE DEF l, q
<1>5. r \in Locals /\ LocalOK(m, r) /\ r.pc \notin UserPcs /\ ~ Revoking(r)
  BY <1>1, <1>2, <1>3, CallOK
<1> HIDE DEF r
<1>6. /\ LocalInv' /\ WorkInv' /\ CountInv' /\ th'[m] = r
      /\ \A u \in Threads \ {m} : th'[u] = th[u]
  <2>1. th[m].pc \notin UserPcs /\ UNCHANGED <<ctxVars, taskVars, gcVars>>
    BY DEF FreeInternal, At, UserPcs
  <2> QED
    BY <2>1, <1>0, <1>4, <1>5, MutatorStep
<1>7. RunInv'
  <2>1. UNCHANGED <<localRun, localFree, freeListHeads>>
    BY DEF FreeInternal, localVars
  <2> QED
    BY <2>1, <1>0, <1>5, <1>6, RunKept DEF RunInv
<1>8. ops' \in 0 .. MaxOps
  BY <1>0, ConstantsAssumption DEF FreeInternal, HeapOK
<1>9. HeapOK'
  BY <1>0, <1>8
     DEF FreeInternal, HeapOK, spaceVars, runVars, localVars, ctxVars, taskVars,
         gcVars
<1> QED
  BY <1>6, <1>7, <1>9 DEF Parts

LEMMA FreeFromRunStep ==
  ASSUME IInv, NEW m \in Mutators, FreeFromRun(m)
  PROVE  HeapOK' /\ Parts'
<1> DEFINE p  == th[m].page
           fl == freeList[p] \cup {th[m].slot}
<1>0. LocalInv /\ RunInv /\ WorkInv /\ CountInv /\ HeapOK
  BY HeapPart DEF IInv
<1>1. m \in Threads /\ th[m].pc = "free" /\ th[m].pc \notin UserPcs /\ m \in Owners
  BY DEF FreeFromRun, At, UserPcs, Threads, Owners
<1>2. /\ th[m] \in Locals /\ LocalOK(m, th[m])
      /\ p \in Pages /\ th[m].slot \in Slots
  BY <1>0, <1>1 DEF LocalInv, LocalOK, Locals
<1>3. objects' \subseteq objects /\ UNCHANGED <<ctxVars, taskVars, gcVars, localRun>>
  BY DEF FreeFromRun
<1>4. ASSUME NEW r \in Locals, LocalOK(m, r), r.pc \notin UserPcs,
             ~ Revoking(r), Set(m, r),
             freeList' \in [Pages -> SUBSET Slots],
             nonFullRuns' \in SUBSET Pages,
             localFree' \in [Owners -> SUBSET Slots],
             freeListHeads' \in [Owners -> SUBSET Slots],
             \A a \in Owners : localRun[a] = None =>
                localFree'[a] = {} /\ freeListHeads'[a] = {}
      PROVE  HeapOK' /\ Parts'
  <2>1. th' = [th EXCEPT ![m] = r]
    BY <1>4 DEF Set
  <2>2. /\ LocalInv' /\ WorkInv' /\ CountInv' /\ th'[m] = r
        /\ \A u \in Threads \ {m} : th'[u] = th[u]
    BY <2>1, <1>0, <1>1, <1>3, <1>4, MutatorStep
  <2>3. RunInv'
    BY <2>2, <1>0, <1>3, <1>4, RunKept
  <2>4. HeapOK'
    BY <1>0, <1>3, <1>4
       DEF FreeFromRun, HeapOK, spaceVars, ctxVars, taskVars, gcVars
  <2> QED
    BY <2>2, <2>3, <2>4 DEF Parts
<1>5. CASE localRun[m] = p
  <2>1. /\ localFree' = [localFree EXCEPT ![m] =
                            @ \cup freeListHeads[m] \cup {th[m].slot}]
        /\ freeListHeads' = [freeListHeads EXCEPT ![m] = {}]
        /\ Set(m, Rest)
        /\ UNCHANGED <<freeList, nonFullRuns>>
    BY <1>5 DEF FreeFromRun
  <2>2. /\ localFree' \in [Owners -> SUBSET Slots]
        /\ freeListHeads' \in [Owners -> SUBSET Slots]
        /\ freeList' \in [Pages -> SUBSET Slots]
        /\ nonFullRuns' \in SUBSET Pages
    BY <2>1, <1>0, <1>1, <1>2 DEF HeapOK
  <2>3. localRun[m] # None
    BY <1>2, <1>5, ConstantsAssumption DEF Pages
  <2>4. \A a \in Owners : localRun[a] = None =>
           localFree'[a] = {} /\ freeListHeads'[a] = {}
    BY <2>1, <2>3, <1>0 DEF RunInv, HeapOK
  <2> QED
    BY <2>1, <2>2, <2>4, <1>4, RestOK
<1>6. CASE localRun[m] # p
  <2>1. /\ freeList' = [freeList EXCEPT ![p] = fl]
        /\ nonFullRuns' = NonFullAfterFree(p, freeList[p] = {}, fl)
        /\ \/ Set(m, Rest)
           \/ Set(m, [Rest EXCEPT !.pc = "freeRun", !.page = p])
        /\ UNCHANGED <<localFree, freeListHeads>>
    BY <1>6 DEF FreeFromRun
  <2>2. /\ freeList' \in [Pages -> SUBSET Slots]
        /\ nonFullRuns' \in SUBSET Pages
        /\ localFree' \in [Owners -> SUBSET Slots]
        /\ freeListHeads' \in [Owners -> SUBSET Slots]
    BY <2>1, <1>0, <1>2 DEF HeapOK, NonFullAfterFree
  <2>3. \A a \in Owners : localRun[a] = None =>
           localFree'[a] = {} /\ freeListHeads'[a] = {}
    BY <2>1, <1>0 DEF RunInv
  <2> QED
    BY <2>1, <2>2, <2>3, <1>2, <1>4, RestOK, FreeRunOK
<1> QED
  BY <1>5, <1>6

LEMMA FreeLargeObjStep ==
  ASSUME IInv, NEW m \in Mutators, FreeLargeObj(m) \/ AddAllocMutator(m)
  PROVE  HeapOK' /\ Parts'
<1>0. LocalInv /\ RunInv /\ WorkInv /\ CountInv /\ HeapOK
  BY HeapPart DEF IInv
<1>1. m \in Threads /\ th[m].pc \notin UserPcs
  BY DEF FreeLargeObj, AddAllocMutator, At, UserPcs, Threads
<1>2. UNCHANGED <<ctxVars, taskVars, gcVars, localRun, localFree, freeListHeads>>
  BY DEF FreeLargeObj, AddAllocMutator, localVars
<1>3. HeapOK'
  BY <1>0
     DEF FreeLargeObj, AddAllocMutator, HeapOK, spaceVars, runVars, localVars,
         ctxVars, taskVars, gcVars
<1>4. \E r \in Locals : /\ LocalOK(m, r) /\ r.pc \notin UserPcs
                        /\ ~ Revoking(r) /\ th' = [th EXCEPT ![m] = r]
  <2>1. CASE FreeLargeObj(m)
    <3> DEFINE p == th[m].page
    <3>1. p \in Pages
      BY <2>1, <1>0, <1>1 DEF LocalInv, LocalOK, FreeLargeObj, At
    <3>2. th' = [th EXCEPT ![m] = [Rest EXCEPT !.pc = "freeRun", !.page = p]]
      BY <2>1 DEF FreeLargeObj, Set
    <3> QED
      BY <3>1, <3>2, FreeRunOK
  <2>2. CASE AddAllocMutator(m)
    BY <2>2, RestOK DEF AddAllocMutator, Set
  <2> QED
    BY <2>1, <2>2
<1>5. PICK r \in Locals : /\ LocalOK(m, r) /\ r.pc \notin UserPcs
                          /\ ~ Revoking(r) /\ th' = [th EXCEPT ![m] = r]
  BY <1>4
<1>6. /\ LocalInv' /\ WorkInv' /\ CountInv' /\ th'[m] = r
      /\ \A u \in Threads \ {m} : th'[u] = th[u]
  BY <1>0, <1>1, <1>2, <1>5, MutatorStep
<1>7. RunInv'
  BY <1>0, <1>2, <1>5, <1>6, RunKept DEF RunInv
<1> QED
  BY <1>3, <1>6, <1>7 DEF Parts

LEMMA RevokeLocalRunsStep ==
  ASSUME IInv, NEW m \in Mutators, RevokeLocalRuns(m)
  PROVE  HeapOK' /\ Parts'
<1> DEFINE r == IF localRun[m] = None THEN [Rest EXCEPT !.pc = "absent"]
                ELSE CallSweep(Rest, localRun[m], "revoke")
<1>0. LocalInv /\ RunInv /\ WorkInv /\ CountInv /\ HeapOK
  BY HeapPart DEF IInv
<1>1. m \in Owners
  BY DEF Owners
<1>2. /\ r \in Locals /\ LocalOK(m, r) /\ r.pc \notin UserPcs
      /\ Revoking(r) => localRun[m] # None
  <2>1. CASE localRun[m] = None
    BY <2>1, RestOK
  <2>2. CASE localRun[m] # None
    <3>1. localRun[m] \in Pages /\ Rest \in Locals
      BY <2>2, <1>0, <1>1, RestOK DEF HeapOK
    <3>2. r = CallSweep(Rest, localRun[m], "revoke")
      BY <2>2
    <3> HIDE DEF r
    <3> QED
      BY <3>1, <3>2, <2>2, CallOK DEF CallRets
  <2> QED
    BY <2>1, <2>2
<1>3. th' = [th EXCEPT ![m] = r]
  BY DEF RevokeLocalRuns, Set
<1> HIDE DEF r
<1>4. /\ LocalInv' /\ WorkInv' /\ CountInv' /\ th'[m] = r
      /\ \A u \in Threads \ {m} : th'[u] = th[u]
  <2>1. th[m].pc \notin UserPcs /\ UNCHANGED <<ctxVars, taskVars, gcVars>>
    BY DEF RevokeLocalRuns, At, UserPcs
  <2> QED
    BY <2>1, <1>0, <1>2, <1>3, MutatorStep
<1>5. RunInv'
  <2>1. UNCHANGED <<localRun, localFree, freeListHeads>>
    BY DEF RevokeLocalRuns
  <2> QED
    BY <2>1, <1>0, <1>2, <1>4, RunKept DEF RunInv
<1>6. ops' \in 0 .. MaxOps
  BY <1>0, ConstantsAssumption DEF RevokeLocalRuns, HeapOK
<1>7. useLocal' \in [Mutators -> BOOLEAN]
  <2>1. (useLocal[m] /\ localRun[m] # None) \in BOOLEAN
    OBVIOUS
  <2>2. useLocal' = [useLocal EXCEPT ![m] = useLocal[m] /\ localRun[m] # None]
    BY DEF RevokeLocalRuns
  <2> QED
    BY <2>1, <2>2, <1>0 DEF HeapOK
<1>8. HeapOK'
  BY <1>0, <1>6, <1>7
     DEF RevokeLocalRuns, HeapOK, spaceVars, runVars, ctxVars, taskVars, gcVars
<1> QED
  BY <1>4, <1>5, <1>8 DEF Parts

LEMMA RevokeLocalRunStep ==
  ASSUME IInv, NEW m \in Mutators, RevokeLocalRun(m)
  PROVE  HeapOK' /\ Parts'
<1> DEFINE p  == localRun[m]
           fl == freeList[p] \cup localFree[m] \cup freeListHeads[m]
<1>0. LocalInv /\ RunInv /\ WorkInv /\ CountInv /\ HeapOK
  BY HeapPart DEF IInv
<1>1. m \in Threads /\ th[m].pc = "revoke" /\ th[m].pc \notin UserPcs /\ m \in Owners
  BY DEF RevokeLocalRun, At, UserPcs, Threads, Owners
<1>2. p \in Pages
  BY <1>0, <1>1 DEF RunInv, Revoking, HeapOK
<1>3. fl \in SUBSET Slots
  BY <1>0, <1>1, <1>2 DEF HeapOK
<1>4. \E r \in Locals : /\ LocalOK(m, r) /\ r.pc \notin UserPcs
                        /\ ~ Revoking(r) /\ th' = [th EXCEPT ![m] = r]
  <2>1. \/ Set(m, [Rest EXCEPT !.pc = "freeRun", !.page = p, !.ret = "absent"])
        \/ Set(m, [Rest EXCEPT !.pc = "absent"])
    BY DEF RevokeLocalRun
  <2> QED
    BY <2>1, <1>2, FreeRunOK, RestOK DEF Set
<1>5. PICK r \in Locals : /\ LocalOK(m, r) /\ r.pc \notin UserPcs
                          /\ ~ Revoking(r) /\ th' = [th EXCEPT ![m] = r]
  BY <1>4
<1>6. /\ LocalInv' /\ WorkInv' /\ CountInv' /\ th'[m] = r
      /\ \A u \in Threads \ {m} : th'[u] = th[u]
  <2>1. UNCHANGED <<ctxVars, taskVars, gcVars>>
    BY DEF RevokeLocalRun
  <2> QED
    BY <2>1, <1>0, <1>1, <1>5, MutatorStep
<1>7. RunInv'
  <2>1. /\ localRun' = [localRun EXCEPT ![m] = None]
        /\ localFree' = [localFree EXCEPT ![m] = {}]
        /\ freeListHeads' = [freeListHeads EXCEPT ![m] = {}]
    BY DEF RevokeLocalRun
  <2>2. \A n \in Mutators \ {m} : localRun'[n] = localRun[n]
    BY <2>1, <1>0 DEF HeapOK, Owners
  <2>3. \A a \in Owners : localRun'[a] = None =>
           localFree'[a] = {} /\ freeListHeads'[a] = {}
    BY <2>1, <1>0, <1>1 DEF RunInv, HeapOK
  <2> QED
    BY <2>2, <2>3, <1>0, <1>5, <1>6, RunKept
<1>8. /\ localFree' \in [Owners -> SUBSET Slots]
      /\ freeListHeads' \in [Owners -> SUBSET Slots]
      /\ freeList' \in [Pages -> SUBSET Slots]
      /\ isLocal' \in [Pages -> BOOLEAN]
      /\ localRun' \in [Owners -> Pages \cup {None}]
      /\ useLocal' \in [Mutators -> BOOLEAN]
      /\ nonFullRuns' \in SUBSET Pages
  BY <1>0, <1>2, <1>3 DEF RevokeLocalRun, HeapOK
<1>9. HeapOK'
  BY <1>0, <1>8
     DEF RevokeLocalRun, HeapOK, spaceVars, ctxVars, taskVars, gcVars
<1> QED
  BY <1>6, <1>7, <1>9 DEF Parts

-----------------------------------------------------------------------------
(* The theorems.                                                           *)

LEMMA InitEstablishes ==
  ASSUME Init
  PROVE  IInv
<1>1. HeapOK
  <2>1. /\ label \in [Pages -> {"free", "run", "large"}] /\ spaceEnd \in Pages
        /\ avail \in SUBSET Pages /\ objects \in SUBSET Objs
    BY ConstantsAssumption DEF Init, Pages
  <2>2. /\ localRun \in [Owners -> Pages \cup {None}]
        /\ useLocal \in [Mutators -> BOOLEAN]
        /\ isLocal \in [Pages -> BOOLEAN]
    BY DEF Init
  <2>3. /\ freeList \in [Pages -> SUBSET Slots]
        /\ localFree \in [Owners -> SUBSET Slots]
        /\ nonFullRuns \in SUBSET Pages
    BY DEF Init
  <2>4. /\ freeListHeads \in [Owners -> SUBSET Slots]
        /\ cursor \in [Workers -> 0 .. NPages]
        /\ buffer \in [Workers -> SUBSET Pages]
    BY ConstantsAssumption DEF Init
  <2>5. pageState \in [Pages -> {"free", "run", "large", "sweeping", "swept"}]
    BY <2>1 DEF Init
  <2>6. /\ marked \in SUBSET Objs /\ live \in SUBSET Objs
        /\ tasks \in SUBSET Pages /\ highestPageIndex \in 0 .. NPages
        /\ ops \in 0 .. MaxOps /\ sweeps \in 0 .. MaxSweeps
    BY <2>1, ConstantsAssumption DEF Init
  <2>7. /\ globalLock \in Mutators \cup {None} /\ sweepRunning \in BOOLEAN
        /\ mapped \in BOOLEAN /\ gcPc \in {"idle", "mark", "sweep", "release"}
    BY DEF Init
  <2> QED
    BY <2>1, <2>2, <2>3, <2>4, <2>5, <2>6, <2>7 DEF HeapOK
<1>2. LocalInv
  <2>1. Rest \in Locals /\ Rest.pc = "idle"
    BY RestLocals DEF Rest, Pcs
  <2>2. \A t \in Threads : LocalOK(t, Rest)
    BY <2>1 DEF LocalOK, Allocating, SweepPcs
  <2> QED
    BY <2>1, <2>2 DEF Init, LocalInv
<1>3. \A t \in Threads : th[t].pc = "idle"
  BY DEF Init, Rest
<1>4. RunInv
  <2>1. \A m \in Mutators : ~ Revoking(th[m])
    BY <1>3 DEF Revoking, SweepPcs, Threads
  <2>2. \A a \in Owners :
          localRun[a] = None => localFree[a] = {} /\ freeListHeads[a] = {}
    BY DEF Init
  <2> QED
    BY <2>1, <2>2 DEF RunInv
<1>5. WorkInv
  BY <1>3 DEF Init, WorkInv, At, Threads
<1>6. CountInv
  <2>1. Users = {} /\ Held = 0
    BY <1>3 DEF Users, UserPcs, Held, Init
  <2>2. Cardinality(Users) = 0
    BY <2>1, FS_EmptySet
  <2> QED
    BY <2>1, <2>2 DEF CountInv, Init
<1> QED
  BY <1>1, <1>2, <1>4, <1>5, <1>6, TypeParts DEF IInv

LEMMA StepPreserves ==
  ASSUME IInv, [Next]_vars
  PROVE  IInv'
<1>1. ASSUME HeapOK' /\ Parts'
      PROVE  IInv'
  <2>1. LocalInv' /\ RunInv' /\ WorkInv' /\ CountInv'
    BY <1>1 DEF Parts
  <2>2. TypeOK'
    BY <1>1, <2>1, TypePartsNext
  <2> QED
    BY <2>1, <2>2 DEF IInv
<1>2. CASE UNCHANGED vars
  BY <1>2 DEF vars, IInv, TypeOK, LocalInv, RunInv, WorkInv, CountInv, Users,
              Held, At, spaceVars, runVars, localVars, ctxVars, taskVars, gcVars
<1>3. CASE Collect
  BY <1>1, <1>3, CollectStep
<1>4. ASSUME NEW w \in Workers, Work(w)
      PROVE  IInv'
  <2>1. w \in Threads
    BY DEF Threads
  <2> QED
    BY <2>1, <1>1, <1>4, SweepStep, WorkerStep DEF Work
<1>5. ASSUME NEW m \in Mutators, Call(m)
      PROVE  IInv'
  BY <1>1, <1>5, FastNewObjStep, AllocFromRunStep, AllocLargeObjectStep,
     FreeInternalStep, RevokeLocalRunsStep, FreeLargeObjStep DEF Call
<1>6. ASSUME NEW m \in Mutators, Continue(m)
      PROVE  IInv'
  <2>1. m \in Threads
    BY DEF Threads
  <2> QED
    BY <2>1, <1>1, <1>6, SweepStep, AllocFromLocalRunStep, FetchRunStep,
       AllocRunStep, LocaliseRunStep, FreeFromRunStep, FreeLargeObjStep,
       RevokeLocalRunStep DEF Continue
<1> QED
  BY <1>2, <1>3, <1>4, <1>5, <1>6 DEF Next

(* IInv holds in every reachable state, whatever the heap the sweep starts *)
(* with and the objects that are marked.                                   *)
THEOREM InductiveInvariant == Spec => []IInv
<1>1. Init => IInv
  BY InitEstablishes
<1>2. IInv /\ [Next]_vars => IInv'
  BY StepPreserves
<1> QED
  BY <1>1, <1>2, PTL DEF Spec

(* The state is well-typed: no operation uses the run, the page or the     *)
(* free list that it does not have.                                        *)
THEOREM TypeCorrect == Spec => []TypeOK
<1>1. IInv => TypeOK
  BY DEF IInv
<1> QED
  BY <1>1, InductiveInvariant, PTL

(* The copy of the page map is not released before its last user is done,  *)
(* be it the GC thread, a worker or a mutator that sweeps its own run, and *)
(* is released then.                                                       *)
THEOREM PageMapIsHeld == Spec => []MapHeld
<1>1. IInv => MapHeld
  <2> SUFFICES ASSUME IInv PROVE MapHeld
    OBVIOUS
  <2>1. CountInv
    BY DEF IInv
  <2>2. ASSUME NEW t \in Threads, th[t].pc \in {"label", "wait", "block", "blocked"}
        PROVE  mapped
    <3>1. Users # {}
      BY <2>2 DEF Users, UserPcs
    <3>2. Cardinality(Users) # 0
      BY <3>1, UsersFinite, FS_EmptySet
    <3>3. Held \in {0, 1}
      BY DEF Held
    <3>4. refCount > 0
      BY <3>2, <3>3, <2>1, UsersFinite DEF CountInv
    <3> QED
      BY <3>4, <2>1 DEF CountInv
  <2>3. mapped <=> refCount > 0
    BY <2>1 DEF CountInv
  <2> QED
    BY <2>2, <2>3 DEF MapHeld
<1> QED
  BY <1>1, InductiveInvariant, PTL

=============================================================================
