------------------------ MODULE ConcurrentMarkProofs ------------------------
(***************************************************************************)
(* Proofs about module ConcurrentMark, for any finite sets of mutators and *)
(* objects, any References and Finalizables among them, and any capacity   *)
(* of the SATB nodes.                                                      *)
(*                                                                         *)
(* The argument is that of snapshot-at-the-beginning marking.  MarkInv     *)
(* names the graph g and the static field s0 of the first stop-the-world,  *)
(* which the program does not keep.  Each edge of g is still in the heap   *)
(* or its target is logged; and what a mutator can get at is in Cov, the   *)
(* closure under g of what is logged or marked, or in a root not yet       *)
(* scanned.  When marking is over, Cov is the mark bitmap.                 *)
(*                                                                         *)
(* The theorems about marking assume ~ExitOvertaken: the run mark_exit     *)
(* shows what goes wrong without.                                          *)
(***************************************************************************)
EXTENDS ConcurrentMark, FiniteSetTheorems, SequenceTheorems,
        WellFoundedInduction, TLAPS

-----------------------------------------------------------------------------
(* The inductive invariant.                                                *)

(* From ConcurrentMarkPrepare() to ResurrectionPhase(), until the          *)
(* collector's flag is reset, and until those of the mutators are.         *)
MarkPhase   == {"start1", "stacks", "drain", "wait", "candidates", "markFinal",
                "remark", "remarkDrain", "stop2", "cleanup", "cleanupDrain",
                "resurrect"}
MarkRunning == MarkPhase \ {"resurrect"}
Active      == MarkRunning \ {"cleanupDrain"}

(* The second bitmap is complete.                                          *)
FinalMarked == {"remark", "remarkDrain", "stop2", "cleanup", "cleanupDrain",
                "resurrect"}

(* From PrepareConcurrentSweep() to the end of the sweep.                  *)
SweepPhase  == {"start2", "reset", "finalizers", "sweep"}

StoppedPcs  == {"prepare", "start1", "cleanup", "cleanupDrain", "resurrect",
                "sweepPrepare", "start2"}

WorldInv ==
  /\ \A m \in Mutators :
       /\ m \in attached <=> pc[m] \notin {"absent", "exiting"}
       /\ m \in running <=> pc[m] \in {"managed", "scan", "get", "store"}
       /\ m \in toScan => pc[m] = "native" /\ gcPc \in {"start1", "stacks"}
       /\ pc[m] = "scan" => gcPc \in {"stacks", "drain", "wait"}
       /\ m \notin attached => stack[m] = {}
  /\ stopped <=> gcPc \in StoppedPcs
  /\ stopped => running = {} /\ \A m \in Mutators : pc[m] # "exiting"

(* What a mutator is about to log or to store comes from its stack.        *)
OpInv ==
  /\ op \in [Mutators -> Seq(Slots \cup {Null})]
  /\ \A m \in Mutators :
       /\ pc[m] = "get" => \E w \in stack[m] : op[m] = <<w>>
       /\ pc[m] = "store" =>
            \E s \in stack[m] \cup {Static}, v \in stack[m] \cup {Null} :
              op[m] = <<s, v>> /\ (s \in References => v = Null)

(* In which phases the marker has something.                               *)
MarkerInv ==
  /\ concurrentMarkRunning <=> gcPc \in MarkRunning
  /\ useFinalBitmap <=> gcPc \in SweepPhase \cup {"sweepPrepare", "swept"}
  /\ gcPc \in {"idle", "stop1", "prepare"} => markBitmap = {}
  /\ finalBitmap # {} =>
       gcPc \in FinalMarked \cup SweepPhase \cup {"markFinal", "sweepPrepare", "swept"}
  /\ scanning \subseteq markBitmap /\ (scanning # {} => Marking)
  /\ work # {} => gcPc \in MarkRunning
  /\ finalWork # {} => gcPc = "markFinal"
  /\ discoverRefs # {} => gcPc \in MarkPhase
  /\ finalizerFindReferences # {} =>
       gcPc \in FinalMarked \cup SweepPhase \cup {"markFinal", "sweepPrepare"}
  /\ gcPc = "sweep" => finalizerFindReferences = {}
  /\ gcPc = "remark" => round < ReMarkRounds

(* Objects that are marked, or that the marker will take in the end.       *)
Safe ==
  markBitmap \cup work \cup retiredNodes \cup UNION {satbNode[m] : m \in Mutators}

SatbInv ==
  /\ \A m \in Mutators :
       /\ concurrentMarking[m] => gcPc \in Active
       /\ gcPc \in Active /\ m \in attached => concurrentMarking[m]
       /\ gcPc \notin Active => satbNode[m] = {}
       /\ pc[m] = "absent" => satbNode[m] = {} /\ ~ concurrentMarking[m]
  /\ gcPc \notin Active => retiredNodes = {}
  /\ gcPc \in MarkRunning => enqueueMap \subseteq Safe
  /\ gcPc \in {"finalizers", "sweep", "swept", "idle", "stop1", "prepare"} =>
       enqueueMap = {}

(* Nothing refers out of K, neither a root nor an object of K.             *)
Queued == {enqueueRefs[i] : i \in 1 .. Len(enqueueRefs)}

Reach(K) ==
  /\ \A m \in Mutators : stack[m] \subseteq K
  /\ field[Static] \in K \cup {Null}
  /\ finalizables \subseteq K /\ Queued \subseteq K
  /\ \A o \in K : field[o] \in K \cup {Null}

Closed(K) == Reach(K) /\ resurrectable \subseteq K

(* The objects that the collector will not free.                           *)
Usable == allocated \ (toSweep \cup dead)

UsableInv ==
  /\ Closed(Usable)
  /\ toSweep \subseteq allocated
  /\ toSweep # {} => gcPc \in SweepPhase
  /\ gcPc \in {"idle", "stop1", "prepare", "swept"} => dead \cap allocated = {}
  /\ gcPc \in SweepPhase => dead \cap allocated \subseteq toSweep

(* What the sweep will keep.                                               *)
Kept == Usable \cap (markBitmap \cup finalBitmap)

KeptInv ==
  gcPc = "sweepPrepare" =>
    Closed(Kept) /\ dead \cap (markBitmap \cup finalBitmap) = {}

(* The objects that are in every set closed under g that contains S.       *)
Cov(S, g) ==
  {o \in Objects :
     \A C \in SUBSET Objects :
        (S \subseteq C /\ \A c \in C : g[c] \subseteq C) => o \in C}

(* Where the closure starts: what is safe, the roots that nobody has       *)
(* scanned, and what Reference.get() returns and has not logged yet.       *)
Unscanned == {m \in Mutators : m \in toScan \/ pc[m] = "scan"}
Getting   == {m \in Mutators : pc[m] = "get"}

Waiting == UNION {stack[m] : m \in Unscanned}
Gotten  == {op[m][1] : m \in Getting}

Gen(s0) == Safe \cup ({s0} \ {Null}) \cup Waiting \cup Gotten

(* No edge of the snapshot is lost: it is in the heap or its target safe.  *)
EdgeInv(g, s0) ==
  /\ \A o \in Objects \ allocated : g[o] = {}
  /\ \/ s0 \in Safe \cup {Null}
     \/ /\ s0 = field[Static] /\ gcPc \in {"start1", "stacks"}
        /\ \A m \in Mutators : pc[m] = "store" => op[m][1] # Static
  /\ \A o \in Objects : \A c \in g[o] : c \in Safe \cup Children(o)
  /\ \A o \in markBitmap \ scanning : g[o] \subseteq Safe
  /\ \A m \in Mutators :
       pc[m] = "store" /\ op[m][1] \in Objects \ References =>
         g[op[m][1]] \subseteq Safe

(* All that a mutator can have got at since is in V.                       *)
CoverInv(V, g) ==
  /\ snapshot \subseteq V
  /\ \A m \in Mutators : stack[m] \subseteq V
  /\ field[Static] \in V \cup {Null}
  /\ finalizables \subseteq V /\ Queued \subseteq V
  /\ \A o \in allocated : Children(o) \subseteq g[o] \cup V
  /\ \A r \in (markBitmap \ scanning) \cap References :
       field[r] \in V \cup {Null} \/ r \in discoverRefs

(* The second bitmap is closed, too.                                       *)
FinalInv(V) ==
  /\ gcPc = "markFinal" =>
       resurrectable \subseteq markBitmap \cup finalBitmap \cup finalWork
  /\ gcPc \in FinalMarked => resurrectable \subseteq markBitmap \cup finalBitmap
  /\ \A o \in finalBitmap : Children(o) \subseteq finalBitmap \cup finalWork \cup V
  /\ \A r \in finalBitmap \cap References :
       field[r] \in V \cup {Null} \/ r \in finalizerFindReferences

(* The marker finds nothing that it may not use.                           *)
FoundInv ==
  /\ Safe \subseteq Usable /\ finalBitmap \subseteq Usable /\ finalWork \subseteq Usable
  /\ discoverRefs \subseteq markBitmap
  /\ finalizerFindReferences \subseteq finalBitmap

MarkInv ==
  gcPc \in MarkPhase =>
    /\ FoundInv
    /\ \E g \in [Objects -> SUBSET Objects], s0 \in Objects \cup {Null} :
         /\ EdgeInv(g, s0)
         /\ CoverInv(Cov(Gen(s0), g), g)
         /\ FinalInv(Cov(Gen(s0), g))

IInv ==
  /\ TypeOK /\ WorldInv /\ OpInv /\ MarkerInv /\ SatbInv
  /\ UsableInv /\ KeptInv /\ MarkInv

(* The objects chosen for finalize() stay out of reach until they are      *)
(* queued: L is what mutators can get at.                                  *)
ChosenPhase == {"sweepPrepare", "start2", "reset", "finalizers"}

ChosenInv ==
  /\ resurrectCandidates \subseteq allocated
  /\ resurrectCandidates # {} => gcPc \in FinalMarked \cup ChosenPhase \cup {"markFinal"}
  /\ gcPc \in ChosenPhase =>
       \E L \in SUBSET Objects :
         Reach(L) /\ L \cap (resurrectCandidates \ markBitmap) = {}

-----------------------------------------------------------------------------
(* Lemmas about the operators.                                             *)

LEMMA CovBasic ==
  ASSUME NEW g \in [Objects -> SUBSET Objects], NEW S \in SUBSET Objects
  PROVE  /\ S \subseteq Cov(S, g) /\ Cov(S, g) \subseteq Objects
         /\ \A c \in Cov(S, g) : g[c] \subseteq Cov(S, g)
<1>1. S \subseteq Cov(S, g) /\ Cov(S, g) \subseteq Objects
  BY DEF Cov
<1>2. ASSUME NEW c \in Cov(S, g), NEW o \in g[c]
      PROVE  o \in Cov(S, g)
  <2>1. c \in Objects /\ o \in Objects
    BY <1>1, <1>2
  <2>2. ASSUME NEW C \in SUBSET Objects, S \subseteq C,
               \A x \in C : g[x] \subseteq C
        PROVE  o \in C
    BY <1>2, <2>2 DEF Cov
  <2> QED
    BY <2>1, <2>2 DEF Cov
<1> QED
  BY <1>1, <1>2

LEMMA CovMonotone ==
  ASSUME NEW g, NEW S, NEW T, S \subseteq T
  PROVE  Cov(S, g) \subseteq Cov(T, g)
BY DEF Cov

LEMMA CovLeast ==
  ASSUME NEW g, NEW S, NEW C \in SUBSET Objects, S \subseteq C,
         \A c \in C : g[c] \subseteq C
  PROVE  Cov(S, g) \subseteq C
BY DEF Cov

LEMMA LeastExists ==
  ASSUME NEW S \in SUBSET Nat, S # {}
  PROVE  \E m \in S : \A n \in S : m <= n
<1>1. \E m \in S : \A n \in S : ~ (<<n, m>> \in OpToRel(<, Nat))
  BY NatLessThanWellFounded, WFMin
<1>2. PICK m \in S : \A n \in S : ~ (<<n, m>> \in OpToRel(<, Nat))
  BY <1>1
<1>3. ASSUME NEW n \in S
      PROVE  m <= n
  <2>1. m \in Nat /\ n \in Nat
    OBVIOUS
  <2>2. ~ (n < m)
    BY <1>2, <2>1 DEF OpToRel
  <2> QED
    BY <2>1, <2>2
<1> QED
  BY <1>3

(* The chain of cleared References.                                        *)
LEMMA QueueFacts ==
  ASSUME TypeOK
  PROVE  /\ Queued \subseteq References
         /\ \A r : PendingNext(r) \subseteq Queued
         /\ QueueRoots \subseteq finalizables \cup Queued
<1>1. /\ enqueueRefs \in Seq(References) /\ Len(enqueueRefs) \in Nat
      /\ \A i \in 1 .. Len(enqueueRefs) : enqueueRefs[i] \in References
      /\ enqueueRefs # <<>> => Len(enqueueRefs) > 0
  <2>1. enqueueRefs \in Seq(References)
    BY DEF TypeOK
  <2> QED
    BY <2>1, LenProperties, ElementOfSeq, EmptySeq
<1>2. Queued \subseteq References
  BY <1>1 DEF Queued
<1>3. ASSUME NEW r, NEW x \in PendingNext(r)
      PROVE  x \in Queued
  <2>1. PICK i \in 1 .. Len(enqueueRefs) - 1 : x = enqueueRefs[i + 1]
    BY <1>3 DEF PendingNext
  <2>2. i + 1 \in 1 .. Len(enqueueRefs)
    BY <1>1
  <2> QED
    BY <2>1, <2>2 DEF Queued
<1>4. ASSUME NEW x \in QueueRoots
      PROVE  x \in finalizables \cup Queued
  <2>1. CASE x \in finalizables
    BY <2>1
  <2>2. CASE x \notin finalizables
    <3>1. x = enqueueRefs[1] /\ enqueueRefs # <<>>
      BY <1>4, <2>2 DEF QueueRoots
    <3>2. 1 \in 1 .. Len(enqueueRefs)
      BY <3>1, <1>1
    <3> QED
      BY <3>1, <3>2 DEF Queued
  <2> QED
    BY <2>1, <2>2
<1> QED
  BY <1>2, <1>3, <1>4

LEMMA ChildrenFacts ==
  ASSUME TypeOK, NEW o \in Objects
  PROVE  /\ Children(o) \subseteq Objects
         /\ o \notin References => Children(o) = {field[o]} \ {Null}
         /\ o \in References => Children(o) \subseteq Queued
<1>1. Queued \subseteq Objects /\ PendingNext(o) \subseteq Queued
  BY QueueFacts, ConstantsAssumption
<1>2. field[o] \in Objects \cup {Null}
  BY DEF TypeOK, Slots
<1> QED
  BY <1>1, <1>2 DEF Children

(* The chain is reached from its head.                                     *)
LEMMA ChainReached ==
  ASSUME TypeOK, NEW C, QueueRoots \subseteq C,
         \A r \in C \cap References : PendingNext(r) \subseteq C
  PROVE  Queued \subseteq C
<1> DEFINE n == Len(enqueueRefs)
           B == {i \in 1 .. n : enqueueRefs[i] \notin C}
<1>1. /\ n \in Nat /\ (n > 0 => enqueueRefs # <<>>)
      /\ \A i \in 1 .. n : enqueueRefs[i] \in References
  <2>1. enqueueRefs \in Seq(References)
    BY DEF TypeOK
  <2> QED
    BY <2>1, LenProperties, ElementOfSeq, EmptySeq
<1>2. ASSUME B # {}
      PROVE  FALSE
  <2>1. B \in SUBSET Nat
    BY <1>1
  <2>2. PICK i \in B : \A j \in B : i <= j
    BY <2>1, <1>2, LeastExists
  <2>3. i \in 1 .. n /\ enqueueRefs[i] \notin C
    OBVIOUS
  <2>4. i # 1
    BY <2>3, <1>1 DEF QueueRoots
  <2>5. i - 1 \in 1 .. n /\ i - 1 \notin B /\ i - 1 \in 1 .. n - 1
    BY <2>2, <2>3, <2>4, <1>1
  <2>6. enqueueRefs[i - 1] \in C \cap References
    BY <2>5, <1>1
  <2>7. enqueueRefs[(i - 1) + 1] \in PendingNext(enqueueRefs[i - 1])
    BY <2>5 DEF PendingNext
  <2>8. (i - 1) + 1 = i
    BY <2>3, <1>1
  <2> QED
    BY <2>3, <2>6, <2>7, <2>8
<1> QED
  BY <1>2 DEF Queued

(* EnqueueReference() takes the head off: one edge is lost.                *)
LEMMA ChainTail ==
  ASSUME TypeOK, enqueueRefs # <<>>, enqueueRefs' = Tail(enqueueRefs)
  PROVE  /\ enqueueRefs' \in Seq(References)
         /\ Queued' \subseteq Queued
         /\ Head(enqueueRefs) \in Queued
         /\ Len(enqueueRefs) > 1 => enqueueRefs[2] \in Queued
         /\ \A r : PendingNext(r)' \subseteq PendingNext(r)
         /\ \A r : \A x \in PendingNext(r) :
              x \in PendingNext(r)' \/ (Len(enqueueRefs) > 1 /\ x = enqueueRefs[2])
<1> DEFINE n == Len(enqueueRefs)
<1>1. enqueueRefs \in Seq(References)
  BY DEF TypeOK
<1>2. n \in Nat /\ n > 0
  BY <1>1, LenProperties, EmptySeq
<1>3. /\ enqueueRefs' \in Seq(References)
      /\ Len(enqueueRefs') = n - 1
      /\ \A i \in 1 .. n - 1 : enqueueRefs'[i] = enqueueRefs[i + 1]
  BY <1>1, HeadTailProperties
<1>4. Head(enqueueRefs) = enqueueRefs[1]
  BY <1>1
<1>5. Queued' \subseteq Queued
  <2> SUFFICES ASSUME NEW i \in 1 .. n - 1
               PROVE  enqueueRefs'[i] \in Queued
    BY <1>3 DEF Queued
  <2>1. i + 1 \in 1 .. n /\ enqueueRefs'[i] = enqueueRefs[i + 1]
    BY <1>2, <1>3
  <2> QED
    BY <2>1 DEF Queued
<1>6. Head(enqueueRefs) \in Queued /\ (n > 1 => enqueueRefs[2] \in Queued)
  <2>1. 1 \in 1 .. n /\ (n > 1 => 2 \in 1 .. n)
    BY <1>2
  <2> QED
    BY <2>1, <1>4 DEF Queued
<1>7. ASSUME NEW r, NEW x \in PendingNext(r)'
      PROVE  x \in PendingNext(r)
  <2>1. PICK i \in 1 .. (n - 1) - 1 : /\ enqueueRefs'[i] = r
                                      /\ x = enqueueRefs'[i + 1]
    BY <1>3, <1>7 DEF PendingNext
  <2>2. /\ i \in 1 .. n - 1 /\ i + 1 \in 1 .. n - 1
    BY <1>2
  <2>3. r = enqueueRefs[i + 1] /\ x = enqueueRefs[(i + 1) + 1]
    BY <2>1, <2>2, <1>3
  <2> QED
    BY <2>2, <2>3 DEF PendingNext
<1>8. ASSUME NEW r, NEW x \in PendingNext(r)
      PROVE  x \in PendingNext(r)' \/ (n > 1 /\ x = enqueueRefs[2])
  <2>1. PICK i \in 1 .. n - 1 : enqueueRefs[i] = r /\ x = enqueueRefs[i + 1]
    BY <1>8 DEF PendingNext
  <2>2. CASE i = 1
    BY <2>1, <2>2, <1>2
  <2>3. CASE i # 1
    <3>1. /\ i - 1 \in 1 .. (n - 1) - 1 /\ i - 1 \in 1 .. n - 1
          /\ (i - 1) + 1 \in 1 .. n - 1
      BY <2>3, <1>2
    <3>2. enqueueRefs'[i - 1] = enqueueRefs[(i - 1) + 1] /\ (i - 1) + 1 = i
      BY <3>1, <1>2, <1>3
    <3>3. enqueueRefs'[(i - 1) + 1] = enqueueRefs[((i - 1) + 1) + 1]
      BY <3>1, <1>3
    <3>4. enqueueRefs'[i - 1] = r /\ x = enqueueRefs'[(i - 1) + 1]
      BY <3>2, <3>3, <2>1
    <3>5. x \in PendingNext(r)'
      BY <3>1, <3>4, <1>3 DEF PendingNext
    <3> QED
      BY <3>5
  <2> QED
    BY <2>2, <2>3
<1> QED
  BY <1>3, <1>5, <1>6, <1>7, <1>8

(* ResurrectionPhase() puts the cleared References in front.               *)
LEMMA ChainGrows ==
  ASSUME TypeOK, NEW S \in SUBSET References, NEW new \in SetToSeqs(S),
         enqueueRefs' = new \o enqueueRefs
  PROVE  /\ enqueueRefs' \in Seq(References)
         /\ Queued' \subseteq Queued \cup S
<1> DEFINE n == Len(enqueueRefs)
<1>1. Cardinality(S) \in Nat
  <2>1. IsFiniteSet(S)
    BY ConstantsAssumption, FS_Subset
  <2> QED
    BY <2>1, FS_CardinalityType
<1>2. new \in [1 .. Cardinality(S) -> S]
  BY DEF SetToSeqs
<1>3. new \in Seq(S) /\ new \in Seq(References)
  <2>1. new \in Seq(S)
    BY <1>1, <1>2, SeqDef
  <2> QED
    BY <2>1, SeqMonotonic
<1>4. enqueueRefs \in Seq(References)
  BY DEF TypeOK
<1>5. /\ enqueueRefs' \in Seq(References)
      /\ Len(enqueueRefs') = Len(new) + n
      /\ \A i \in 1 .. Len(new) + n :
           enqueueRefs'[i] = IF i <= Len(new) THEN new[i]
                                              ELSE enqueueRefs[i - Len(new)]
  BY <1>3, <1>4, ConcatProperties
<1>6. /\ Len(new) \in Nat /\ n \in Nat
      /\ \A i \in 1 .. Len(new) : new[i] \in S
  BY <1>3, <1>4, LenProperties, ElementOfSeq
<1>7. ASSUME NEW i \in 1 .. Len(new) + n
      PROVE  enqueueRefs'[i] \in Queued \cup S
  <2>1. CASE i <= Len(new)
    <3>1. i \in 1 .. Len(new) /\ enqueueRefs'[i] = new[i]
      BY <2>1, <1>5, <1>6
    <3> QED
      BY <3>1, <1>6
  <2>2. CASE ~ (i <= Len(new))
    <3>1. i - Len(new) \in 1 .. n /\ enqueueRefs'[i] = enqueueRefs[i - Len(new)]
      BY <2>2, <1>5, <1>6
    <3> QED
      BY <3>1 DEF Queued
  <2> QED
    BY <2>1, <2>2
<1> QED
  BY <1>5, <1>7 DEF Queued

-----------------------------------------------------------------------------
(* Types.                                                                  *)

(* What one mutator does leaves the frames of the others alone.            *)
LEMMA CollectFrame ==
  ASSUME Collect
  PROVE  UNCHANGED mutVars
BY DEF Collect, MarkObject, CopyChildRefs, ConcurrentMarkFinalizer,
   ConcurrentStackScan, ConcurrentMSPreSTW1, StopTheWorld, StartTheWorld,
   ConcurrentMarkPrepare, ConcurrentStaticRootsScan, ConcurrentMarkDrained,
   ConcurrentProcessDisovered, ConcurrentPrepareResurrection,
   ConcurrentMarkFinalizerDone, ConcurrentReMark, ConcurrentReMarkDrained,
   ConcurrentMarkCleanup, ConcurrentMarkCleanupDrained, ResurrectionPhase,
   PrepareConcurrentSweep, ConcurrentMSPostSTW2, ConcurrentAddFinalizerToRP,
   ConcurrentSweep, ResetBitmap

LEMMA MutateFrame ==
  ASSUME NEW m \in Mutators, Mutate(m), TypeOK, OpInv
  PROVE  /\ UNCHANGED gcVars
         /\ \A n \in Mutators \ {m} :
              stack'[n] = stack[n] /\ pc'[n] = pc[n] /\ op'[n] = op[n]
<1>1. UNCHANGED gcVars
  BY DEF Mutate, InitYieldpoint, EnterSaferegion, LeaveSaferegion,
     ScanStackAndMark, FiniYieldpoint, DeleteMutator, NewObj, LoadRefField,
     ReturnFromFrame, ProcessFinalizable, ReferenceGetReferent, GCWriteField,
     WeakRefGetBarrier, StoreRefField, EnqueueReference
<1>2. /\ pc \in [Mutators -> {"absent", "managed", "native", "scan", "exiting",
                              "get", "store"}]
      /\ stack \in [Mutators -> SUBSET Objects]
      /\ op \in [Mutators -> Seq(Slots \cup {Null})]
  BY DEF TypeOK, OpInv
<1>3. CASE \/ InitYieldpoint(m) \/ EnterSaferegion(m) \/ LeaveSaferegion(m)
           \/ ScanStackAndMark(m) \/ FiniYieldpoint(m) \/ DeleteMutator(m)
  BY <1>1, <1>2, <1>3
     DEF InitYieldpoint, EnterSaferegion, LeaveSaferegion, ScanStackAndMark,
         FiniYieldpoint, DeleteMutator, Goto
<1>4. CASE \/ \E o \in Objects, v \in Objects \cup {Null} : NewObj(m, o, v)
           \/ \E s \in Slots : LoadRefField(m, s)
           \/ \E o \in Objects : ReturnFromFrame(m, o) \/ ProcessFinalizable(m, o)
           \/ EnqueueReference(m)
  <2>1. /\ UNCHANGED <<pc, op>>
        /\ \/ \E x : stack' = [stack EXCEPT ![m] = @ \cup {x}]
           \/ \E x : stack' = [stack EXCEPT ![m] = @ \ {x}]
    BY <1>4 DEF NewObj, LoadRefField, ReturnFromFrame, ProcessFinalizable,
                EnqueueReference
  <2> QED
    BY <2>1, <1>1, <1>2
<1>5. CASE \E r \in References : ReferenceGetReferent(m, r)
  BY <1>1, <1>2, <1>5 DEF ReferenceGetReferent, Goto
<1>6. CASE \E s \in Slots, v \in Objects \cup {Null} : GCWriteField(m, s, v)
  BY <1>1, <1>2, <1>6 DEF GCWriteField, Goto
<1>7. CASE WeakRefGetBarrier(m) \/ StoreRefField(m)
  BY <1>1, <1>2, <1>7 DEF WeakRefGetBarrier, StoreRefField, Goto
<1> QED
  BY <1>3, <1>4, <1>5, <1>6, <1>7 DEF Mutate

(* The operation of a mutator that is about to log or to store.            *)
OpOf(m) ==
  /\ pc[m] = "get" => \E w \in stack[m] : op[m] = <<w>>
  /\ pc[m] = "store" =>
       \E s \in stack[m] \cup {Static}, v \in stack[m] \cup {Null} :
         op[m] = <<s, v>> /\ (s \in References => v = Null)

LEMMA OpMutate ==
  ASSUME TypeOK, OpInv, NEW m \in Mutators, Mutate(m)
  PROVE  op'[m] \in Seq(Slots \cup {Null}) /\ OpOf(m)' /\ op' = [n \in Mutators |-> op'[n]]
<1>0. /\ pc \in [Mutators -> {"absent", "managed", "native", "scan", "exiting",
                              "get", "store"}]
      /\ stack \in [Mutators -> SUBSET Objects]
      /\ field \in [Slots -> Objects \cup {Null}]
      /\ op \in [Mutators -> Seq(Slots \cup {Null})]
      /\ Objects \subseteq Slots /\ Static \in Slots /\ Slots \subseteq Objects \cup {Static}
  BY DEF TypeOK, OpInv, Slots
<1>1. CASE \/ InitYieldpoint(m) \/ EnterSaferegion(m) \/ LeaveSaferegion(m)
           \/ ScanStackAndMark(m) \/ FiniYieldpoint(m) \/ DeleteMutator(m)
  <2>1. pc'[m] \notin {"get", "store"} /\ op' = op
    BY <1>0, <1>1
       DEF InitYieldpoint, EnterSaferegion, LeaveSaferegion, ScanStackAndMark,
           FiniYieldpoint, DeleteMutator, Goto
  <2> QED
    BY <2>1, <1>0 DEF OpOf
<1>2. CASE \/ \E o \in Objects, v \in Objects \cup {Null} : NewObj(m, o, v)
           \/ \E s \in Slots : LoadRefField(m, s)
           \/ \E o \in Objects : ReturnFromFrame(m, o) \/ ProcessFinalizable(m, o)
           \/ EnqueueReference(m)
  <2>1. pc'[m] = "managed" /\ op' = op
    BY <1>2 DEF NewObj, LoadRefField, ReturnFromFrame, ProcessFinalizable,
                EnqueueReference, Managed
  <2> QED
    BY <2>1, <1>0 DEF OpOf
<1>3. ASSUME NEW r \in References, ReferenceGetReferent(m, r)
      PROVE  op'[m] \in Seq(Slots \cup {Null}) /\ OpOf(m)' /\ op' = [n \in Mutators |-> op'[n]]
  <2>1. field[r] \in Objects /\ r \in Slots
    BY <1>0, <1>3, ConstantsAssumption DEF ReferenceGetReferent
  <2>2. /\ pc'[m] = "get" /\ op'[m] = <<field[r]>> /\ field[r] \in stack'[m]
        /\ op' = [op EXCEPT ![m] = <<field[r]>>]
    BY <1>0, <1>3 DEF ReferenceGetReferent, Goto
  <2>3. <<field[r]>> \in Seq(Slots \cup {Null})
    BY <2>1, <1>0
  <2> QED
    BY <2>2, <2>3, <1>0 DEF OpOf
<1>4. ASSUME NEW s \in Slots, NEW v \in Objects \cup {Null}, GCWriteField(m, s, v)
      PROVE  op'[m] \in Seq(Slots \cup {Null}) /\ OpOf(m)' /\ op' = [n \in Mutators |-> op'[n]]
  <2>1. /\ pc'[m] = "store" /\ op'[m] = <<s, v>> /\ stack' = stack
        /\ s \in stack[m] \cup {Static} /\ v \in stack[m] \cup {Null}
        /\ s \in References => v = Null
        /\ op' = [op EXCEPT ![m] = <<s, v>>]
    BY <1>0, <1>4 DEF GCWriteField, Goto
  <2>2. <<s, v>> \in Seq(Slots \cup {Null})
    BY <1>0
  <2> QED
    BY <2>1, <2>2, <1>0 DEF OpOf
<1>5. CASE WeakRefGetBarrier(m) \/ StoreRefField(m)
  <2>1. pc'[m] = "managed" /\ op'[m] = <<>> /\ op' = [op EXCEPT ![m] = <<>>]
    BY <1>0, <1>5 DEF WeakRefGetBarrier, StoreRefField, Goto
  <2>2. <<>> \in Seq(Slots \cup {Null})
    BY EmptySeq
  <2> QED
    BY <2>1, <2>2, <1>0 DEF OpOf
<1> QED
  BY <1>1, <1>2, <1>3, <1>4, <1>5 DEF Mutate

LEMMA OpStep ==
  ASSUME TypeOK, OpInv, [Next]_vars
  PROVE  OpInv'
<1>1. CASE UNCHANGED vars \/ Collect
  <2>1. UNCHANGED <<pc, op, stack>>
    BY <1>1, CollectFrame DEF vars, mutVars
  <2> QED
    BY <2>1 DEF OpInv
<1>2. ASSUME NEW m \in Mutators, Mutate(m)
      PROVE  OpInv'
  <2>1. op'[m] \in Seq(Slots \cup {Null}) /\ OpOf(m)' /\ op' = [n \in Mutators |-> op'[n]]
    BY <1>2, OpMutate
  <2>2. \A n \in Mutators \ {m} :
          stack'[n] = stack[n] /\ pc'[n] = pc[n] /\ op'[n] = op[n]
    BY <1>2, MutateFrame
  <2>3. \A n \in Mutators : OpOf(n)'
    BY <2>1, <2>2 DEF OpOf, OpInv
  <2>4. op' \in [Mutators -> Seq(Slots \cup {Null})]
    BY <2>1, <2>2 DEF OpInv
  <2> QED
    BY <2>3, <2>4 DEF OpOf, OpInv
<1> QED
  BY <1>1, <1>2 DEF Next

-----------------------------------------------------------------------------
(* The SATB write barrier: nothing that was safe is lost, and the old      *)
(* value is safe afterwards, if the mutator marks.                         *)
LEMMA BarrierFacts ==
  ASSUME TypeOK, SatbInv, NEW m \in Mutators, NEW o \in Objects \cup {Null},
         SatbWriteBarrier(m, o), UNCHANGED <<markBitmap, work>>
  PROVE  /\ satbNode' \in [Mutators -> SUBSET Objects]
         /\ retiredNodes' \in SUBSET Objects /\ enqueueMap' \in SUBSET Objects
         /\ Safe \subseteq Safe' /\ Safe' \subseteq Safe \cup ({o} \ {Null})
         /\ \A n \in Mutators \ {m} : satbNode'[n] = satbNode[n]
         /\ ~ concurrentMarking[m] => UNCHANGED satbVars
         /\ concurrentMarking[m] /\ o # Null => o \in Safe'
         /\ gcPc \in MarkRunning => enqueueMap' \subseteq Safe'
<1> DEFINE Goal ==
         /\ satbNode' \in [Mutators -> SUBSET Objects]
         /\ retiredNodes' \in SUBSET Objects /\ enqueueMap' \in SUBSET Objects
         /\ Safe \subseteq Safe' /\ Safe' \subseteq Safe \cup ({o} \ {Null})
         /\ \A n \in Mutators \ {m} : satbNode'[n] = satbNode[n]
         /\ ~ concurrentMarking[m] => UNCHANGED satbVars
         /\ concurrentMarking[m] /\ o # Null => o \in Safe'
         /\ gcPc \in MarkRunning => enqueueMap' \subseteq Safe'
<1>1. /\ satbNode \in [Mutators -> SUBSET Objects]
      /\ retiredNodes \in SUBSET Objects /\ enqueueMap \in SUBSET Objects
  BY DEF TypeOK
<1>2. gcPc \in MarkRunning => enqueueMap \subseteq Safe
  BY DEF SatbInv
<1>3. concurrentMarking[m] => gcPc \in MarkRunning
  BY DEF SatbInv, Active
<1>4. CASE UNCHANGED satbVars /\ (concurrentMarking[m] => (o = Null \/ o \in markBitmap \cup enqueueMap))
  <2>1. UNCHANGED Safe
    BY <1>4 DEF Safe, satbVars
  <2>2. markBitmap \subseteq Safe
    BY DEF Safe
  <2> QED
    BY <1>1, <1>2, <1>3, <1>4, <2>1, <2>2 DEF satbVars
<1>5. CASE ~ (UNCHANGED satbVars /\ (concurrentMarking[m] => (o = Null \/ o \in markBitmap \cup enqueueMap)))
  <2>1. /\ concurrentMarking[m] /\ o # Null /\ o \in Objects
        /\ enqueueMap' = enqueueMap \cup {o}
        /\ \/ /\ retiredNodes' = retiredNodes \cup satbNode[m]
              /\ satbNode' = [satbNode EXCEPT ![m] = {o}]
           \/ /\ retiredNodes' = retiredNodes
              /\ satbNode' = [satbNode EXCEPT ![m] = @ \cup {o}]
    BY <1>5 DEF SatbWriteBarrier, PushIntoSatbBuffer
  <2>2. /\ satbNode' \in [Mutators -> SUBSET Objects]
        /\ \A n \in Mutators \ {m} : satbNode'[n] = satbNode[n]
        /\ o \in satbNode'[m]
        /\ satbNode[m] \subseteq retiredNodes' \cup satbNode'[m]
        /\ satbNode'[m] \subseteq satbNode[m] \cup {o}
    BY <2>1, <1>1
  <2>3. /\ retiredNodes' \in SUBSET Objects /\ enqueueMap' \in SUBSET Objects
        /\ retiredNodes \subseteq retiredNodes'
        /\ retiredNodes' \subseteq retiredNodes \cup satbNode[m]
    BY <2>1, <1>1
  <2>4. o \in Safe'
    BY <2>2 DEF Safe
  <2>5. Safe \subseteq Safe'
    <3>1. ASSUME NEW n \in Mutators
          PROVE  satbNode[n] \subseteq Safe'
      BY <2>2 DEF Safe
    <3> QED
      BY <3>1, <2>3 DEF Safe
  <2>6. Safe' \subseteq Safe \cup {o}
    <3>1. ASSUME NEW n \in Mutators
          PROVE  satbNode'[n] \subseteq Safe \cup {o}
      <4>1. satbNode'[n] \subseteq satbNode[n] \cup {o}
        BY <2>2
      <4> QED
        BY <4>1 DEF Safe
    <3>2. retiredNodes' \subseteq Safe
      BY <2>3 DEF Safe
    <3> QED
      BY <3>1, <3>2 DEF Safe
  <2> QED
    BY <2>1, <2>2, <2>3, <2>4, <2>5, <2>6, <1>2
<1> QED
  BY <1>4, <1>5

-----------------------------------------------------------------------------
(* TypeOK without its conjunct about op, which OpInv implies.              *)
Types ==
  /\ attached \in SUBSET Mutators /\ running \in SUBSET attached
  /\ stopped \in BOOLEAN
  /\ allocated \in SUBSET Objects
  /\ field \in [Slots -> Objects \cup {Null}]
  /\ stack \in [Mutators -> SUBSET Objects]
  /\ resurrectable \in SUBSET Finalizables
  /\ finalizables \in SUBSET Finalizables
  /\ enqueueRefs \in Seq(References)
  /\ markBitmap \in SUBSET Objects /\ finalBitmap \in SUBSET Objects
  /\ useFinalBitmap \in BOOLEAN
  /\ work \in SUBSET Objects /\ scanning \in SUBSET Objects
  /\ toScan \in SUBSET Mutators
  /\ discoverRefs \in SUBSET References
  /\ resurrectCandidates \in SUBSET Finalizables
  /\ finalizerFindReferences \in SUBSET References
  /\ finalWork \in SUBSET Objects
  /\ satbNode \in [Mutators -> SUBSET Objects]
  /\ retiredNodes \in SUBSET Objects /\ enqueueMap \in SUBSET Objects
  /\ concurrentMarkRunning \in BOOLEAN
  /\ concurrentMarking \in [Mutators -> BOOLEAN]
  /\ pc \in [Mutators -> {"absent", "managed", "native", "scan", "exiting",
                          "get", "store"}]
  /\ gcPc \in {"idle", "stop1", "prepare", "start1", "stacks", "drain", "wait",
               "candidates", "markFinal", "remark", "remarkDrain", "stop2",
               "cleanup", "cleanupDrain", "resurrect", "sweepPrepare",
               "start2", "reset", "finalizers", "sweep", "swept"}
  /\ round \in 0 .. ReMarkRounds
  /\ toSweep \in SUBSET Objects
  /\ ops \in 0 .. MaxOps /\ collections \in 0 .. MaxCollections
  /\ snapshot \in SUBSET Objects /\ dead \in SUBSET Objects

LEMMA TypesSuffice ==
  Types /\ OpInv => TypeOK
<1> SUFFICES ASSUME Types, OpInv
             PROVE  TypeOK
  OBVIOUS
<1>1. ASSUME NEW m \in Mutators, pc[m] = "get"
      PROVE  op[m] \in Seq(Objects)
  <2>1. PICK w \in stack[m] : op[m] = <<w>>
    BY <1>1 DEF OpInv
  <2>2. w \in Objects
    BY DEF Types
  <2> QED
    BY <2>1, <2>2
<1>2. ASSUME NEW m \in Mutators, pc[m] = "store"
      PROVE  op[m] \in Slots \X (Objects \cup {Null})
  <2>1. PICK s \in stack[m] \cup {Static}, v \in stack[m] \cup {Null} : op[m] = <<s, v>>
    BY <1>2 DEF OpInv
  <2>2. stack[m] \subseteq Objects
    BY DEF Types
  <2> QED
    BY <2>1, <2>2 DEF Slots
<1> QED
  BY <1>1, <1>2 DEF Types, TypeOK

(* What a mutator that is about to log or to store operates on.            *)
LEMMA OpElements ==
  ASSUME TypeOK, OpInv, NEW m \in Mutators
  PROVE  /\ pc[m] = "get" => op[m][1] \in stack[m] /\ op[m][1] \in Objects
         /\ pc[m] = "store" =>
              /\ op[m][1] \in stack[m] \cup {Static} /\ op[m][1] \in Slots
              /\ op[m][2] \in stack[m] \cup {Null} /\ op[m][2] \in Objects \cup {Null}
              /\ op[m][1] \in References => op[m][2] = Null
<1>0. stack[m] \subseteq Objects
  BY DEF TypeOK
<1>1. ASSUME pc[m] = "get"
      PROVE  op[m][1] \in stack[m] /\ op[m][1] \in Objects
  <2>1. PICK w \in stack[m] : op[m] = <<w>>
    BY <1>1 DEF OpInv
  <2> QED
    BY <2>1, <1>0
<1>2. ASSUME pc[m] = "store"
      PROVE  /\ op[m][1] \in stack[m] \cup {Static} /\ op[m][1] \in Slots
             /\ op[m][2] \in stack[m] \cup {Null} /\ op[m][2] \in Objects \cup {Null}
             /\ op[m][1] \in References => op[m][2] = Null
  <2>1. PICK s \in stack[m] \cup {Static}, v \in stack[m] \cup {Null} :
               op[m] = <<s, v>> /\ (s \in References => v = Null)
    BY <1>2 DEF OpInv
  <2>2. op[m][1] = s /\ op[m][2] = v
    BY <2>1
  <2> QED
    BY <2>1, <2>2, <1>0 DEF Slots
<1> QED
  BY <1>1, <1>2

LEMMA TypesCollect ==
  ASSUME TypeOK, MarkerInv, Collect
  PROVE  Types'
<1>0. Types
  BY DEF TypeOK, Types
<1>1. ASSUME NEW o \in Objects, MarkObject(o)
      PROVE  Types'
  BY <1>0, <1>1 DEF Types, MarkObject, worldVars, heapVars, refVars, satbVars,
     flagVars, mutVars, gcVars, history
<1>2. ASSUME NEW o \in Objects, CopyChildRefs(o)
      PROVE  Types'
  <2>1. Children(o) \subseteq Objects
    BY ChildrenFacts
  <2> QED
    BY <1>0, <1>2, <2>1 DEF Types, CopyChildRefs, Discoverable, worldVars,
       heapVars, satbVars, flagVars, mutVars, gcVars, history
<1>3. ASSUME NEW o \in Objects, ConcurrentMarkFinalizer(o)
      PROVE  Types'
  <2>1. Children(o) \subseteq Objects
    BY ChildrenFacts
  <2> QED
    BY <1>0, <1>3, <2>1 DEF Types, ConcurrentMarkFinalizer, Discoverable,
       worldVars, heapVars, satbVars, flagVars, mutVars, gcVars, history
<1>4. ASSUME NEW m \in Mutators, ConcurrentStackScan(m)
      PROVE  Types'
  BY <1>0, <1>4 DEF Types, ConcurrentStackScan, worldVars, heapVars, refVars,
     satbVars, flagVars, mutVars, gcVars, history
<1>5. CASE ConcurrentMSPreSTW1
  BY <1>0, <1>5, ConstantsAssumption DEF Types, ConcurrentMSPreSTW1, worldVars, heapVars,
     markVars, refVars, flagVars, mutVars, history
<1>6. CASE StopTheWorld
  BY <1>0, <1>6 DEF Types, StopTheWorld, W!Stop, heapVars, markVars, refVars,
     satbVars, flagVars, mutVars, history
<1>7. CASE StartTheWorld
  BY <1>0, <1>7 DEF Types, StartTheWorld, W!Start, heapVars, markVars, refVars,
     satbVars, flagVars, mutVars, history
<1>8. CASE ConcurrentMarkPrepare
  <2>1. QueueRoots \in SUBSET Objects
    BY QueueFacts, ConstantsAssumption DEF TypeOK
  <2>2. Live \in SUBSET Objects
    BY DEF Live, Closure
  <2>3. concurrentMarking' \in [Mutators -> BOOLEAN]
    BY <1>0, <1>8 DEF Types, ConcurrentMarkPrepare
  <2>4. /\ work' = QueueRoots /\ snapshot' = Live /\ dead' = allocated \ Attainable
        /\ toScan' = attached /\ concurrentMarkRunning' = TRUE /\ gcPc' = "start1"
        /\ UNCHANGED <<worldVars, heapVars, markBitmap, finalBitmap,
                       useFinalBitmap, scanning, refVars, satbVars, mutVars, round,
                       toSweep, collections>>
    BY <1>8 DEF ConcurrentMarkPrepare
  <2> QED
    BY <1>0, <2>1, <2>2, <2>3, <2>4 DEF Types, worldVars, heapVars, refVars,
       satbVars, mutVars
<1>9. CASE ConcurrentStaticRootsScan
  <2>1. field[Static] \in Objects \cup {Null}
    BY DEF TypeOK, Slots
  <2> QED
    BY <1>0, <1>9, <2>1 DEF Types, ConcurrentStaticRootsScan, worldVars,
       heapVars, refVars, satbVars, flagVars, mutVars, history
<1>10. CASE ConcurrentMarkDrained \/ ConcurrentReMarkDrained
  BY <1>0, <1>10 DEF Types, ConcurrentMarkDrained, ConcurrentReMarkDrained,
     worldVars, heapVars, markVars, refVars, satbVars, flagVars, mutVars, history
<1>19. CASE ConcurrentProcessDisovered
  BY <1>0, <1>19 DEF Types, ConcurrentProcessDisovered, worldVars, heapVars,
     markVars, refVars, satbVars, flagVars, mutVars, history
<1>20. CASE ConcurrentPrepareResurrection
  BY <1>0, <1>20, ConstantsAssumption DEF Types, ConcurrentPrepareResurrection,
     worldVars, heapVars, markVars, refVars, satbVars, flagVars, mutVars, history
<1>11. CASE ConcurrentMarkFinalizerDone
  BY <1>0, <1>11 DEF Types, ConcurrentMarkFinalizerDone, ReMarkRounds, worldVars,
     heapVars, markVars, refVars, satbVars, flagVars, mutVars, history
<1>12. CASE ConcurrentReMark
  BY <1>0, <1>12 DEF MarkerInv, Types, ConcurrentReMark, ReMarkRounds, worldVars,
     heapVars, refVars, flagVars, mutVars, history
<1>13. CASE ConcurrentMarkCleanup
  <2>1. satbNode' \in [Mutators -> SUBSET Objects]
    BY <1>0, <1>13 DEF Types, ConcurrentMarkCleanup
  <2>2. concurrentMarking' \in [Mutators -> BOOLEAN]
    BY <1>0, <1>13 DEF Types, ConcurrentMarkCleanup
  <2>3. work' \in SUBSET Objects
    BY <1>0, <1>13 DEF Types, ConcurrentMarkCleanup
  <2> QED
    BY <1>0, <1>13, <2>1, <2>2, <2>3 DEF Types, ConcurrentMarkCleanup, worldVars,
       heapVars, refVars, mutVars, history
<1>14. CASE ConcurrentMarkCleanupDrained
  BY <1>0, <1>14 DEF Types, ConcurrentMarkCleanupDrained, worldVars, heapVars,
     markVars, refVars, satbVars, mutVars, history
<1>15. CASE ResurrectionPhase
  <2> DEFINE first  == {r \in discoverRefs : Discoverable(r)}
             second == {r \in finalizerFindReferences :
                          Discoverable(r) /\ field[r] \notin finalBitmap}
  <2>1. first \cup second \in SUBSET References
    BY <1>0 DEF Types
  <2>2. PICK new \in SetToSeqs(first \cup second) :
          enqueueRefs' = new \o enqueueRefs
    BY <1>15 DEF ResurrectionPhase
  <2>3. enqueueRefs' \in Seq(References)
    BY <2>1, <2>2, ChainGrows
  <2>4. field' \in [Slots -> Objects \cup {Null}]
    BY <1>0, <1>15 DEF Types, ResurrectionPhase
  <2>5. /\ discoverRefs' = {} /\ useFinalBitmap' = TRUE /\ gcPc' = "sweepPrepare"
        /\ UNCHANGED <<worldVars, allocated, resurrectable, finalizables,
                 markBitmap, finalBitmap, work, scanning, toScan,
                 resurrectCandidates, finalizerFindReferences, finalWork,
                 satbVars, flagVars, mutVars, round, toSweep, collections,
                 history>>
    BY <1>15 DEF ResurrectionPhase
  <2> HIDE DEF first, second
  <2> QED
    BY <1>0, <2>3, <2>4, <2>5 DEF Types, worldVars, satbVars, flagVars, mutVars,
       history
<1>16. CASE PrepareConcurrentSweep \/ ConcurrentMSPostSTW2
  BY <1>0, <1>16 DEF Types, PrepareConcurrentSweep, ConcurrentMSPostSTW2,
     worldVars, heapVars, markVars, refVars, satbVars, flagVars, mutVars, history
<1>17. CASE ConcurrentAddFinalizerToRP
  BY <1>0, <1>17 DEF Types, ConcurrentAddFinalizerToRP, worldVars, markVars,
     satbVars, flagVars, mutVars, history
<1>18. CASE ConcurrentSweep \/ ResetBitmap
  BY <1>0, <1>18 DEF Types, ConcurrentSweep, ResetBitmap, worldVars, heapVars,
     markVars, refVars, satbVars, flagVars, mutVars, history
<1> QED
  BY <1>1, <1>2, <1>3, <1>4, <1>5, <1>6, <1>7, <1>8, <1>9, <1>10, <1>11, <1>12,
     <1>13, <1>14, <1>15, <1>16, <1>17, <1>18, <1>19, <1>20 DEF Collect

LEMMA TypesMutate ==
  ASSUME TypeOK, OpInv, SatbInv, NEW m \in Mutators, Mutate(m)
  PROVE  Types'
<1>0. Types
  BY DEF TypeOK, Types
<1>1. CASE \/ InitYieldpoint(m) \/ EnterSaferegion(m) \/ LeaveSaferegion(m)
           \/ FiniYieldpoint(m)
  BY <1>0, <1>1 DEF Types, InitYieldpoint, EnterSaferegion, LeaveSaferegion,
     FiniYieldpoint, Goto, W!Attach, W!Park, W!Resume, W!Detach, heapVars,
     markVars, refVars, satbVars, flagVars, gcVars, history
<1>2. CASE ScanStackAndMark(m)
  BY <1>0, <1>2 DEF Types, ScanStackAndMark, Goto, worldVars,
     heapVars, markVars, refVars, satbVars, flagVars, gcVars, history
<1>11. CASE DeleteMutator(m)
  BY <1>0, <1>11 DEF Types, DeleteMutator, Goto, worldVars,
     heapVars, markVars, refVars, satbVars, flagVars, gcVars, history
<1>3. ASSUME NEW o \in Objects, NEW v \in Objects \cup {Null}, NewObj(m, o, v)
      PROVE  Types'
  BY <1>0, <1>3, ConstantsAssumption DEF Types, NewObj, Slots, worldVars,
     refVars, satbVars, flagVars, gcVars
<1>4. ASSUME NEW s \in Slots, LoadRefField(m, s)
      PROVE  Types'
  <2>1. field[s] \in Objects
    BY <1>0, <1>4 DEF Types, LoadRefField
  <2> QED
    BY <1>0, <1>4, <2>1, ConstantsAssumption DEF Types, LoadRefField, worldVars,
       heapVars, markVars, refVars, satbVars, flagVars, gcVars, history
<1>5. ASSUME NEW o \in Objects, ReturnFromFrame(m, o) \/ ProcessFinalizable(m, o)
      PROVE  Types'
  BY <1>0, <1>5, ConstantsAssumption DEF Types, ReturnFromFrame,
     ProcessFinalizable, worldVars, heapVars, markVars, refVars, satbVars,
     flagVars, gcVars, history
<1>6. ASSUME NEW r \in References, ReferenceGetReferent(m, r)
      PROVE  Types'
  <2>1. field[r] \in Objects
    BY <1>0, <1>6, ConstantsAssumption DEF Types, ReferenceGetReferent, Slots
  <2> QED
    BY <1>0, <1>6, <2>1, ConstantsAssumption DEF Types, ReferenceGetReferent,
       Goto, worldVars, heapVars, markVars, refVars, satbVars, flagVars, gcVars,
       history
<1>7. ASSUME NEW s \in Slots, NEW v \in Objects \cup {Null}, GCWriteField(m, s, v)
      PROVE  Types'
  <2>1. field[s] \in Objects \cup {Null}
    BY <1>0 DEF Types
  <2>2. /\ satbNode' \in [Mutators -> SUBSET Objects]
        /\ retiredNodes' \in SUBSET Objects /\ enqueueMap' \in SUBSET Objects
    BY <1>7, <2>1, BarrierFacts DEF GCWriteField, markVars
  <2>3. /\ ops' = ops + 1 /\ ops < MaxOps
        /\ pc' = [pc EXCEPT ![m] = "store"]
        /\ UNCHANGED <<worldVars, heapVars, markVars, refVars, flagVars, stack,
                       gcVars, history>>
    BY <1>7 DEF GCWriteField, Goto
  <2> QED
    BY <1>0, <2>2, <2>3, ConstantsAssumption DEF Types, worldVars, heapVars,
       markVars, refVars, flagVars, gcVars, history
<1>8. CASE WeakRefGetBarrier(m)
  <2>1. op[m][1] \in Objects \cup {Null}
    BY <1>8, OpElements DEF WeakRefGetBarrier
  <2>2. /\ satbNode' \in [Mutators -> SUBSET Objects]
        /\ retiredNodes' \in SUBSET Objects /\ enqueueMap' \in SUBSET Objects
    BY <1>8, <2>1, BarrierFacts DEF WeakRefGetBarrier, markVars
  <2> QED
    BY <1>0, <1>8, <2>2 DEF Types, WeakRefGetBarrier,
       Goto, worldVars, heapVars, markVars, refVars, flagVars, gcVars, history
<1>9. CASE StoreRefField(m)
  <2>1. op[m][1] \in Slots /\ op[m][2] \in Objects \cup {Null}
    BY <1>9, OpElements DEF StoreRefField
  <2> QED
    BY <1>0, <1>9, <2>1 DEF Types, StoreRefField, Goto, worldVars, markVars,
       refVars, satbVars, flagVars, gcVars, history
<1>10. CASE EnqueueReference(m)
  <2>1. /\ enqueueRefs' \in Seq(References) /\ Head(enqueueRefs) \in Objects
        /\ Len(enqueueRefs) > 1 => enqueueRefs[2] \in Objects
    BY <1>10, ChainTail, QueueFacts, ConstantsAssumption DEF EnqueueReference
  <2>2. /\ satbNode' \in [Mutators -> SUBSET Objects]
        /\ retiredNodes' \in SUBSET Objects /\ enqueueMap' \in SUBSET Objects
    <3>1. CASE Len(enqueueRefs) > 1
      BY <1>10, <2>1, <3>1, BarrierFacts DEF EnqueueReference, markVars
    <3>2. CASE ~ (Len(enqueueRefs) > 1)
      BY <1>0, <1>10, <3>2 DEF EnqueueReference, satbVars, Types
    <3> QED
      BY <3>1, <3>2
  <2>3. /\ stack' = [stack EXCEPT ![m] = @ \cup {Head(enqueueRefs)}]
        /\ UNCHANGED <<worldVars, allocated, field, resurrectable, finalizables,
                 markVars, refVars, flagVars, pc, op, ops, gcVars, history>>
    BY <1>10 DEF EnqueueReference
  <2> QED
    BY <1>0, <2>1, <2>2, <2>3 DEF Types, worldVars, markVars, refVars, flagVars,
       gcVars, history
<1> QED
  BY <1>1, <1>2, <1>3, <1>4, <1>5, <1>6, <1>7, <1>8, <1>9, <1>10, <1>11 DEF Mutate

LEMMA TypeStep ==
  ASSUME TypeOK, OpInv, MarkerInv, SatbInv, [Next]_vars
  PROVE  TypeOK'
<1>1. Types'
  <2>1. CASE UNCHANGED vars
    <3>1. Types
      BY DEF TypeOK, Types
    <3> QED
      BY <2>1, <3>1 DEF Types, vars, worldVars, heapVars, markVars, refVars,
         satbVars, flagVars, mutVars, gcVars, history
  <2> QED
    BY <2>1, TypesCollect, TypesMutate DEF Next
<1>2. OpInv'
  BY OpStep
<1>3. (Types /\ OpInv => TypeOK)'
  BY TypesSuffice, PTL
<1> QED
  BY <1>1, <1>2, <1>3

-----------------------------------------------------------------------------
(* The world.                                                              *)

LEMMA WorldMutate ==
  ASSUME TypeOK, OpInv, WorldInv, NEW m \in Mutators, Mutate(m)
  PROVE  WorldInv'
<1>0. /\ pc \in [Mutators -> {"absent", "managed", "native", "scan", "exiting",
                              "get", "store"}]
      /\ attached \subseteq Mutators /\ running \subseteq attached
      /\ stack \in [Mutators -> SUBSET Objects]
      /\ toScan \subseteq Mutators /\ stopped \in BOOLEAN
  BY DEF TypeOK
<1>1. CASE InitYieldpoint(m)
  BY <1>0, <1>1 DEF WorldInv, InitYieldpoint, W!Attach, Goto, markVars, gcVars
<1>2. CASE EnterSaferegion(m)
  BY <1>0, <1>2 DEF WorldInv, EnterSaferegion, Managed, W!Park, Goto, markVars, gcVars
<1>3. CASE LeaveSaferegion(m)
  BY <1>0, <1>3 DEF WorldInv, StoppedPcs, LeaveSaferegion, W!Resume, Goto, gcVars
<1>4. CASE ScanStackAndMark(m)
  BY <1>0, <1>4 DEF WorldInv, ScanStackAndMark, worldVars, Goto, gcVars
<1>5. CASE FiniYieldpoint(m)
  BY <1>0, <1>5 DEF WorldInv, FiniYieldpoint, W!Detach, Goto, gcVars
<1>6. CASE DeleteMutator(m)
  BY <1>0, <1>6 DEF WorldInv, DeleteMutator, worldVars, Goto, markVars, gcVars
<1>7. CASE \/ \E o \in Objects, v \in Objects \cup {Null} : NewObj(m, o, v)
           \/ \E s \in Slots : LoadRefField(m, s)
           \/ \E o \in Objects : ReturnFromFrame(m, o) \/ ProcessFinalizable(m, o)
           \/ EnqueueReference(m)
  <2>1. /\ UNCHANGED <<worldVars, pc, toScan, gcPc>> /\ m \in running
        /\ \/ \E x : stack' = [stack EXCEPT ![m] = @ \cup {x}]
           \/ \E x : stack' = [stack EXCEPT ![m] = @ \ {x}]
    BY <1>7 DEF NewObj, LoadRefField, ReturnFromFrame, ProcessFinalizable,
                EnqueueReference, markVars, gcVars, Managed
  <2> QED
    BY <2>1, <1>0 DEF WorldInv, worldVars
<1>8. CASE \/ \E r \in References : ReferenceGetReferent(m, r)
           \/ \E s \in Slots, v \in Objects \cup {Null} : GCWriteField(m, s, v)
           \/ WeakRefGetBarrier(m) \/ StoreRefField(m)
  <2>1. /\ UNCHANGED <<worldVars, toScan, gcPc>>
        /\ m \in running \/ pc[m] \in {"get", "store"}
        /\ pc[m] \in {"managed", "get", "store"}
        /\ pc' = [pc EXCEPT ![m] = "get"] \/ pc' = [pc EXCEPT ![m] = "store"]
             \/ pc' = [pc EXCEPT ![m] = "managed"]
        /\ stack' = stack \/ \E x : stack' = [stack EXCEPT ![m] = @ \cup {x}]
    BY <1>8 DEF ReferenceGetReferent, GCWriteField, WeakRefGetBarrier,
                StoreRefField, markVars, gcVars, Managed, Goto
  <2>2. m \in running
    BY <2>1 DEF WorldInv
  <2> QED
    BY <2>1, <2>2, <1>0 DEF WorldInv, worldVars
<1> QED
  BY <1>1, <1>2, <1>3, <1>4, <1>5, <1>6, <1>7, <1>8 DEF Mutate

LEMMA WorldCollect ==
  ASSUME ~ ExitOvertaken, TypeOK, WorldInv, Collect
  PROVE  WorldInv'
<1>0. UNCHANGED <<pc, stack>>
  BY CollectFrame DEF mutVars
<1>1. CASE \E o \in Objects : \/ MarkObject(o) \/ CopyChildRefs(o)
                              \/ ConcurrentMarkFinalizer(o)
  <2>1. UNCHANGED <<worldVars, toScan, gcPc>>
    BY <1>1 DEF MarkObject, CopyChildRefs, ConcurrentMarkFinalizer, gcVars
  <2> QED
    BY <2>1, <1>0 DEF WorldInv, worldVars
<1>2. CASE \E m \in Mutators : ConcurrentStackScan(m)
  BY <1>0, <1>2 DEF WorldInv, ConcurrentStackScan, worldVars, gcVars
<1>3. CASE StopTheWorld
  BY <1>0, <1>3 DEF WorldInv, StopTheWorld, W!Stop, markVars, StoppedPcs
<1>4. CASE StartTheWorld
  BY <1>0, <1>4 DEF WorldInv, StartTheWorld, W!Start, markVars, StoppedPcs
<1>5. CASE ConcurrentMarkPrepare
  <2>1. /\ toScan' = attached /\ gcPc' = "start1" /\ UNCHANGED worldVars
        /\ gcPc = "prepare"
    BY <1>5 DEF ConcurrentMarkPrepare
  <2>2. /\ running = {} /\ stopped
    BY <2>1 DEF WorldInv, StoppedPcs
  <2>3. ASSUME NEW m \in Mutators
        PROVE  /\ m \in attached => pc[m] = "native"
               /\ pc[m] # "scan"
    BY <2>2 DEF WorldInv, TypeOK
  <2> QED
    BY <2>1, <2>2, <2>3, <1>0 DEF WorldInv, worldVars, StoppedPcs
<1>6. CASE \/ ConcurrentMSPreSTW1 \/ ConcurrentMarkDrained
           \/ ConcurrentPrepareResurrection \/ ConcurrentMarkFinalizerDone
           \/ ConcurrentReMark \/ ConcurrentReMarkDrained
           \/ ConcurrentMarkCleanup \/ ConcurrentMarkCleanupDrained
           \/ ResurrectionPhase \/ PrepareConcurrentSweep \/ ConcurrentMSPostSTW2
           \/ ConcurrentAddFinalizerToRP \/ ConcurrentSweep \/ ResetBitmap
  <2>1. /\ UNCHANGED <<worldVars, toScan>>
        /\ gcPc \notin {"start1", "stacks", "wait"}
        /\ gcPc \in StoppedPcs <=> gcPc' \in StoppedPcs
        /\ gcPc = "drain" => gcPc' = "wait"
    BY <1>6 DEF ConcurrentMSPreSTW1, ConcurrentMarkDrained,
       ConcurrentPrepareResurrection, ConcurrentMarkFinalizerDone,
       ConcurrentReMark, ConcurrentReMarkDrained, ConcurrentMarkCleanup,
       ConcurrentMarkCleanupDrained, ResurrectionPhase, PrepareConcurrentSweep,
       ConcurrentMSPostSTW2, ConcurrentAddFinalizerToRP, ConcurrentSweep,
       ResetBitmap, markVars, StoppedPcs
  <2> QED
    BY <2>1, <1>0 DEF WorldInv, worldVars
<1>7. CASE ConcurrentStaticRootsScan
  BY <1>0, <1>7 DEF WorldInv, ConcurrentStaticRootsScan, worldVars, StoppedPcs
<1>8. CASE ConcurrentProcessDisovered
  BY <1>0, <1>8 DEF WorldInv, ConcurrentProcessDisovered, worldVars, markVars, StoppedPcs
<1> QED
  BY <1>1, <1>2, <1>3, <1>4, <1>5, <1>6, <1>7, <1>8 DEF Collect

LEMMA WorldStep ==
  ASSUME ~ ExitOvertaken, TypeOK, OpInv, WorldInv, [Next]_vars
  PROVE  WorldInv'
<1>1. CASE UNCHANGED vars
  BY <1>1 DEF WorldInv, vars, worldVars, markVars, mutVars, gcVars
<1> QED
  BY <1>1, WorldMutate, WorldCollect DEF Next

-----------------------------------------------------------------------------
(* The marker and the SATB buffers.                                        *)

(* No mutator does anything while the world is stopped.                    *)
LEMMA StoppedIsStill ==
  ASSUME TypeOK, WorldInv, stopped, NEW m \in Mutators, Mutate(m)
  PROVE  FALSE
<1>1. running = {} /\ pc[m] \in {"absent", "native"}
  BY DEF WorldInv, TypeOK
<1> QED
  BY <1>1 DEF Mutate, InitYieldpoint, EnterSaferegion, LeaveSaferegion,
     ScanStackAndMark, FiniYieldpoint, DeleteMutator, NewObj, LoadRefField,
     ReturnFromFrame, ProcessFinalizable, ReferenceGetReferent, GCWriteField,
     WeakRefGetBarrier, StoreRefField, EnqueueReference, Managed, W!Attach,
     W!Resume, W!Detach

(* What the steps of a mutator do to what the marker has.                  *)
LEMMA MarkerFrame ==
  ASSUME NEW m \in Mutators, Mutate(m)
  PROVE  /\ UNCHANGED <<finalBitmap, useFinalBitmap, scanning, refVars,
                        concurrentMarkRunning, gcVars, snapshot>>
         /\ UNCHANGED work \/ (pc[m] = "scan" /\ work' = work \cup stack[m])
         /\ \/ UNCHANGED <<allocated, markBitmap, resurrectable, dead>>
            \/ \E o \in Objects, v \in Objects \cup {Null} : NewObj(m, o, v)
BY DEF Mutate, InitYieldpoint, EnterSaferegion, LeaveSaferegion,
   ScanStackAndMark, FiniYieldpoint, DeleteMutator, NewObj, LoadRefField,
   ReturnFromFrame, ProcessFinalizable, ReferenceGetReferent, GCWriteField,
   WeakRefGetBarrier, StoreRefField, EnqueueReference, heapVars, markVars,
   history, flagVars

LEMMA MarkerMutate ==
  ASSUME TypeOK, WorldInv, MarkerInv, NEW m \in Mutators, Mutate(m)
  PROVE  MarkerInv'
<1>1. /\ UNCHANGED <<finalBitmap, useFinalBitmap, scanning, discoverRefs,
                     finalizerFindReferences, finalWork, concurrentMarkRunning,
                     gcPc, round>>
      /\ UNCHANGED work \/ (pc[m] = "scan" /\ work' = work \cup stack[m])
      /\ \/ UNCHANGED markBitmap
         \/ concurrentMarkRunning /\ \E o \in Objects : markBitmap' = markBitmap \cup {o}
  BY MarkerFrame DEF gcVars, refVars, NewObj
<1>2. pc[m] = "scan" => gcPc \in MarkRunning
  BY DEF WorldInv, MarkRunning, MarkPhase
<1> QED
  BY <1>1, <1>2 DEF MarkerInv, Marking, MarkRunning, MarkPhase

LEMMA MarkerCollect ==
  ASSUME TypeOK, MarkerInv, Collect
  PROVE  MarkerInv'
<1> USE DEF MarkerInv, MarkRunning, MarkPhase, FinalMarked, SweepPhase, Marking
<1>1. CASE \E o \in Objects : MarkObject(o) \/ CopyChildRefs(o)
  BY <1>1 DEF MarkObject, CopyChildRefs, refVars, flagVars, gcVars
<1>2. CASE \E o \in Objects : ConcurrentMarkFinalizer(o)
  BY <1>2 DEF ConcurrentMarkFinalizer, flagVars, gcVars
<1>3. CASE \E m \in Mutators : ConcurrentStackScan(m)
  BY <1>3 DEF ConcurrentStackScan, refVars, flagVars, gcVars
<1>4. CASE ConcurrentMSPreSTW1 \/ StopTheWorld \/ StartTheWorld
  BY <1>4 DEF ConcurrentMSPreSTW1, StopTheWorld, StartTheWorld, markVars,
     refVars, flagVars
<1>5. CASE ConcurrentMarkPrepare
  BY <1>5 DEF ConcurrentMarkPrepare, refVars
<1>6. CASE ConcurrentStaticRootsScan \/ ConcurrentMarkDrained
  BY <1>6 DEF ConcurrentStaticRootsScan, ConcurrentMarkDrained, Drained,
     markVars, refVars, flagVars
<1>7. CASE ConcurrentProcessDisovered
  BY <1>7 DEF ConcurrentProcessDisovered, markVars, flagVars
<1>8. CASE ConcurrentPrepareResurrection
  BY <1>8 DEF ConcurrentPrepareResurrection, markVars, flagVars
<1>9. CASE ConcurrentMarkFinalizerDone
  BY <1>9 DEF ConcurrentMarkFinalizerDone, ReMarkRounds, markVars, refVars, flagVars
<1>10. CASE ConcurrentReMark
  BY <1>10 DEF ConcurrentReMark, refVars, flagVars
<1>11. CASE ConcurrentReMarkDrained
  BY <1>11 DEF ConcurrentReMarkDrained, Drained, markVars, refVars, flagVars
<1>12. CASE ConcurrentMarkCleanup
  BY <1>12 DEF ConcurrentMarkCleanup, refVars
<1>13. CASE ConcurrentMarkCleanupDrained
  BY <1>13 DEF ConcurrentMarkCleanupDrained, Drained, markVars, refVars
<1>14. CASE ResurrectionPhase
  <2>1. /\ gcPc = "resurrect" /\ gcPc' = "sweepPrepare" /\ useFinalBitmap' = TRUE
        /\ discoverRefs' = {}
        /\ UNCHANGED <<markBitmap, finalBitmap, work, scanning,
                       finalizerFindReferences, finalWork, concurrentMarkRunning,
                       round>>
    BY <1>14 DEF ResurrectionPhase, flagVars
  <2> QED
    BY <2>1
<1>15. CASE PrepareConcurrentSweep \/ ConcurrentMSPostSTW2
  BY <1>15 DEF PrepareConcurrentSweep, ConcurrentMSPostSTW2, markVars, refVars, flagVars
<1>16. CASE ConcurrentAddFinalizerToRP \/ ConcurrentSweep \/ ResetBitmap
  BY <1>16 DEF ConcurrentAddFinalizerToRP, ConcurrentSweep, ResetBitmap,
     markVars, refVars, flagVars
<1> QED
  BY <1>1, <1>2, <1>3, <1>4, <1>5, <1>6, <1>7, <1>8, <1>9, <1>10, <1>11, <1>12,
     <1>13, <1>14, <1>15, <1>16 DEF Collect

LEMMA MarkerStep ==
  ASSUME TypeOK, WorldInv, MarkerInv, [Next]_vars
  PROVE  MarkerInv'
<1>1. CASE UNCHANGED vars
  BY <1>1 DEF MarkerInv, Marking, vars, markVars, refVars, flagVars, gcVars
<1> QED
  BY <1>1, MarkerMutate, MarkerCollect DEF Next

(* What the steps of a mutator do to the SATB buffers.                     *)
LEMMA SatbFrame ==
  ASSUME TypeOK, OpInv, NEW m \in Mutators, Mutate(m)
  PROVE  \/ UNCHANGED satbVars /\ UNCHANGED concurrentMarking
         \/ InitYieldpoint(m)
         \/ DeleteMutator(m)
         \/ \E o \in Objects \cup {Null} :
              /\ SatbWriteBarrier(m, o)
              /\ pc[m] \in {"managed", "get"} /\ pc'[m] \in {"managed", "get", "store"}
              /\ UNCHANGED <<markBitmap, work, concurrentMarking, worldVars>>
<1>0. pc \in [Mutators -> {"absent", "managed", "native", "scan", "exiting",
                              "get", "store"}]
  BY DEF TypeOK
<1>1. CASE \/ EnterSaferegion(m) \/ LeaveSaferegion(m)
           \/ ScanStackAndMark(m) \/ FiniYieldpoint(m) \/ StoreRefField(m)
           \/ \E o \in Objects, v \in Objects \cup {Null} : NewObj(m, o, v)
           \/ \E s \in Slots : LoadRefField(m, s)
           \/ \E o \in Objects : ReturnFromFrame(m, o) \/ ProcessFinalizable(m, o)
           \/ \E r \in References : ReferenceGetReferent(m, r)
  BY <1>1 DEF EnterSaferegion, LeaveSaferegion, ScanStackAndMark, FiniYieldpoint,
     StoreRefField, NewObj, LoadRefField, ReturnFromFrame, ProcessFinalizable,
     ReferenceGetReferent, flagVars
<1>2. ASSUME NEW s \in Slots, NEW v \in Objects \cup {Null}, GCWriteField(m, s, v)
      PROVE  \E o \in Objects \cup {Null} :
              /\ SatbWriteBarrier(m, o)
              /\ pc[m] \in {"managed", "get"} /\ pc'[m] \in {"managed", "get", "store"}
              /\ UNCHANGED <<markBitmap, work, concurrentMarking, worldVars>>
  <2>1. field[s] \in Objects \cup {Null}
    BY DEF TypeOK
  <2>2. /\ SatbWriteBarrier(m, field[s])
        /\ pc[m] \in {"managed", "get"} /\ pc'[m] \in {"managed", "get", "store"}
        /\ UNCHANGED <<markBitmap, work, concurrentMarking, worldVars>>
    BY <1>0, <1>2 DEF GCWriteField, Managed, Goto, markVars, flagVars
  <2> QED
    BY <2>1, <2>2
<1>3. ASSUME WeakRefGetBarrier(m)
      PROVE  \E o \in Objects \cup {Null} :
              /\ SatbWriteBarrier(m, o)
              /\ pc[m] \in {"managed", "get"} /\ pc'[m] \in {"managed", "get", "store"}
              /\ UNCHANGED <<markBitmap, work, concurrentMarking, worldVars>>
  <2>1. op[m][1] \in Objects \cup {Null}
    BY <1>3, OpElements DEF WeakRefGetBarrier
  <2>2. /\ SatbWriteBarrier(m, op[m][1])
        /\ pc[m] \in {"managed", "get"} /\ pc'[m] \in {"managed", "get", "store"}
        /\ UNCHANGED <<markBitmap, work, concurrentMarking, worldVars>>
    BY <1>0, <1>3 DEF WeakRefGetBarrier, Managed, Goto, markVars, flagVars
  <2> QED
    BY <2>1, <2>2
<1>4. CASE EnqueueReference(m)
  <2>1. CASE Len(enqueueRefs) > 1
    <3>1. enqueueRefs[2] \in Objects \cup {Null}
      BY <1>4, <2>1, ChainTail, QueueFacts, ConstantsAssumption DEF EnqueueReference
    <3>2. /\ SatbWriteBarrier(m, enqueueRefs[2])
          /\ pc[m] \in {"managed", "get"} /\ pc'[m] \in {"managed", "get", "store"}
          /\ UNCHANGED <<markBitmap, work, concurrentMarking, worldVars>>
      BY <1>0, <1>4, <2>1 DEF EnqueueReference, Managed, markVars, flagVars
    <3> QED
      BY <3>1, <3>2
  <2>2. CASE ~ (Len(enqueueRefs) > 1)
    BY <1>4, <2>2 DEF EnqueueReference, flagVars
  <2> QED
    BY <2>1, <2>2
<1> QED
  BY <1>1, <1>2, <1>3, <1>4 DEF Mutate

LEMMA SafeMutate ==
  ASSUME TypeOK, OpInv, SatbInv, NEW m \in Mutators, Mutate(m)
  PROVE  Safe \subseteq Safe'
<1>1. work \subseteq work' /\ markBitmap \subseteq markBitmap'
  BY MarkerFrame DEF NewObj
<1>2. CASE UNCHANGED satbVars
  BY <1>1, <1>2 DEF Safe, satbVars
<1>3. CASE DeleteMutator(m)
  <2>1. /\ retiredNodes' = retiredNodes \cup satbNode[m]
        /\ \A n \in Mutators \ {m} : satbNode'[n] = satbNode[n]
    BY <1>3 DEF DeleteMutator, TypeOK
  <2>2. ASSUME NEW n \in Mutators
        PROVE  satbNode[n] \subseteq Safe'
    BY <2>1 DEF Safe
  <2> QED
    BY <1>1, <2>1, <2>2 DEF Safe
<1>4. ASSUME NEW o \in Objects \cup {Null}, SatbWriteBarrier(m, o),
             UNCHANGED <<markBitmap, work>>
      PROVE  Safe \subseteq Safe'
  BY <1>4, BarrierFacts
<1>5. CASE InitYieldpoint(m)
  BY <1>1, <1>5 DEF InitYieldpoint, Safe, satbVars
<1> QED
  BY <1>2, <1>3, <1>4, <1>5, SatbFrame

LEMMA SafeCollect ==
  ASSUME TypeOK, WorldInv, MarkerInv, SatbInv, Collect, gcPc \in MarkPhase
  PROVE  Safe \subseteq Safe'
<1>0. satbNode \in [Mutators -> SUBSET Objects]
  BY DEF TypeOK
<1>1. CASE UNCHANGED <<satbNode, retiredNodes>> /\ markBitmap \subseteq markBitmap'
             /\ work \subseteq work' \cup markBitmap'
  BY <1>1 DEF Safe
<1>2. CASE \/ \E o \in Objects : \/ MarkObject(o) \/ CopyChildRefs(o)
                                 \/ ConcurrentMarkFinalizer(o)
           \/ \E m \in Mutators : ConcurrentStackScan(m)
           \/ StopTheWorld \/ StartTheWorld
           \/ ConcurrentStaticRootsScan
           \/ ConcurrentMarkDrained \/ ConcurrentProcessDisovered
           \/ ConcurrentPrepareResurrection \/ ConcurrentMarkFinalizerDone
           \/ ConcurrentReMarkDrained \/ ConcurrentMarkCleanupDrained
           \/ ResurrectionPhase
  <2>1. UNCHANGED <<satbNode, retiredNodes>> /\ markBitmap \subseteq markBitmap'
             /\ work \subseteq work' \cup markBitmap'
    BY <1>2 DEF MarkObject, CopyChildRefs, ConcurrentMarkFinalizer,
       ConcurrentStackScan, StopTheWorld, StartTheWorld,
       ConcurrentStaticRootsScan, ConcurrentMarkDrained,
       ConcurrentProcessDisovered, ConcurrentPrepareResurrection,
       ConcurrentMarkFinalizerDone, ConcurrentReMarkDrained,
       ConcurrentMarkCleanupDrained, ResurrectionPhase, satbVars, markVars
  <2> QED
    BY <2>1, <1>1
<1>3. CASE ConcurrentReMark
  BY <1>3 DEF ConcurrentReMark, Safe
<1>4. CASE ConcurrentMarkCleanup
  <2>1. /\ gcPc = "cleanup" /\ markBitmap' = markBitmap
        /\ work' = work \cup retiredNodes \cup UNION {satbNode[m] : m \in attached}
    BY <1>4 DEF ConcurrentMarkCleanup
  <2>2. ASSUME NEW m \in Mutators, m \notin attached
        PROVE  satbNode[m] = {}
    <3>1. pc[m] = "absent"
      BY <2>1, <2>2 DEF WorldInv, StoppedPcs
    <3> QED
      BY <3>1 DEF SatbInv
  <2>3. ASSUME NEW m \in Mutators
        PROVE  satbNode[m] \subseteq work'
    BY <2>1, <2>2
  <2> QED
    BY <2>1, <2>3 DEF Safe
<1>5. CASE \/ ConcurrentMSPreSTW1 \/ ConcurrentMarkPrepare
           \/ PrepareConcurrentSweep \/ ConcurrentMSPostSTW2
           \/ ConcurrentAddFinalizerToRP \/ ConcurrentSweep \/ ResetBitmap
  BY <1>5 DEF ConcurrentMSPreSTW1, ConcurrentMarkPrepare, PrepareConcurrentSweep,
     ConcurrentMSPostSTW2, ConcurrentAddFinalizerToRP, ConcurrentSweep,
     ResetBitmap, MarkPhase
<1> QED
  BY <1>2, <1>3, <1>4, <1>5 DEF Collect

LEMMA SatbMutate ==
  ASSUME TypeOK, OpInv, WorldInv, MarkerInv, SatbInv, NEW m \in Mutators, Mutate(m)
  PROVE  SatbInv'
<1>0. /\ pc \in [Mutators -> {"absent", "managed", "native", "scan", "exiting",
                              "get", "store"}]
      /\ concurrentMarking \in [Mutators -> BOOLEAN]
      /\ satbNode \in [Mutators -> SUBSET Objects]
      /\ UNCHANGED gcPc
  BY MutateFrame DEF TypeOK, gcVars
<1>1. Safe \subseteq Safe'
  BY SafeMutate
<1>2. /\ \A n \in Mutators \ {m} : pc'[n] = pc[n]
  BY MutateFrame
<1>3. CASE InitYieldpoint(m)
  <2>1. /\ concurrentMarking' = [concurrentMarking EXCEPT ![m] = concurrentMarkRunning]
        /\ pc' = [pc EXCEPT ![m] = "managed"] /\ attached' = attached \cup {m}
        /\ UNCHANGED satbVars /\ ~ stopped
    BY <1>3 DEF InitYieldpoint, W!Attach, Goto
  <2>2. concurrentMarkRunning <=> gcPc \in Active
    BY <2>1 DEF MarkerInv, WorldInv, StoppedPcs, Active
  <2> QED
    BY <2>1, <2>2, <1>0, <1>1 DEF SatbInv, satbVars
<1>4. CASE DeleteMutator(m)
  <2>1. /\ concurrentMarking' = [concurrentMarking EXCEPT ![m] = FALSE]
        /\ satbNode' = [satbNode EXCEPT ![m] = {}]
        /\ retiredNodes' = retiredNodes \cup satbNode[m]
        /\ pc' = [pc EXCEPT ![m] = "absent"] /\ UNCHANGED <<worldVars, enqueueMap>>
        /\ pc[m] = "exiting"
    BY <1>4 DEF DeleteMutator, Goto
  <2>2. m \notin attached
    BY <2>1 DEF WorldInv
  <2> QED
    BY <2>1, <2>2, <1>0, <1>1 DEF SatbInv, worldVars
<1>5. ASSUME UNCHANGED satbVars, UNCHANGED concurrentMarking, ~ InitYieldpoint(m),
             ~ DeleteMutator(m)
      PROVE  SatbInv'
  <2>1. /\ pc[m] # "absent" => pc'[m] # "absent"
        /\ attached' \subseteq attached
        /\ pc[m] # "absent"
    BY <1>0, <1>5 DEF Mutate, EnterSaferegion, LeaveSaferegion,
       ScanStackAndMark, FiniYieldpoint, NewObj, LoadRefField, ReturnFromFrame,
       ProcessFinalizable, ReferenceGetReferent, GCWriteField, WeakRefGetBarrier,
       StoreRefField, EnqueueReference, Managed, Goto, W!Park, W!Resume,
       W!Detach, worldVars
  <2> QED
    BY <2>1, <1>0, <1>1, <1>2, <1>5 DEF SatbInv, satbVars
<1>6. ASSUME NEW o \in Objects \cup {Null}, SatbWriteBarrier(m, o),
             pc[m] \in {"managed", "get"}, pc'[m] \in {"managed", "get", "store"},
             UNCHANGED <<markBitmap, work, concurrentMarking, worldVars>>
      PROVE  SatbInv'
  <2>1. /\ \A n \in Mutators \ {m} : satbNode'[n] = satbNode[n]
        /\ ~ concurrentMarking[m] => UNCHANGED satbVars
        /\ gcPc \in MarkRunning => enqueueMap' \subseteq Safe'
    BY <1>6, BarrierFacts
  <2>2. CASE concurrentMarking[m]
    <3>1. gcPc \in Active
      BY <2>2 DEF SatbInv
    <3>2. gcPc \in MarkRunning /\ gcPc \notin {"finalizers", "sweep", "swept", "idle", "stop1", "prepare"}
      BY <3>1 DEF Active, MarkRunning, MarkPhase
    <3> QED
      BY <2>1, <3>1, <3>2, <1>0, <1>2, <1>6 DEF SatbInv, worldVars
  <2>3. CASE ~ concurrentMarking[m]
    BY <2>1, <2>3, <1>0, <1>1, <1>2, <1>6 DEF SatbInv, worldVars, satbVars
  <2> QED
    BY <2>2, <2>3
<1> QED
  BY <1>3, <1>4, <1>5, <1>6, SatbFrame

LEMMA SatbCollect ==
  ASSUME TypeOK, WorldInv, MarkerInv, SatbInv, Collect
  PROVE  SatbInv'
<1>0. UNCHANGED pc
  BY CollectFrame DEF mutVars
<1>1. gcPc \in MarkPhase => Safe \subseteq Safe'
  BY SafeCollect
<1>2. CASE \/ \E o \in Objects : \/ MarkObject(o) \/ CopyChildRefs(o)
                                 \/ ConcurrentMarkFinalizer(o)
           \/ \E m \in Mutators : ConcurrentStackScan(m)
  <2>1. UNCHANGED <<satbVars, gcPc, concurrentMarking, worldVars>>
    BY <1>2 DEF MarkObject, CopyChildRefs, ConcurrentMarkFinalizer,
       ConcurrentStackScan, gcVars, flagVars
  <2> QED
    BY <2>1, <1>0, <1>1 DEF SatbInv, satbVars, worldVars, MarkRunning
<1>3. CASE \/ StopTheWorld \/ StartTheWorld
           \/ ConcurrentStaticRootsScan
           \/ ConcurrentMarkDrained \/ ConcurrentProcessDisovered
           \/ ConcurrentPrepareResurrection \/ ConcurrentMarkFinalizerDone
           \/ ConcurrentReMarkDrained
           \/ ResurrectionPhase \/ PrepareConcurrentSweep
           \/ ConcurrentAddFinalizerToRP \/ ConcurrentSweep \/ ResetBitmap
  <2>1. /\ UNCHANGED <<satbVars, concurrentMarking, attached>>
        /\ gcPc \in Active <=> gcPc' \in Active
        /\ gcPc \in MarkRunning <=> gcPc' \in MarkRunning
        /\ gcPc' \in {"finalizers", "sweep", "swept", "idle", "stop1", "prepare"}
             => gcPc \in {"finalizers", "sweep", "swept", "idle", "stop1", "prepare"}
    BY <1>3 DEF StopTheWorld, W!Stop, StartTheWorld, W!Start,
       ConcurrentStaticRootsScan, ConcurrentMarkDrained,
       ConcurrentProcessDisovered, ConcurrentPrepareResurrection,
       ConcurrentMarkFinalizerDone, ConcurrentReMarkDrained, ResurrectionPhase,
       PrepareConcurrentSweep, ConcurrentAddFinalizerToRP, ConcurrentSweep,
       ResetBitmap, flagVars, worldVars, Active, MarkRunning, MarkPhase
  <2> QED
    BY <2>1, <1>0, <1>1 DEF SatbInv, satbVars, MarkRunning
<1>4. CASE ConcurrentMSPreSTW1
  BY <1>0, <1>4 DEF SatbInv, ConcurrentMSPreSTW1, Active, MarkRunning, MarkPhase,
     flagVars, worldVars
<1>5. CASE ConcurrentMarkPrepare
  <2>1. /\ concurrentMarking' = [m \in Mutators |-> \/ m \in attached
                                              \/ concurrentMarking[m]]
        /\ UNCHANGED <<worldVars, satbVars>>
        /\ gcPc = "prepare" /\ gcPc' = "start1"
    BY <1>5 DEF ConcurrentMarkPrepare
  <2>2. ASSUME NEW m \in Mutators, pc[m] = "absent"
        PROVE  m \notin attached
    BY <2>2 DEF WorldInv
  <2> QED
    BY <1>0, <2>1, <2>2 DEF SatbInv, Active, MarkRunning, MarkPhase, worldVars, satbVars
<1>6. CASE ConcurrentReMark
  <2>1. /\ UNCHANGED <<satbNode, enqueueMap, concurrentMarking, attached>>
        /\ retiredNodes' = {}
        /\ gcPc \in Active /\ gcPc' \in Active /\ gcPc \in MarkPhase
        /\ gcPc \in MarkRunning
        /\ gcPc' \notin {"finalizers", "sweep", "swept", "idle", "stop1", "prepare"}
    BY <1>6 DEF ConcurrentReMark, flagVars, worldVars, Active, MarkRunning, MarkPhase
  <2> QED
    BY <2>1, <1>0, <1>1 DEF SatbInv
<1>7. CASE ConcurrentMarkCleanup
  <2>1. /\ satbNode' = [m \in Mutators |-> IF m \in attached THEN {} ELSE satbNode[m]]
        /\ concurrentMarking' = [m \in Mutators |-> /\ m \notin attached
                                                    /\ concurrentMarking[m]]
        /\ gcPc = "cleanup" /\ gcPc' = "cleanupDrain"
        /\ retiredNodes' = {} /\ UNCHANGED <<worldVars, enqueueMap>>
    BY <1>7 DEF ConcurrentMarkCleanup
  <2>2. ASSUME NEW m \in Mutators, m \notin attached
        PROVE  satbNode[m] = {} /\ ~ concurrentMarking[m]
    <3>1. pc[m] = "absent"
      BY <2>1, <2>2 DEF WorldInv, StoppedPcs
    <3> QED
      BY <3>1 DEF SatbInv
  <2>3. gcPc \in MarkPhase /\ gcPc \in MarkRunning /\ gcPc' \notin Active
    BY <2>1 DEF MarkPhase, MarkRunning, Active
  <2>4. \A m \in Mutators : satbNode'[m] = {} /\ concurrentMarking'[m] = FALSE
    BY <2>1, <2>2
  <2> QED
    BY <2>1, <2>3, <2>4, <1>0, <1>1 DEF SatbInv
<1>8. CASE ConcurrentMarkCleanupDrained
  BY <1>0, <1>8 DEF SatbInv, ConcurrentMarkCleanupDrained, Active, MarkRunning,
     MarkPhase, satbVars, worldVars
<1>9. CASE ConcurrentMSPostSTW2
  BY <1>0, <1>9 DEF SatbInv, ConcurrentMSPostSTW2, Active, MarkRunning,
     MarkPhase, flagVars, worldVars
<1> QED
  BY <1>2, <1>3, <1>4, <1>5, <1>6, <1>7, <1>8, <1>9 DEF Collect

LEMMA SatbStep ==
  ASSUME TypeOK, OpInv, WorldInv, MarkerInv, SatbInv, [Next]_vars
  PROVE  SatbInv'
<1>1. CASE UNCHANGED vars
  BY <1>1 DEF SatbInv, Safe, vars, worldVars, markVars, satbVars, flagVars,
     mutVars, gcVars
<1> QED
  BY <1>1, SatbMutate, SatbCollect DEF Next

-----------------------------------------------------------------------------
(* What a mutator can get at.                                              *)

LEMMA AttainableFacts ==
  ASSUME TypeOK
  PROVE  /\ Roots \cup resurrectable \subseteq Attainable
         /\ Attainable \subseteq Objects
         /\ \A c \in Attainable : Children(c) \cup ({field[c]} \ {Null}) \subseteq Attainable
<1>1. Attainable \subseteq Objects
  BY DEF Attainable, Closure
<1>2. Roots \cup resurrectable \subseteq Objects
  <2>1. QueueRoots \subseteq Objects
    BY QueueFacts, ConstantsAssumption DEF TypeOK
  <2>2. field[Static] \in Objects \cup {Null} /\ resurrectable \subseteq Objects
    BY ConstantsAssumption DEF TypeOK, Slots
  <2>3. \A m \in Mutators : stack[m] \subseteq Objects
    BY DEF TypeOK
  <2> QED
    BY <2>1, <2>2, <2>3 DEF Roots
<1>3. Roots \cup resurrectable \subseteq Attainable
  BY <1>2 DEF Attainable, Closure
<1>4. ASSUME NEW c \in Attainable, NEW o \in Children(c) \cup ({field[c]} \ {Null})
      PROVE  o \in Attainable
  <2>1. c \in Objects
    BY <1>1
  <2>2. o \in Objects
    BY <1>4, <2>1, ChildrenFacts DEF TypeOK, Slots
  <2>3. ASSUME NEW C \in SUBSET Objects, Roots \cup resurrectable \subseteq C,
               \A x \in C : Children(x) \cup ({field[x]} \ {Null}) \subseteq C
        PROVE  o \in C
    <3>1. c \in C
      BY <2>3 DEF Attainable, Closure
    <3> QED
      BY <3>1, <2>3, <1>4
  <2> QED
    BY <2>2, <2>3 DEF Attainable, Closure
<1> QED
  BY <1>1, <1>3, <1>4

LEMMA LiveLeast ==
  ASSUME NEW C \in SUBSET Objects, Roots \subseteq C,
         \A c \in C : Children(c) \subseteq C
  PROVE  Live \subseteq C
BY DEF Live, Closure

(* A closed set contains all that a mutator can reach.                     *)
LEMMA LiveClosed ==
  ASSUME TypeOK, NEW K \in SUBSET Objects, Reach(K)
  PROVE  Live \subseteq K
<1>1. Roots \subseteq K
  <2>1. QueueRoots \subseteq K
    BY QueueFacts DEF Reach
  <2> QED
    BY <2>1 DEF Reach, Roots
<1>2. ASSUME NEW c \in K
      PROVE  Children(c) \subseteq K
  <2>1. c \in Objects /\ field[c] \in K \cup {Null} /\ Queued \subseteq K
    BY DEF Reach
  <2> QED
    BY <2>1, ChildrenFacts
<1> QED
  BY <1>1, <1>2, LiveLeast

(* The steps of a mutator lead out of no such set.                         *)
LEMMA ReachMutate ==
  ASSUME TypeOK, OpInv, NEW K \in SUBSET Objects, Reach(K),
         NEW m \in Mutators, Mutate(m),
         ~ \E o \in Objects, v \in Objects \cup {Null} : NewObj(m, o, v)
  PROVE  Reach(K)'
<1>0. /\ stack \in [Mutators -> SUBSET Objects]
      /\ field \in [Slots -> Objects \cup {Null}]
      /\ Objects \subseteq Slots /\ Static \in Slots
      /\ \A n \in Mutators : stack[n] \subseteq K
  BY DEF TypeOK, Slots, Reach
<1>1. CASE \/ InitYieldpoint(m) \/ EnterSaferegion(m) \/ LeaveSaferegion(m)
           \/ ScanStackAndMark(m) \/ FiniYieldpoint(m) \/ DeleteMutator(m)
           \/ \E s \in Slots, v \in Objects \cup {Null} : GCWriteField(m, s, v)
           \/ WeakRefGetBarrier(m)
  <2>1. UNCHANGED <<heapVars, stack>>
    BY <1>1 DEF InitYieldpoint, EnterSaferegion, LeaveSaferegion,
       ScanStackAndMark, FiniYieldpoint, DeleteMutator, GCWriteField,
       WeakRefGetBarrier
  <2> QED
    BY <2>1 DEF Reach, Queued, heapVars
<1>2. ASSUME UNCHANGED field, finalizables' \subseteq finalizables,
             Queued' \subseteq Queued,
             \/ \E x \in K : stack' = [stack EXCEPT ![m] = @ \cup {x}]
             \/ \E x : stack' = [stack EXCEPT ![m] = @ \ {x}]
      PROVE  Reach(K)'
  <2>1. \A n \in Mutators : stack'[n] \subseteq K
    BY <1>0, <1>2
  <2> QED
    BY <1>2, <2>1 DEF Reach
<1>3. ASSUME NEW s \in Slots, LoadRefField(m, s)
      PROVE  Reach(K)'
  <2>1. field[s] \in K
    BY <1>3 DEF LoadRefField, Reach
  <2> QED
    BY <2>1, <1>3, <1>2 DEF LoadRefField, Reach, Queued, heapVars
<1>4. ASSUME NEW o \in Objects, ReturnFromFrame(m, o)
      PROVE  Reach(K)'
  BY <1>4, <1>2 DEF ReturnFromFrame, Queued, heapVars
<1>5. ASSUME NEW o \in Objects, ProcessFinalizable(m, o)
      PROVE  Reach(K)'
  <2>1. o \in K
    BY <1>5 DEF ProcessFinalizable, Reach
  <2> QED
    BY <2>1, <1>5, <1>2 DEF ProcessFinalizable, Queued
<1>6. ASSUME NEW r \in References, ReferenceGetReferent(m, r)
      PROVE  Reach(K)'
  <2>1. field[r] \in K
    BY <1>6 DEF ReferenceGetReferent, Reach
  <2> QED
    BY <2>1, <1>6, <1>2 DEF ReferenceGetReferent, Queued, heapVars
<1>7. CASE StoreRefField(m)
  <2>1. /\ op[m][1] \in Slots /\ op[m][2] \in K \cup {Null}
    BY <1>0, <1>7, OpElements DEF StoreRefField
  <2>2. /\ UNCHANGED <<stack, finalizables, enqueueRefs>>
        /\ field' = [field EXCEPT ![op[m][1]] = op[m][2]]
    BY <1>7 DEF StoreRefField
  <2>3. \A s \in K \cup {Static} : field'[s] \in K \cup {Null}
    BY <1>0, <2>1, <2>2 DEF Reach
  <2> QED
    BY <2>2, <2>3 DEF Reach, Queued
<1>8. CASE EnqueueReference(m)
  <2>1. Queued' \subseteq Queued /\ Head(enqueueRefs) \in Queued
    BY <1>8, ChainTail DEF EnqueueReference
  <2>2. Head(enqueueRefs) \in K
    BY <2>1 DEF Reach
  <2>3. /\ UNCHANGED <<field, finalizables>>
        /\ stack' = [stack EXCEPT ![m] = @ \cup {Head(enqueueRefs)}]
    BY <1>8 DEF EnqueueReference
  <2> QED
    BY <2>1, <2>2, <2>3, <1>2
<1> QED
  BY <1>1, <1>3, <1>4, <1>5, <1>6, <1>7, <1>8 DEF Mutate

LEMMA ClosedMutate ==
  ASSUME TypeOK, OpInv, NEW K \in SUBSET Objects, Closed(K),
         NEW m \in Mutators, Mutate(m),
         ~ \E o \in Objects, v \in Objects \cup {Null} : NewObj(m, o, v)
  PROVE  Closed(K)'
<1>1. Reach(K)'
  BY ReachMutate DEF Closed
<1>2. UNCHANGED resurrectable
  BY MarkerFrame
<1> QED
  BY <1>1, <1>2 DEF Closed

LEMMA UsableMutate ==
  ASSUME TypeOK, OpInv, UsableInv, NEW m \in Mutators, Mutate(m)
  PROVE  UsableInv'
<1>1. UNCHANGED <<gcPc, toSweep>>
  BY MutateFrame DEF gcVars
<1>2. PICK K : K = Usable
  OBVIOUS
<1>3. K \in SUBSET Objects /\ Closed(K)
  BY <1>2 DEF UsableInv, Closed, Reach, Usable, TypeOK
<1>4. CASE ~ \E o \in Objects, v \in Objects \cup {Null} : NewObj(m, o, v)
  <2>1. UNCHANGED <<allocated, dead>>
    BY <1>4, MarkerFrame
  <2>2. Closed(K)'
    BY <1>3, <1>4, ClosedMutate
  <2>3. Usable' = K
    BY <1>1, <1>2, <2>1 DEF Usable
  <2>4. Closed(Usable)'
    BY <2>2, <2>3 DEF Closed, Reach
  <2> QED
    BY <2>1, <2>4, <1>1 DEF UsableInv
<1>5. ASSUME NEW o \in Objects, NEW v \in Objects \cup {Null}, NewObj(m, o, v)
      PROVE  UsableInv'
  <2>1. /\ o \notin allocated /\ allocated' = allocated \cup {o}
        /\ v \in stack[m] \cup {Null}
        /\ dead' = dead \ {o}
        /\ field' = [field EXCEPT ![o] = v]
        /\ stack' = [stack EXCEPT ![m] = @ \cup {o}]
        /\ resurrectable' \subseteq resurrectable \cup {o}
        /\ UNCHANGED <<finalizables, enqueueRefs>>
    BY <1>5 DEF NewObj
  <2>2. Usable' = K \cup {o}
    BY <1>1, <1>2, <2>1 DEF Usable, UsableInv
  <2>3. /\ \A n \in Mutators : stack'[n] \subseteq K \cup {o}
        /\ \A s \in K \cup {o, Static} : field'[s] \in K \cup {o, Null}
    <3>1. /\ stack \in [Mutators -> SUBSET Objects]
          /\ field \in [Slots -> Objects \cup {Null}]
          /\ K \cup {o, Static} \subseteq Slots
          /\ \A n \in Mutators : stack[n] \subseteq K
          /\ \A s \in K \cup {Static} : field[s] \in K \cup {Null}
      BY <1>3 DEF TypeOK, Slots, Closed, Reach
    <3> QED
      BY <3>1, <2>1
  <2>4. Closed(Usable)'
    <3>1. Queued' = Queued
      BY <2>1 DEF Queued
    <3> QED
      BY <1>3, <2>1, <2>2, <2>3, <3>1 DEF Closed, Reach
  <2>5. toSweep \subseteq allocated /\ UNCHANGED toSweep
    BY <1>1 DEF UsableInv
  <2> QED
    BY <1>1, <2>1, <2>4, <2>5 DEF UsableInv
<1> QED
  BY <1>4, <1>5

LEMMA UsableCollect ==
  ASSUME TypeOK, WorldInv, MarkerInv, UsableInv, KeptInv, MarkInv, Collect
  PROVE  UsableInv'
<1>0. UNCHANGED stack
  BY CollectFrame DEF mutVars
<1>1. PICK K : K = Usable
  OBVIOUS
<1>2. K \in SUBSET Objects /\ Closed(K)
  BY <1>1 DEF UsableInv, Closed, Reach, Usable, TypeOK
<1>3. ASSUME UNCHANGED <<heapVars, toSweep, dead>>,
             gcPc' \in SweepPhase <=> gcPc \in SweepPhase,
             gcPc' \in {"idle", "stop1", "prepare", "swept"} =>
               gcPc \in {"idle", "stop1", "prepare", "swept"}
      PROVE  UsableInv'
  <2>1. Closed(Usable)'
    BY <1>0, <1>3 DEF heapVars, UsableInv, Usable, Closed, Reach, Queued
  <2> QED
    BY <1>3, <2>1 DEF heapVars, UsableInv
<1>4. CASE \/ \E o \in Objects : \/ MarkObject(o) \/ CopyChildRefs(o)
                                 \/ ConcurrentMarkFinalizer(o)
           \/ \E m \in Mutators : ConcurrentStackScan(m)
           \/ ConcurrentMSPreSTW1 \/ StopTheWorld \/ StartTheWorld
           \/ ConcurrentStaticRootsScan
           \/ ConcurrentMarkDrained \/ ConcurrentProcessDisovered
           \/ ConcurrentPrepareResurrection \/ ConcurrentMarkFinalizerDone
           \/ ConcurrentReMark \/ ConcurrentReMarkDrained
           \/ ConcurrentMarkCleanup \/ ConcurrentMarkCleanupDrained
           \/ ConcurrentMSPostSTW2 \/ ResetBitmap
  <2>1. /\ UNCHANGED <<heapVars, toSweep, dead>>
        /\ gcPc' \in SweepPhase <=> gcPc \in SweepPhase
        /\ gcPc' \in {"idle", "stop1", "prepare", "swept"} =>
               gcPc \in {"idle", "stop1", "prepare", "swept"}
    BY <1>4 DEF MarkObject, CopyChildRefs, ConcurrentMarkFinalizer,
       ConcurrentStackScan, ConcurrentMSPreSTW1, StopTheWorld, StartTheWorld,
       ConcurrentStaticRootsScan, ConcurrentMarkDrained,
       ConcurrentProcessDisovered, ConcurrentPrepareResurrection,
       ConcurrentMarkFinalizerDone, ConcurrentReMark, ConcurrentReMarkDrained,
       ConcurrentMarkCleanup, ConcurrentMarkCleanupDrained, ConcurrentMSPostSTW2,
       ResetBitmap, SweepPhase, gcVars, history
  <2> QED
    BY <2>1, <1>3
<1>5. CASE ConcurrentMarkPrepare
  <2>1. /\ gcPc = "prepare" /\ gcPc' = "start1" /\ dead' = allocated \ Attainable
        /\ UNCHANGED <<heapVars, toSweep>>
    BY <1>5 DEF ConcurrentMarkPrepare
  <2>2. toSweep = {} /\ dead \cap allocated = {}
    BY <2>1 DEF UsableInv, SweepPhase
  <2>3. K = allocated /\ Usable' = allocated \cap Attainable
    BY <1>1, <2>1, <2>2 DEF Usable, heapVars
  <2>4. PICK A : A = Attainable
    OBVIOUS
  <2>5. /\ Roots \cup resurrectable \subseteq A /\ A \subseteq Objects
        /\ \A c \in A : Children(c) \cup ({field[c]} \ {Null}) \subseteq A
    BY <2>4, AttainableFacts
  <2>6. Queued \subseteq A
    <3>1. QueueRoots \subseteq A
      BY <2>5 DEF Roots
    <3>2. \A r \in A \cap References : PendingNext(r) \subseteq A
      BY <2>5 DEF Children
    <3> QED
      BY <3>1, <3>2, ChainReached
  <2>7. Closed(K \cap A)
    <3>1. /\ finalizables \subseteq A /\ resurrectable \subseteq A
          /\ field[Static] \in A \cup {Null}
          /\ \A m \in Mutators : stack[m] \subseteq A
      BY <2>5 DEF Roots, QueueRoots
    <3>2. \A o \in K \cap A : field[o] \in (K \cap A) \cup {Null}
      BY <1>2, <2>5 DEF Closed, Reach
    <3> QED
      BY <3>1, <3>2, <2>6, <1>2 DEF Closed, Reach
  <2>8. Closed(Usable)'
    <3>1. Usable' = K \cap A
      BY <2>3, <2>4
    <3> QED
      BY <3>1, <2>1, <2>7, <1>0 DEF Closed, Reach, Queued, heapVars
  <2> QED
    BY <2>1, <2>2, <2>8 DEF UsableInv, SweepPhase
<1>6. CASE ResurrectionPhase
  <2> DEFINE first  == {r \in discoverRefs : Discoverable(r)}
             second == {r \in finalizerFindReferences :
                          Discoverable(r) /\ field[r] \notin finalBitmap}
  <2>1. PICK new \in SetToSeqs(first \cup second) :
          enqueueRefs' = new \o enqueueRefs
    BY <1>6 DEF ResurrectionPhase
  <2>2. first \cup second \in SUBSET References
    BY DEF TypeOK
  <2>3. Queued' \subseteq Queued \cup (first \cup second)
    BY <2>1, <2>2, ChainGrows
  <2>4. /\ gcPc = "resurrect" /\ gcPc' = "sweepPrepare"
        /\ field' = [s \in Slots |-> IF s \in first \cup second THEN Null ELSE field[s]]
        /\ UNCHANGED <<allocated, resurrectable, finalizables, toSweep, dead>>
    BY <1>6 DEF ResurrectionPhase, history
  <2>5. first \cup second \subseteq K
    <3>1. /\ Safe \subseteq Usable /\ finalBitmap \subseteq Usable
          /\ discoverRefs \subseteq markBitmap
          /\ finalizerFindReferences \subseteq finalBitmap
      BY <2>4 DEF MarkInv, FoundInv, MarkPhase
    <3>2. markBitmap \subseteq Safe
      BY DEF Safe
    <3> QED
      BY <3>1, <3>2, <1>1
  <2> HIDE DEF first, second
  <2>6. \A s \in K \cup {Static} : field'[s] \in K \cup {Null}
    BY <1>2, <2>4 DEF Closed, Reach, Slots
  <2>7. Usable' = K
    BY <1>1, <2>4 DEF Usable
  <2>8. Closed(Usable)'
    BY <1>0, <1>2, <2>3, <2>4, <2>5, <2>6, <2>7 DEF Closed, Reach
  <2> QED
    BY <2>4, <2>8 DEF UsableInv, SweepPhase
<1>7. CASE PrepareConcurrentSweep
  <2>1. /\ gcPc = "sweepPrepare" /\ gcPc' = "start2"
        /\ toSweep' = {o \in allocated : IsGarbage(o)}
        /\ UNCHANGED <<heapVars, dead>>
    BY <1>7 DEF PrepareConcurrentSweep, history
  <2>2. useFinalBitmap
    BY <2>1 DEF MarkerInv
  <2>3. toSweep' = allocated \ (markBitmap \cup finalBitmap)
    BY <2>1, <2>2 DEF IsGarbage
  <2>4. toSweep = {}
    BY <2>1 DEF UsableInv, SweepPhase
  <2>5. Usable' = Kept
    BY <2>1, <2>3, <2>4 DEF Usable, Kept, heapVars
  <2>6. Closed(Kept) /\ dead \cap (markBitmap \cup finalBitmap) = {}
    BY <2>1 DEF KeptInv
  <2>7. Closed(Usable)'
    <3>1. PICK L : L = Kept
      OBVIOUS
    <3>2. Closed(L) /\ Usable' = L
      BY <2>5, <2>6, <3>1 DEF Closed, Reach
    <3> QED
      BY <3>2, <2>1, <1>0 DEF Closed, Reach, Queued, heapVars
  <2> QED
    BY <2>1, <2>3, <2>6, <2>7 DEF UsableInv, SweepPhase, heapVars
<1>8. CASE ConcurrentAddFinalizerToRP
  <2>1. /\ gcPc = "finalizers" /\ gcPc' = "sweep"
        /\ finalizables' \subseteq finalizables \cup resurrectable
        /\ resurrectable' \subseteq resurrectable
        /\ UNCHANGED <<allocated, field, enqueueRefs, toSweep, dead>>
    BY <1>8 DEF ConcurrentAddFinalizerToRP, history
  <2>2. Usable' = K
    BY <1>1, <2>1 DEF Usable
  <2>3. Closed(Usable)'
    BY <1>0, <1>2, <2>1, <2>2 DEF Closed, Reach, Queued
  <2> QED
    BY <2>1, <2>3 DEF UsableInv, SweepPhase
<1>9. CASE ConcurrentSweep
  <2>1. /\ gcPc = "sweep" /\ gcPc' = "swept" /\ toSweep' = {}
        /\ allocated' = allocated \ toSweep
        /\ UNCHANGED <<field, enqueueRefs, finalizables, resurrectable, dead>>
    BY <1>9 DEF ConcurrentSweep, history
  <2>2. Usable' = K
    BY <1>1, <2>1 DEF Usable
  <2>3. Closed(Usable)'
    BY <1>0, <1>2, <2>1, <2>2 DEF Closed, Reach, Queued
  <2> QED
    BY <2>1, <2>3 DEF UsableInv, SweepPhase
<1> QED
  BY <1>4, <1>5, <1>6, <1>7, <1>8, <1>9 DEF Collect

LEMMA UsableStep ==
  ASSUME TypeOK, OpInv, WorldInv, MarkerInv, UsableInv, KeptInv, MarkInv, [Next]_vars
  PROVE  UsableInv'
<1>1. CASE UNCHANGED vars
  BY <1>1 DEF UsableInv, Usable, Closed, Reach, Queued, vars, worldVars, heapVars,
     markVars, mutVars, gcVars, history
<1> QED
  BY <1>1, UsableMutate, UsableCollect DEF Next

-----------------------------------------------------------------------------
(* Marking, the steps of the mutators.                                     *)

(* A mutator that runs during marking marks.                               *)
LEMMA MutatorMarks ==
  ASSUME TypeOK, WorldInv, MarkerInv, SatbInv, gcPc \in MarkPhase,
         NEW m \in Mutators, Mutate(m)
  PROVE  /\ gcPc \in Active /\ concurrentMarkRunning
         /\ pc[m] \in {"managed", "get", "store"} => concurrentMarking[m]
<1>1. ~ stopped
  BY StoppedIsStill DEF TypeOK
<1>2. gcPc \in Active /\ gcPc \in MarkRunning
  BY <1>1 DEF WorldInv, StoppedPcs, Active, MarkRunning
<1> QED
  BY <1>2 DEF MarkerInv, SatbInv, WorldInv

(* How the heap changes.                                                   *)
LEMMA HeapFrame ==
  ASSUME NEW m \in Mutators, Mutate(m)
  PROVE  \/ /\ UNCHANGED <<allocated, field, enqueueRefs, resurrectable>>
            /\ finalizables' \subseteq finalizables
         \/ \E o \in Objects, v \in Objects \cup {Null} : NewObj(m, o, v)
         \/ StoreRefField(m) \/ EnqueueReference(m)
BY DEF Mutate, InitYieldpoint, EnterSaferegion, LeaveSaferegion,
   ScanStackAndMark, FiniYieldpoint, DeleteMutator, LoadRefField,
   ReturnFromFrame, ProcessFinalizable, ReferenceGetReferent, GCWriteField,
   WeakRefGetBarrier, heapVars

LEMMA OpFrame ==
  ASSUME TypeOK, NEW m \in Mutators, Mutate(m)
  PROVE  /\ pc'[m] = "get" => \E r \in References : ReferenceGetReferent(m, r)
         /\ pc'[m] = "store" =>
              \E s \in Slots, v \in Objects \cup {Null} : GCWriteField(m, s, v)
         /\ pc[m] = "get" => WeakRefGetBarrier(m)
         /\ pc[m] = "scan" => ScanStackAndMark(m)
         /\ pc[m] = "native" =>
              LeaveSaferegion(m) \/ (stack[m] = {} /\ stack' = stack)
         /\ toScan \ {m} \subseteq toScan'
         /\ stack[m] \subseteq stack'[m] \/ pc[m] = "managed"
<1>0. /\ pc \in [Mutators -> {"absent", "managed", "native", "scan", "exiting",
                              "get", "store"}]
      /\ stack \in [Mutators -> SUBSET Objects]
  BY DEF TypeOK
<1>1. CASE InitYieldpoint(m) \/ EnterSaferegion(m) \/ LeaveSaferegion(m)
  BY <1>0, <1>1 DEF InitYieldpoint, EnterSaferegion, LeaveSaferegion, Managed,
     Goto, markVars
<1>2. CASE ScanStackAndMark(m) \/ FiniYieldpoint(m) \/ DeleteMutator(m)
  BY <1>0, <1>2 DEF ScanStackAndMark, FiniYieldpoint, DeleteMutator, Goto, markVars
<1>3. CASE \/ \E o \in Objects, v \in Objects \cup {Null} : NewObj(m, o, v)
           \/ \E s \in Slots : LoadRefField(m, s)
           \/ \E o \in Objects : ReturnFromFrame(m, o) \/ ProcessFinalizable(m, o)
           \/ EnqueueReference(m)
  <2>1. pc' = pc /\ pc[m] = "managed" /\ toScan' = toScan
    BY <1>3 DEF NewObj, LoadRefField, ReturnFromFrame, ProcessFinalizable,
       EnqueueReference, Managed, markVars
  <2> QED
    BY <2>1
<1>4. CASE \E r \in References : ReferenceGetReferent(m, r)
  BY <1>0, <1>4 DEF ReferenceGetReferent, Managed, Goto, markVars
<1>5. CASE \E s \in Slots, v \in Objects \cup {Null} : GCWriteField(m, s, v)
  BY <1>0, <1>5 DEF GCWriteField, Managed, Goto, markVars
<1>6. CASE WeakRefGetBarrier(m) \/ StoreRefField(m)
  BY <1>0, <1>6 DEF WeakRefGetBarrier, StoreRefField, Goto, markVars
<1> QED
  BY <1>1, <1>2, <1>3, <1>4, <1>5, <1>6 DEF Mutate

(* What the barriers log.                                                  *)
LEMMA BarrierLogs ==
  ASSUME TypeOK, OpInv, SatbInv, NEW m \in Mutators, concurrentMarking[m]
  PROVE  /\ WeakRefGetBarrier(m) => op[m][1] \in Safe'
         /\ \A s \in Slots, v \in Objects \cup {Null} :
              GCWriteField(m, s, v) => field[s] \in Safe' \cup {Null}
         /\ EnqueueReference(m) /\ Len(enqueueRefs) > 1 => enqueueRefs[2] \in Safe'
<1>1. ASSUME WeakRefGetBarrier(m)
      PROVE  op[m][1] \in Safe'
  <2>1. op[m][1] \in Objects \cup {Null} /\ op[m][1] # Null
    BY <1>1, OpElements, ConstantsAssumption DEF WeakRefGetBarrier
  <2>2. SatbWriteBarrier(m, op[m][1]) /\ UNCHANGED <<markBitmap, work>>
    BY <1>1 DEF WeakRefGetBarrier, markVars
  <2> QED
    BY <2>1, <2>2, BarrierFacts
<1>2. ASSUME NEW s \in Slots, NEW v \in Objects \cup {Null}, GCWriteField(m, s, v)
      PROVE  field[s] \in Safe' \cup {Null}
  <2>1. field[s] \in Objects \cup {Null}
    BY DEF TypeOK
  <2>2. SatbWriteBarrier(m, field[s]) /\ UNCHANGED <<markBitmap, work>>
    BY <1>2 DEF GCWriteField, markVars
  <2> QED
    BY <2>1, <2>2, BarrierFacts
<1>3. ASSUME EnqueueReference(m), Len(enqueueRefs) > 1
      PROVE  enqueueRefs[2] \in Safe'
  <2>1. enqueueRefs[2] \in Objects \cup {Null} /\ enqueueRefs[2] # Null
    BY <1>3, ChainTail, QueueFacts, ConstantsAssumption DEF EnqueueReference
  <2>2. SatbWriteBarrier(m, enqueueRefs[2]) /\ UNCHANGED <<markBitmap, work>>
    BY <1>3 DEF EnqueueReference, markVars
  <2> QED
    BY <2>1, <2>2, BarrierFacts
<1> QED
  BY <1>1, <1>2, <1>3

(* Where the closure starts only grows.                                    *)
LEMMA GenMutate ==
  ASSUME TypeOK, OpInv, WorldInv, MarkerInv, SatbInv, gcPc \in MarkPhase,
         NEW s0, NEW m \in Mutators, Mutate(m)
  PROVE  Gen(s0) \subseteq Gen(s0)'
<1>1. Safe \subseteq Safe'
  BY SafeMutate
<1>2. ASSUME NEW n \in Mutators, n \in Unscanned
      PROVE  stack[n] \subseteq Gen(s0)'
  <2>1. CASE n # m
    <3>1. stack'[n] = stack[n] /\ pc'[n] = pc[n]
      BY <2>1, MutateFrame
    <3>2. n \in Unscanned'
      BY <1>2, <2>1, <3>1, OpFrame DEF Unscanned
    <3> QED
      BY <3>1, <3>2 DEF Gen, Waiting
  <2>2. CASE n = m /\ pc[m] = "scan"
    <3>1. stack[m] \subseteq work'
      BY <2>2, OpFrame DEF ScanStackAndMark
    <3> QED
      BY <2>2, <3>1 DEF Gen, Safe
  <2>3. CASE n = m /\ pc[m] # "scan"
    <3>1. m \in toScan /\ pc[m] = "native"
      BY <1>2, <2>3 DEF Unscanned, WorldInv
    <3>2. CASE LeaveSaferegion(m)
      <4>1. pc'[m] = "scan" /\ stack' = stack
        BY <3>1, <3>2 DEF LeaveSaferegion, Goto, TypeOK
      <4> QED
        BY <2>3, <4>1 DEF Gen, Waiting, Unscanned
    <3>3. CASE stack[m] = {}
      BY <3>3, <2>3
    <3> QED
      BY <3>1, <3>2, <3>3, OpFrame
  <2> QED
    BY <2>1, <2>2, <2>3
<1>3. ASSUME NEW n \in Mutators, n \in Getting
      PROVE  op[n][1] \in Gen(s0)'
  <2>1. CASE n # m
    <3>1. op'[n] = op[n] /\ pc'[n] = pc[n]
      BY <2>1, MutateFrame
    <3>2. n \in Getting'
      BY <1>3, <3>1 DEF Getting
    <3>3. op'[n][1] \in Gotten'
      BY <3>2 DEF Gotten
    <3>4. op'[n][1] \in Gen(s0)'
      BY <3>3 DEF Gen
    <3> QED
      BY <3>1, <3>4
  <2>2. CASE n = m
    <3>1. WeakRefGetBarrier(m) /\ pc[m] = "get"
      BY <1>3, <2>2, OpFrame DEF Getting
    <3>2. concurrentMarking[m]
      BY <3>1, MutatorMarks
    <3>3. op[m][1] \in Safe'
      BY <3>1, <3>2, BarrierLogs
    <3> QED
      BY <2>2, <3>3 DEF Gen
  <2> QED
    BY <2>1, <2>2
<1>4. Safe' \subseteq Gen(s0)' /\ {s0} \ {Null} \subseteq Gen(s0)'
  BY DEF Gen
<1>5. Unscanned \subseteq Mutators /\ Getting \subseteq Mutators
  BY DEF Unscanned, Getting
<1>6. Waiting \subseteq Gen(s0)'
  BY <1>2, <1>5 DEF Waiting
<1>7. Gotten \subseteq Gen(s0)'
  BY <1>3, <1>5 DEF Gotten
<1> QED
  BY <1>1, <1>4, <1>6, <1>7 DEF Gen

GenTyped == \A s0 \in Objects \cup {Null} : Gen(s0) \subseteq Objects

LEMMA GenType ==
  TypeOK /\ OpInv => GenTyped
<1> SUFFICES ASSUME NEW s0 \in Objects \cup {Null}, TypeOK, OpInv
             PROVE  Gen(s0) \subseteq Objects
  BY DEF GenTyped
<1>1. Safe \subseteq Objects
  BY DEF Safe, TypeOK
<1>2. Waiting \subseteq Objects
  BY DEF Waiting, Unscanned, TypeOK
<1>3. Gotten \subseteq Objects
  BY OpElements DEF Gotten, Getting
<1> QED
  BY <1>1, <1>2, <1>3 DEF Gen

(* The closure before and after a step.                                    *)
LEMMA CovStep ==
  ASSUME TypeOK, OpInv, TypeOK', OpInv',
         NEW g \in [Objects -> SUBSET Objects], NEW s0 \in Objects \cup {Null},
         Gen(s0) \subseteq Gen(s0)'
  PROVE  \E V, V1 \in SUBSET Objects :
           /\ V = Cov(Gen(s0), g) /\ V1 = Cov(Gen(s0), g)'
           /\ V \subseteq V1 /\ Gen(s0) \subseteq V /\ Gen(s0)' \subseteq V1
           /\ \A c \in V : g[c] \subseteq V
<1>1. Gen(s0) \subseteq Objects
  BY GenType DEF GenTyped
<1>2. (Gen(s0) \subseteq Objects)'
  <2>1. (TypeOK /\ OpInv => GenTyped)'
    BY GenType, PTL
  <2> QED
    BY <2>1 DEF GenTyped
<1>3. PICK S, S1 \in SUBSET Objects : S = Gen(s0) /\ S1 = Gen(s0)'
  BY <1>1, <1>2
<1>4. /\ S \subseteq Cov(S, g) /\ Cov(S, g) \subseteq Objects
      /\ \A c \in Cov(S, g) : g[c] \subseteq Cov(S, g)
  BY <1>3, CovBasic
<1>5. S1 \subseteq Cov(S1, g) /\ Cov(S1, g) \subseteq Objects
  BY <1>3, CovBasic
<1>6. Cov(S, g) \subseteq Cov(S1, g)
  BY <1>3, CovMonotone
<1>7. Cov(S, g) = Cov(Gen(s0), g) /\ Cov(S1, g) = Cov(Gen(s0), g)'
  BY <1>3
<1> QED
  BY <1>3, <1>4, <1>5, <1>6, <1>7

(* The edges of the snapshot.                                              *)
LEMMA EdgeMutate ==
  ASSUME TypeOK, OpInv, WorldInv, MarkerInv, SatbInv, gcPc \in MarkPhase,
         NEW g \in [Objects -> SUBSET Objects], NEW s0 \in Objects \cup {Null},
         EdgeInv(g, s0), NEW m \in Mutators, Mutate(m)
  PROVE  EdgeInv(g, s0)'
<1>0. /\ Safe \subseteq Safe' /\ UNCHANGED <<gcPc, scanning>>
      /\ field \in [Slots -> Objects \cup {Null}]
      /\ Objects \subseteq Slots /\ Static \in Slots /\ Static \notin Objects
      /\ \A n \in Mutators \ {m} : op'[n] = op[n] /\ pc'[n] = pc[n]
  BY SafeMutate, MutateFrame, MarkerFrame, ConstantsAssumption DEF TypeOK, Slots, gcVars
<1>1. /\ allocated \subseteq allocated'
      /\ \A o \in markBitmap' \ markBitmap : o \in Objects \ allocated
  BY MarkerFrame DEF NewObj
<1>2. (\A o \in Objects \ allocated : g[o] = {})'
  BY <1>1 DEF EdgeInv
<1>3. /\ pc[m] \in {"managed", "get", "store"} => concurrentMarking[m]
  BY MutatorMarks
<1>4. ASSUME NEW s \in Slots, NEW v \in Objects \cup {Null}, GCWriteField(m, s, v)
      PROVE  /\ field[s] \in Safe' \cup {Null} /\ op'[m][1] = s
             /\ UNCHANGED field
  <2>1. pc[m] = "managed" /\ op'[m] = <<s, v>> /\ field' = field
    BY <1>4 DEF GCWriteField, Managed, heapVars, OpInv
  <2> QED
    BY <2>1, <1>3, <1>4, BarrierLogs
<1>5. \/ s0 \in Safe' \cup {Null}
      \/ /\ s0 = field'[Static] /\ gcPc' \in {"start1", "stacks"}
         /\ \A n \in Mutators : pc'[n] = "store" => op'[n][1] # Static
  <2>1. CASE s0 \in Safe \cup {Null}
    BY <2>1, <1>0
  <2>2. CASE s0 \notin Safe' \cup {Null}
    <3>1. /\ s0 = field[Static] /\ gcPc \in {"start1", "stacks"}
          /\ \A n \in Mutators : pc[n] = "store" => op[n][1] # Static
      BY <2>2, <1>0 DEF EdgeInv
    <3>2. field'[Static] = field[Static]
      <4>1. CASE UNCHANGED field
        BY <4>1
      <4>2. ASSUME NEW o \in Objects, NEW v \in Objects \cup {Null}, NewObj(m, o, v)
            PROVE  field'[Static] = field[Static]
        BY <1>0, <4>2 DEF NewObj
      <4>3. CASE StoreRefField(m)
        <5>1. op[m][1] # Static /\ field' = [field EXCEPT ![op[m][1]] = op[m][2]]
          BY <3>1, <4>3 DEF StoreRefField
        <5> QED
          BY <5>1, <1>0
      <4>4. CASE EnqueueReference(m)
        BY <4>4 DEF EnqueueReference
      <4> QED
        BY <4>1, <4>2, <4>3, <4>4, HeapFrame
    <3>3. pc'[m] = "store" => op'[m][1] # Static
      BY <1>4, <2>2, <3>1, OpFrame
    <3> QED
      BY <3>1, <3>2, <3>3, <1>0
  <2> QED
    BY <2>1, <2>2, <1>0
<1>6. \A o \in Objects : \A c \in g[o] : c \in Safe' \cup Children(o)'
  <2>0. \A o \in Objects : \A c \in g[o] : c \in Safe \cup Children(o)
    BY DEF EdgeInv
  <2>1. CASE UNCHANGED <<field, enqueueRefs>>
    <3>1. \A o \in Objects : Children(o)' = Children(o)
      BY <2>1 DEF Children, PendingNext
    <3> QED
      BY <2>0, <3>1, <1>0
  <2>2. ASSUME NEW n \in Objects, NEW v \in Objects \cup {Null}, NewObj(m, n, v)
        PROVE  \A o \in Objects : \A c \in g[o] : c \in Safe' \cup Children(o)'
    <3>1. /\ n \notin allocated /\ field' = [field EXCEPT ![n] = v]
          /\ UNCHANGED enqueueRefs
      BY <2>2 DEF NewObj
    <3>2. g[n] = {}
      BY <3>1 DEF EdgeInv
    <3>3. ASSUME NEW o \in Objects, o # n
          PROVE  Children(o)' = Children(o)
      BY <1>0, <3>1, <3>3 DEF Children, PendingNext
    <3> QED
      BY <2>0, <3>2, <3>3, <1>0
  <2>3. ASSUME StoreRefField(m)
        PROVE  \A o \in Objects : \A c \in g[o] : c \in Safe' \cup Children(o)'
    <3>1. /\ pc[m] = "store" /\ field' = [field EXCEPT ![op[m][1]] = op[m][2]]
          /\ UNCHANGED enqueueRefs
      BY <2>3 DEF StoreRefField
    <3>2. op[m][1] \in Objects \ References => g[op[m][1]] \subseteq Safe
      BY <3>1 DEF EdgeInv
    <3>3. ASSUME NEW o \in Objects, o # op[m][1] \/ o \in References
          PROVE  Children(o)' = Children(o)
      <4>1. PendingNext(o)' = PendingNext(o)
        BY <3>1 DEF PendingNext
      <4>2. o \notin References => field'[o] = field[o]
        BY <3>1, <3>3, <1>0
      <4> QED
        BY <4>1, <4>2 DEF Children
    <3> QED
      BY <2>0, <3>2, <3>3, <1>0
  <2>4. ASSUME EnqueueReference(m)
        PROVE  \A o \in Objects : \A c \in g[o] : c \in Safe' \cup Children(o)'
    <3>1. /\ UNCHANGED field /\ pc[m] = "managed" /\ enqueueRefs # <<>>
          /\ enqueueRefs' = Tail(enqueueRefs)
      BY <2>4 DEF EnqueueReference, Managed
    <3>2. \A r : \A x \in PendingNext(r) :
              x \in PendingNext(r)' \/ (Len(enqueueRefs) > 1 /\ x = enqueueRefs[2])
      BY <3>1, ChainTail
    <3>3. Len(enqueueRefs) > 1 => enqueueRefs[2] \in Safe'
      BY <3>1, <2>4, <1>3, BarrierLogs
    <3>4. ASSUME NEW o \in Objects
          PROVE  Children(o) \subseteq Children(o)' \cup Safe'
      BY <3>1, <3>2, <3>3 DEF Children
    <3> QED
      BY <2>0, <3>4, <1>0
  <2> QED
    BY <2>1, <2>2, <2>3, <2>4, HeapFrame
<1>7. \A o \in markBitmap' \ scanning' : g[o] \subseteq Safe'
  BY <1>0, <1>1 DEF EdgeInv
<1>8. ASSUME NEW n \in Mutators, pc'[n] = "store", op'[n][1] \in Objects \ References
      PROVE  g[op'[n][1]] \subseteq Safe'
  <2>1. CASE n # m
    BY <2>1, <1>0, <1>8 DEF EdgeInv
  <2>2. CASE n = m
    <3>1. PICK s \in Slots, v \in Objects \cup {Null} : GCWriteField(m, s, v)
      BY <1>8, <2>2, OpFrame
    <3>2. s = op'[m][1] /\ field[s] \in Safe' \cup {Null}
      BY <3>1, <1>4
    <3>3. s \in Objects \ References
      BY <3>2, <1>8, <2>2
    <3>4. Children(s) \subseteq Safe'
      BY <3>2, <3>3 DEF Children
    <3>5. g[s] \subseteq Safe \cup Children(s)
      BY <3>3 DEF EdgeInv
    <3> QED
      BY <3>2, <3>4, <3>5, <1>0, <2>2
  <2> QED
    BY <2>1, <2>2
<1> QED
  BY <1>2, <1>5, <1>6, <1>7, <1>8 DEF EdgeInv

(* How the steps of a mutator change what objects refer to, when all that  *)
(* it can get at is in V.                                                  *)
LEMMA ChildrenMutate ==
  ASSUME TypeOK, OpInv, UsableInv, NEW V, \A n \in Mutators : stack[n] \subseteq V,
         Queued \subseteq V, NEW m \in Mutators, Mutate(m)
  PROVE  /\ Queued' \subseteq Queued
         /\ \A o \in allocated : Children(o)' \subseteq Children(o) \cup V
         /\ \A r \in allocated \cap References : field'[r] \in {field[r], Null}
         /\ \A o \in Objects, v \in Objects \cup {Null} : NewObj(m, o, v) =>
              /\ Children(o)' \subseteq V
              /\ o \in References => field'[o] \in V \cup {Null}
<1> DEFINE Goal == /\ Queued' \subseteq Queued
                   /\ \A o \in allocated : Children(o)' \subseteq Children(o) \cup V
                   /\ \A r \in allocated \cap References : field'[r] \in {field[r], Null}
<1>0. /\ field \in [Slots -> Objects \cup {Null}] /\ allocated \subseteq Objects
      /\ Objects \subseteq Slots
  BY DEF TypeOK, Slots
<1>1. CASE /\ UNCHANGED <<field, enqueueRefs>>
           /\ ~ \E o \in Objects, v \in Objects \cup {Null} : NewObj(m, o, v)
  BY <1>1 DEF Queued, Children, PendingNext
<1>2. ASSUME NEW o \in Objects, NEW v \in Objects \cup {Null}, NewObj(m, o, v)
      PROVE  /\ Goal
             /\ Children(o)' \subseteq V
             /\ o \in References => field'[o] \in V \cup {Null}
  <2>1. /\ o \notin allocated /\ field' = [field EXCEPT ![o] = v]
        /\ v \in stack[m] \cup {Null} /\ (o \notin References => v = Null)
        /\ UNCHANGED enqueueRefs
    BY <1>2 DEF NewObj
  <2>2. Queued' = Queued /\ \A r : PendingNext(r)' = PendingNext(r)
    BY <2>1 DEF Queued, PendingNext
  <2>3. /\ \A x \in allocated : field'[x] = field[x]
        /\ field'[o] = v
    BY <1>0, <2>1
  <2>4. \A x \in allocated : Children(x)' = Children(x)
    BY <2>2, <2>3 DEF Children
  <2>5. Children(o)' \subseteq V
    BY <2>1, <2>2, <2>3, QueueFacts DEF Children
  <2> QED
    BY <2>1, <2>2, <2>3, <2>4, <2>5
<1>3. CASE StoreRefField(m)
  <2>1. /\ pc[m] = "store" /\ field' = [field EXCEPT ![op[m][1]] = op[m][2]]
        /\ UNCHANGED enqueueRefs
    BY <1>3 DEF StoreRefField
  <2>2. /\ op[m][2] \in V \cup {Null}
        /\ op[m][1] \in References => op[m][2] = Null
        /\ op[m][1] \in Slots
    BY <2>1, OpElements
  <2>3. Queued' = Queued /\ \A r : PendingNext(r)' = PendingNext(r)
    BY <2>1 DEF Queued, PendingNext
  <2>4. \A x \in allocated : field'[x] = field[x] \/ (x = op[m][1] /\ field'[x] = op[m][2])
    BY <1>0, <2>1
  <2>5. \A o \in allocated : Children(o)' \subseteq Children(o) \cup V
    BY <2>2, <2>3, <2>4 DEF Children
  <2>6. \A r \in allocated \cap References : field'[r] \in {field[r], Null}
    BY <2>2, <2>4
  <2>7. ~ \E o \in Objects, v \in Objects \cup {Null} : NewObj(m, o, v)
    BY <2>1 DEF NewObj, Managed
  <2> QED
    BY <2>3, <2>5, <2>6, <2>7
<1>4. CASE EnqueueReference(m)
  <2>1. /\ UNCHANGED <<field, allocated>> /\ enqueueRefs # <<>>
        /\ enqueueRefs' = Tail(enqueueRefs)
    BY <1>4 DEF EnqueueReference
  <2>2. Queued' \subseteq Queued /\ \A r : PendingNext(r)' \subseteq PendingNext(r)
    BY <2>1, ChainTail
  <2>3. \A o \in Objects : Children(o)' \subseteq Children(o)
    BY <2>1, <2>2 DEF Children
  <2>4. ~ \E o \in Objects, v \in Objects \cup {Null} : NewObj(m, o, v)
    BY <2>1 DEF NewObj
  <2> QED
    BY <2>1, <2>2, <2>3, <2>4, <1>0
<1>5. CASE ~ \E o \in Objects, v \in Objects \cup {Null} : NewObj(m, o, v)
  BY <1>1, <1>3, <1>4, <1>5, HeapFrame
<1> HIDE DEF Goal
<1>6. CASE \E o \in Objects, v \in Objects \cup {Null} : NewObj(m, o, v)
  <2>1. Goal
    BY <1>2, <1>6
  <2> QED
    BY <2>1, <1>2 DEF Goal
<1> QED
  BY <1>5, <1>6

(* What a mutator gets hold of is covered.                                 *)
LEMMA CoverMutate ==
  ASSUME TypeOK, OpInv, WorldInv, MarkerInv, SatbInv, UsableInv, FoundInv,
         gcPc \in MarkPhase, NEW g \in [Objects -> SUBSET Objects],
         NEW V \in SUBSET Objects, NEW V1 \in SUBSET Objects, V \subseteq V1,
         \A c \in V : g[c] \subseteq V, Safe' \cup Gotten' \subseteq V1,
         CoverInv(V, g), NEW m \in Mutators, Mutate(m)
  PROVE  CoverInv(V1, g)'
<1>0. /\ stack \in [Mutators -> SUBSET Objects]
      /\ field \in [Slots -> Objects \cup {Null}]
      /\ Objects \subseteq Slots /\ Static \in Slots /\ Static \notin Objects
      /\ UNCHANGED <<scanning, snapshot, discoverRefs>>
      /\ allocated \subseteq Objects
  BY MarkerFrame, ConstantsAssumption DEF TypeOK, Slots, refVars
<1>1. /\ \A n \in Mutators : stack[n] \subseteq V /\ stack[n] \subseteq allocated
      /\ Queued \subseteq V /\ finalizables \subseteq V
      /\ field[Static] \in V \cup {Null}
  BY DEF CoverInv, UsableInv, Closed, Reach, Usable
<1>2. /\ Queued' \subseteq Queued
      /\ \A o \in allocated : Children(o)' \subseteq Children(o) \cup V
      /\ \A r \in allocated \cap References : field'[r] \in {field[r], Null}
      /\ \A o \in Objects, v \in Objects \cup {Null} : NewObj(m, o, v) =>
              /\ Children(o)' \subseteq V
              /\ o \in References => field'[o] \in V \cup {Null}
  BY <1>1, ChildrenMutate
<1>3. ASSUME NEW o \in Objects, NEW v \in Objects \cup {Null}, NewObj(m, o, v)
      PROVE  /\ o \in V1 /\ allocated' = allocated \cup {o}
             /\ markBitmap' = markBitmap \cup {o}
             /\ stack' = [stack EXCEPT ![m] = @ \cup {o}]
             /\ field'[Static] = field[Static] /\ UNCHANGED finalizables
  <2>1. concurrentMarkRunning
    BY MutatorMarks
  <2>2. /\ allocated' = allocated \cup {o}
        /\ markBitmap' = markBitmap \cup {o}
        /\ stack' = [stack EXCEPT ![m] = @ \cup {o}]
        /\ field' = [field EXCEPT ![o] = v] /\ UNCHANGED finalizables
    BY <1>3, <2>1 DEF NewObj
  <2>3. o \in Safe'
    BY <2>2 DEF Safe
  <2> QED
    BY <2>2, <2>3, <1>0
<1>4. \A n \in Mutators : stack'[n] \subseteq V1
  <2>0. \A n \in Mutators \ {m} : stack'[n] = stack[n]
    BY MutateFrame
  <2>1. stack'[m] \subseteq V1
    <3>1. ASSUME NEW x \in V1, stack' = [stack EXCEPT ![m] = @ \cup {x}]
          PROVE  stack'[m] \subseteq V1
      BY <3>1, <1>0, <1>1
    <3>2. CASE stack'[m] \subseteq stack[m]
      BY <3>2, <1>1
    <3>3. CASE \/ InitYieldpoint(m) \/ EnterSaferegion(m) \/ LeaveSaferegion(m)
               \/ ScanStackAndMark(m) \/ FiniYieldpoint(m) \/ DeleteMutator(m)
               \/ \E s \in Slots, v \in Objects \cup {Null} : GCWriteField(m, s, v)
               \/ WeakRefGetBarrier(m) \/ StoreRefField(m)
      <4>1. stack' = stack
        BY <3>3 DEF InitYieldpoint, EnterSaferegion, LeaveSaferegion,
           ScanStackAndMark, FiniYieldpoint, DeleteMutator, GCWriteField,
           WeakRefGetBarrier, StoreRefField
      <4> QED
        BY <4>1, <3>2
    <3>4. ASSUME NEW o \in Objects, ReturnFromFrame(m, o)
          PROVE  stack'[m] \subseteq V1
      <4>1. stack' = [stack EXCEPT ![m] = @ \ {o}]
        BY <3>4 DEF ReturnFromFrame
      <4>2. stack'[m] = stack[m] \ {o}
        BY <4>1, <1>0
      <4> QED
        BY <4>2, <3>2
    <3>5. ASSUME NEW o \in Objects, NEW v \in Objects \cup {Null}, NewObj(m, o, v)
          PROVE  stack'[m] \subseteq V1
      BY <3>5, <1>3, <3>1
    <3>6. ASSUME NEW o \in Objects, ProcessFinalizable(m, o)
          PROVE  stack'[m] \subseteq V1
      BY <3>6, <3>1, <1>1 DEF ProcessFinalizable
    <3>7. ASSUME NEW s \in Slots, LoadRefField(m, s)
          PROVE  stack'[m] \subseteq V1
      <4>1. /\ s \in (stack[m] \ References) \cup {Static} /\ field[s] # Null
            /\ stack' = [stack EXCEPT ![m] = @ \cup {field[s]}]
        BY <3>7 DEF LoadRefField
      <4>2. field[s] \in V1
        <5>1. CASE s = Static
          BY <5>1, <4>1, <1>1
        <5>2. CASE s # Static
          <6>1. s \in V /\ s \in allocated /\ s \notin References
            BY <4>1, <5>2, <1>1
          <6>2. field[s] \in Children(s)
            BY <4>1, <6>1 DEF Children
          <6>3. Children(s) \subseteq g[s] \cup V
            BY <6>1 DEF CoverInv
          <6> QED
            BY <6>1, <6>2, <6>3
        <5> QED
          BY <5>1, <5>2
      <4> QED
        BY <4>1, <4>2, <3>1
    <3>8. ASSUME NEW r \in References, ReferenceGetReferent(m, r)
          PROVE  stack'[m] \subseteq V1
      <4>1. /\ stack' = [stack EXCEPT ![m] = @ \cup {field[r]}]
            /\ op' = [op EXCEPT ![m] = <<field[r]>>]
            /\ pc' = [pc EXCEPT ![m] = "get"]
        BY <3>8 DEF ReferenceGetReferent, Goto
      <4>2. pc'[m] = "get" /\ op'[m] = <<field[r]>>
        BY <4>1 DEF TypeOK, OpInv
      <4>3. m \in Getting' /\ op'[m][1] = field[r]
        BY <4>2 DEF Getting
      <4>4. field[r] \in Gotten'
        BY <4>3 DEF Gotten
      <4> QED
        BY <4>1, <4>4, <3>1
    <3>9. CASE EnqueueReference(m)
      <4>1. /\ stack' = [stack EXCEPT ![m] = @ \cup {Head(enqueueRefs)}]
            /\ enqueueRefs # <<>> /\ enqueueRefs' = Tail(enqueueRefs)
        BY <3>9 DEF EnqueueReference
      <4>2. Head(enqueueRefs) \in Queued
        BY <4>1, ChainTail
      <4> QED
        BY <4>1, <4>2, <3>1, <1>1
    <3> QED
      BY <3>3, <3>4, <3>5, <3>6, <3>7, <3>8, <3>9 DEF Mutate
  <2> QED
    BY <2>0, <2>1, <1>1
<1>5. field'[Static] \in V1 \cup {Null} /\ finalizables' \subseteq V1
  <2>1. CASE UNCHANGED field /\ finalizables' \subseteq finalizables
    BY <2>1, <1>1
  <2>2. ASSUME NEW o \in Objects, NEW v \in Objects \cup {Null}, NewObj(m, o, v)
        PROVE  field'[Static] \in V1 \cup {Null} /\ finalizables' \subseteq V1
    BY <2>2, <1>1, <1>3
  <2>3. CASE StoreRefField(m)
    <3>1. /\ pc[m] = "store" /\ field' = [field EXCEPT ![op[m][1]] = op[m][2]]
          /\ UNCHANGED finalizables
      BY <2>3 DEF StoreRefField
    <3>2. op[m][2] \in V \cup {Null}
      BY <3>1, <1>1, OpElements
    <3> QED
      BY <3>1, <3>2, <1>0, <1>1
  <2>4. CASE EnqueueReference(m)
    BY <2>4, <1>1 DEF EnqueueReference
  <2> QED
    BY <2>1, <2>2, <2>3, <2>4, HeapFrame
<1>6. ASSUME NEW o \in allocated'
      PROVE  Children(o)' \subseteq g[o] \cup V1
  <2>1. CASE o \in allocated
    BY <2>1, <1>2 DEF CoverInv
  <2>2. CASE o \notin allocated
    <3>1. PICK n \in Objects, v \in Objects \cup {Null} : NewObj(m, n, v)
      BY <1>6, <2>2, MarkerFrame
    <3>2. o = n
      BY <3>1, <1>3, <1>6, <2>2
    <3> QED
      BY <3>1, <3>2, <1>2
  <2> QED
    BY <2>1, <2>2
<1>7. ASSUME NEW r \in (markBitmap' \ scanning') \cap References
      PROVE  field'[r] \in V1 \cup {Null} \/ r \in discoverRefs'
  <2>1. CASE \E v \in Objects \cup {Null} : NewObj(m, r, v)
    BY <2>1, <1>2, ConstantsAssumption
  <2>2. CASE ~ \E v \in Objects \cup {Null} : NewObj(m, r, v)
    <3>1. r \in markBitmap
      BY <1>3, <2>2, MarkerFrame
    <3>2. field'[r] \in {field[r], Null}
      <4>1. r \in allocated
        BY <3>1 DEF FoundInv, Safe, Usable
      <4> QED
        BY <4>1, <1>2
    <3>3. field[r] \in V \cup {Null} \/ r \in discoverRefs
      BY <3>1, <1>0, <1>7 DEF CoverInv
    <3> QED
      BY <3>2, <3>3, <1>0
  <2> QED
    BY <2>1, <2>2
<1>8. snapshot' \subseteq V1 /\ Queued' \subseteq V1
  BY <1>0, <1>1, <1>2 DEF CoverInv
<1> QED
  BY <1>4, <1>5, <1>6, <1>7, <1>8 DEF CoverInv

(* The marker has nothing that it may not use.                             *)
LEMMA FoundMutate ==
  ASSUME TypeOK, OpInv, WorldInv, MarkerInv, SatbInv, UsableInv, FoundInv,
         gcPc \in MarkPhase, NEW m \in Mutators, Mutate(m)
  PROVE  FoundInv'
<1>0. /\ UNCHANGED <<finalBitmap, discoverRefs, finalizerFindReferences, finalWork,
                     toSweep>>
      /\ Closed(Usable) /\ toSweep \subseteq allocated
      /\ satbNode \in [Mutators -> SUBSET Objects]
  BY MarkerFrame DEF refVars, UsableInv, TypeOK, gcVars
<1>1. PICK K : K = Usable
  OBVIOUS
<1>2. K \subseteq Usable' /\ markBitmap \subseteq markBitmap'
  BY <1>0, <1>1, MarkerFrame DEF Usable, NewObj
<1>3. /\ \A n \in Mutators : stack[n] \subseteq K
      /\ Queued \subseteq K /\ Safe \subseteq K
      /\ \A s \in K \cup {Static} : field[s] \in K \cup {Null}
  BY <1>0, <1>1 DEF Closed, Reach, FoundInv
<1>4. /\ markBitmap' \subseteq Usable' /\ work' \subseteq K
  <2>1. markBitmap \subseteq K /\ work \subseteq K
    BY <1>3 DEF Safe
  <2>2. ASSUME NEW o \in Objects, NEW v \in Objects \cup {Null}, NewObj(m, o, v)
        PROVE  o \in Usable' /\ markBitmap' \subseteq markBitmap \cup {o}
    BY <1>0, <2>2 DEF NewObj, Usable
  <2> QED
    BY <2>1, <2>2, <1>2, <1>3, MarkerFrame
<1>5. Safe' \subseteq Usable'
  <2>1. ASSUME NEW o \in K \cup {Null}, SatbWriteBarrier(m, o),
               UNCHANGED <<markBitmap, work>>
        PROVE  Safe' \subseteq Usable'
    <3>1. o \in Objects \cup {Null}
      BY <1>1 DEF Usable, TypeOK
    <3>2. Safe' \subseteq Safe \cup ({o} \ {Null})
      BY <2>1, <3>1, BarrierFacts
    <3> QED
      BY <3>2, <1>2, <1>3
  <2>2. CASE UNCHANGED satbVars
    <3>1. /\ retiredNodes \subseteq K
          /\ UNION {satbNode[n] : n \in Mutators} \subseteq K
      BY <1>3 DEF Safe
    <3> QED
      BY <2>2, <3>1, <1>2, <1>4 DEF Safe, satbVars
  <2>3. CASE DeleteMutator(m)
    <3>1. /\ retiredNodes' = retiredNodes \cup satbNode[m]
          /\ satbNode' = [satbNode EXCEPT ![m] = {}]
      BY <2>3 DEF DeleteMutator
    <3>2. retiredNodes' \subseteq K /\ \A n \in Mutators : satbNode'[n] \subseteq K
      BY <3>1, <1>0, <1>3 DEF Safe
    <3> QED
      BY <3>2, <1>2, <1>4 DEF Safe
  <2>4. ASSUME NEW s \in Slots, NEW v \in Objects \cup {Null}, GCWriteField(m, s, v)
        PROVE  Safe' \subseteq Usable'
    <3>1. s \in K \cup {Static}
      BY <2>4, <1>3 DEF GCWriteField
    <3>2. field[s] \in K \cup {Null}
      BY <3>1, <1>3
    <3>3. SatbWriteBarrier(m, field[s]) /\ UNCHANGED <<markBitmap, work>>
      BY <2>4 DEF GCWriteField, markVars
    <3> QED
      BY <3>2, <3>3, <2>1
  <2>5. CASE WeakRefGetBarrier(m)
    <3>1. op[m][1] \in K \cup {Null}
      BY <2>5, <1>3, OpElements DEF WeakRefGetBarrier
    <3>2. SatbWriteBarrier(m, op[m][1]) /\ UNCHANGED <<markBitmap, work>>
      BY <2>5 DEF WeakRefGetBarrier, markVars
    <3> QED
      BY <3>1, <3>2, <2>1
  <2>6. CASE EnqueueReference(m)
    <3>1. CASE Len(enqueueRefs) > 1
      <4>1. enqueueRefs[2] \in K \cup {Null}
        BY <2>6, <3>1, <1>3, ChainTail DEF EnqueueReference
      <4>2. SatbWriteBarrier(m, enqueueRefs[2]) /\ UNCHANGED <<markBitmap, work>>
        BY <2>6, <3>1 DEF EnqueueReference, markVars
      <4> QED
        BY <4>1, <4>2, <2>1
    <3>2. CASE ~ (Len(enqueueRefs) > 1)
      BY <2>6, <3>2, <2>2 DEF EnqueueReference
    <3> QED
      BY <3>1, <3>2
  <2>7. CASE \/ InitYieldpoint(m) \/ EnterSaferegion(m) \/ LeaveSaferegion(m)
             \/ ScanStackAndMark(m) \/ FiniYieldpoint(m) \/ StoreRefField(m)
             \/ \E o \in Objects, v \in Objects \cup {Null} : NewObj(m, o, v)
             \/ \E s \in Slots : LoadRefField(m, s)
             \/ \E o \in Objects : ReturnFromFrame(m, o) \/ ProcessFinalizable(m, o)
             \/ \E r \in References : ReferenceGetReferent(m, r)
    <3>1. UNCHANGED satbVars
      BY <2>7 DEF InitYieldpoint, EnterSaferegion, LeaveSaferegion,
         ScanStackAndMark, FiniYieldpoint, StoreRefField, NewObj, LoadRefField,
         ReturnFromFrame, ProcessFinalizable, ReferenceGetReferent
    <3> QED
      BY <3>1, <2>2
  <2> QED
    BY <2>3, <2>4, <2>5, <2>6, <2>7 DEF Mutate
<1> QED
  BY <1>0, <1>1, <1>2, <1>5 DEF FoundInv

LEMMA FinalMutate ==
  ASSUME TypeOK, OpInv, WorldInv, MarkerInv, SatbInv, UsableInv, FoundInv,
         gcPc \in MarkPhase, NEW g \in [Objects -> SUBSET Objects],
         NEW V \in SUBSET Objects, NEW V1 \in SUBSET Objects, V \subseteq V1,
         CoverInv(V, g), FinalInv(V), NEW m \in Mutators, Mutate(m)
  PROVE  FinalInv(V1)'
<1>0. /\ UNCHANGED <<finalBitmap, finalizerFindReferences, finalWork, gcPc>>
      /\ finalBitmap \subseteq allocated
  BY MarkerFrame DEF refVars, gcVars, FoundInv, Usable
<1>1. /\ \A o \in allocated : Children(o)' \subseteq Children(o) \cup V
      /\ \A r \in allocated \cap References : field'[r] \in {field[r], Null}
  BY ChildrenMutate DEF CoverInv
<1>2. /\ markBitmap \subseteq markBitmap'
      /\ resurrectable' \subseteq resurrectable \cup markBitmap'
  <2>1. concurrentMarkRunning
    BY MutatorMarks
  <2> QED
    BY <2>1, MarkerFrame DEF NewObj
<1>3. \A o \in finalBitmap' : Children(o)' \subseteq finalBitmap' \cup finalWork' \cup V1
  BY <1>0, <1>1 DEF FinalInv
<1>4. \A r \in finalBitmap' \cap References :
        field'[r] \in V1 \cup {Null} \/ r \in finalizerFindReferences'
  BY <1>0, <1>1 DEF FinalInv
<1>5. /\ gcPc' = "markFinal" =>
           resurrectable' \subseteq markBitmap' \cup finalBitmap' \cup finalWork'
      /\ gcPc' \in FinalMarked => resurrectable' \subseteq markBitmap' \cup finalBitmap'
  BY <1>0, <1>2 DEF FinalInv
<1> QED
  BY <1>3, <1>4, <1>5 DEF FinalInv

-----------------------------------------------------------------------------
(* Marking, the steps of the collector.                                    *)

LEMMA CollectHeapFrame ==
  ASSUME Collect, gcPc \in MarkPhase, ~ ResurrectionPhase
  PROVE  /\ UNCHANGED <<heapVars, mutVars, history, toSweep>>
         /\ gcPc' \in MarkPhase
BY DEF Collect, MarkObject, CopyChildRefs, ConcurrentMarkFinalizer,
   ConcurrentStackScan, ConcurrentMSPreSTW1, StopTheWorld, StartTheWorld,
   ConcurrentMarkPrepare, ConcurrentStaticRootsScan, ConcurrentMarkDrained,
   ConcurrentProcessDisovered, ConcurrentPrepareResurrection,
   ConcurrentMarkFinalizerDone, ConcurrentReMark, ConcurrentReMarkDrained,
   ConcurrentMarkCleanup, ConcurrentMarkCleanupDrained,
   PrepareConcurrentSweep, ConcurrentMSPostSTW2, ConcurrentAddFinalizerToRP,
   ConcurrentSweep, ResetBitmap, MarkPhase, gcVars

(* What the steps of the collector do during marking.                      *)
LEMMA CollectMarkFrame ==
  ASSUME TypeOK, Collect, gcPc \in MarkPhase
  PROVE  /\ markBitmap \subseteq markBitmap'
         /\ markBitmap' \ scanning' \subseteq (markBitmap \ scanning) \cup scanning
         /\ \A o \in (markBitmap' \ scanning') \ (markBitmap \ scanning) :
              CopyChildRefs(o) /\ o \in Objects
         /\ \A m \in toScan \ toScan' : ConcurrentStackScan(m)
         /\ \/ finalBitmap' = finalBitmap /\ UNCHANGED <<finalWork, finalizerFindReferences>>
            \/ ConcurrentPrepareResurrection
            \/ \E o \in Objects : ConcurrentMarkFinalizer(o)
         /\ \/ UNCHANGED discoverRefs \/ ConcurrentProcessDisovered
            \/ \E o \in Objects : CopyChildRefs(o)
            \/ ResurrectionPhase
         /\ gcPc \in {"start1", "stacks"} =>
              gcPc' \in {"start1", "stacks"} \/ ConcurrentStaticRootsScan
         /\ gcPc' = "markFinal" => gcPc = "markFinal" \/ ConcurrentPrepareResurrection
         /\ gcPc' \in FinalMarked => gcPc \in FinalMarked \/ ConcurrentMarkFinalizerDone
<1>1. CASE \E o \in Objects : MarkObject(o)
  BY <1>1 DEF MarkObject, refVars, gcVars, FinalMarked
<1>2. CASE \E o \in Objects : CopyChildRefs(o)
  BY <1>2 DEF CopyChildRefs, gcVars, FinalMarked
<1>3. CASE \/ \E o \in Objects : ConcurrentMarkFinalizer(o)
           \/ \E m \in Mutators : ConcurrentStackScan(m)
  BY <1>3 DEF ConcurrentMarkFinalizer, ConcurrentStackScan, refVars, gcVars,
     FinalMarked
<1>4. CASE StopTheWorld \/ StartTheWorld \/ ConcurrentStaticRootsScan \/ ConcurrentMarkDrained
  BY <1>4 DEF StopTheWorld, StartTheWorld, ConcurrentStaticRootsScan,
     ConcurrentMarkDrained, markVars, refVars, FinalMarked
<1>5. CASE ConcurrentProcessDisovered \/ ConcurrentPrepareResurrection \/ ConcurrentMarkFinalizerDone
  BY <1>5 DEF ConcurrentProcessDisovered, ConcurrentPrepareResurrection,
     ConcurrentMarkFinalizerDone, markVars, refVars, FinalMarked
<1>6. CASE ConcurrentReMark \/ ConcurrentReMarkDrained \/ ConcurrentMarkCleanup
             \/ ConcurrentMarkCleanupDrained
  BY <1>6 DEF ConcurrentReMark, ConcurrentReMarkDrained, ConcurrentMarkCleanup,
     ConcurrentMarkCleanupDrained, markVars, refVars, FinalMarked
<1>7. CASE ResurrectionPhase
  <2>1. /\ UNCHANGED <<markBitmap, scanning, toScan, finalBitmap, finalWork,
                       finalizerFindReferences>>
        /\ gcPc = "resurrect" /\ gcPc' = "sweepPrepare"
    BY <1>7 DEF ResurrectionPhase
  <2> QED
    BY <1>7, <2>1 DEF FinalMarked
<1>8. CASE \/ ConcurrentMSPreSTW1 \/ ConcurrentMarkPrepare
           \/ PrepareConcurrentSweep \/ ConcurrentMSPostSTW2
           \/ ConcurrentAddFinalizerToRP \/ ConcurrentSweep \/ ResetBitmap
  BY <1>8 DEF ConcurrentMSPreSTW1, ConcurrentMarkPrepare, PrepareConcurrentSweep,
     ConcurrentMSPostSTW2, ConcurrentAddFinalizerToRP, ConcurrentSweep,
     ResetBitmap, MarkPhase
<1> QED
  BY <1>1, <1>2, <1>3, <1>4, <1>5, <1>6, <1>7, <1>8 DEF Collect

LEMMA GenCollect ==
  ASSUME TypeOK, OpInv, WorldInv, MarkerInv, SatbInv, gcPc \in MarkPhase,
         NEW s0, Collect
  PROVE  Gen(s0) \subseteq Gen(s0)'
<1>1. Safe \subseteq Safe' /\ UNCHANGED <<pc, op, stack>>
  BY SafeCollect, CollectFrame DEF mutVars
<1>2. Gotten' = Gotten
  BY <1>1 DEF Gotten, Getting
<1>3. Waiting \subseteq Waiting' \cup Safe'
  <2>1. ASSUME NEW n \in Unscanned
        PROVE  stack[n] \subseteq Waiting' \cup Safe'
    <3>1. CASE n \in Unscanned'
      BY <1>1, <3>1 DEF Waiting
    <3>2. CASE n \notin Unscanned'
      <4>1. ConcurrentStackScan(n)
        BY <3>2, <1>1, CollectMarkFrame DEF Unscanned
      <4> QED
        BY <4>1 DEF ConcurrentStackScan, Safe
    <3> QED
      BY <3>1, <3>2
  <2> QED
    BY <2>1 DEF Waiting
<1> QED
  BY <1>1, <1>2, <1>3 DEF Gen

LEMMA FoundCollect ==
  ASSUME TypeOK, OpInv, WorldInv, MarkerInv, SatbInv, UsableInv, FoundInv,
         gcPc \in MarkPhase, Collect, ~ ResurrectionPhase
  PROVE  FoundInv'
<1>1. PICK K : K = Usable
  OBVIOUS
<1>2. Usable' = K
  BY <1>1, CollectHeapFrame DEF Usable, heapVars, history
<1>3. /\ K \subseteq Objects
      /\ \A n \in Mutators : stack[n] \subseteq K
      /\ finalizables \subseteq K /\ resurrectable \subseteq K /\ Queued \subseteq K
      /\ \A s \in K \cup {Static} : field[s] \in K \cup {Null}
      /\ Safe \subseteq K /\ finalBitmap \subseteq K /\ finalWork \subseteq K
      /\ discoverRefs \subseteq markBitmap
      /\ finalizerFindReferences \subseteq finalBitmap
  BY <1>1 DEF UsableInv, Closed, Reach, FoundInv, Usable, TypeOK
<1>4. \A o \in K : Children(o) \subseteq K
  BY <1>3, ChildrenFacts
<1>5. /\ markBitmap \subseteq K /\ work \subseteq K /\ retiredNodes \subseteq K
      /\ \A n \in Mutators : satbNode[n] \subseteq K
  BY <1>3 DEF Safe
<1>6. /\ markBitmap' \subseteq K /\ work' \subseteq K /\ retiredNodes' \subseteq K
      /\ \A n \in Mutators : satbNode'[n] \subseteq K
  <2>1. CASE \E o \in Objects : MarkObject(o)
    BY <2>1, <1>5 DEF MarkObject, satbVars
  <2>2. ASSUME NEW o \in Objects, CopyChildRefs(o)
        PROVE  /\ markBitmap' \subseteq K /\ work' \subseteq K /\ retiredNodes' \subseteq K
               /\ \A n \in Mutators : satbNode'[n] \subseteq K
    <3>1. o \in K
      BY <2>2, <1>5 DEF CopyChildRefs, MarkerInv
    <3> QED
      BY <3>1, <2>2, <1>4, <1>5 DEF CopyChildRefs, satbVars
  <2>3. CASE \E o \in Objects : ConcurrentMarkFinalizer(o)
    BY <2>3, <1>5 DEF ConcurrentMarkFinalizer, satbVars
  <2>4. CASE \E m \in Mutators : ConcurrentStackScan(m)
    BY <2>4, <1>3, <1>5 DEF ConcurrentStackScan, satbVars
  <2>5. CASE ConcurrentStaticRootsScan
    BY <2>5, <1>3, <1>5 DEF ConcurrentStaticRootsScan, satbVars
  <2>6. CASE ConcurrentReMark
    BY <2>6, <1>5 DEF ConcurrentReMark
  <2>7. CASE ConcurrentMarkCleanup
    <3>1. /\ work' = work \cup retiredNodes \cup UNION {satbNode[m] : m \in attached}
          /\ retiredNodes' = {} /\ UNCHANGED markBitmap
          /\ satbNode' = [m \in Mutators |-> IF m \in attached THEN {} ELSE satbNode[m]]
      BY <2>7 DEF ConcurrentMarkCleanup
    <3>2. attached \subseteq Mutators
      BY DEF TypeOK
    <3> QED
      BY <3>1, <3>2, <1>5
  <2>8. CASE \/ StopTheWorld \/ StartTheWorld
             \/ ConcurrentMarkDrained \/ ConcurrentProcessDisovered
             \/ ConcurrentPrepareResurrection \/ ConcurrentMarkFinalizerDone
             \/ ConcurrentReMarkDrained \/ ConcurrentMarkCleanupDrained
    <3>1. UNCHANGED <<markBitmap, work, satbVars>>
      BY <2>8 DEF StopTheWorld, StartTheWorld, ConcurrentMarkDrained,
         ConcurrentProcessDisovered, ConcurrentPrepareResurrection,
         ConcurrentMarkFinalizerDone, ConcurrentReMarkDrained,
         ConcurrentMarkCleanupDrained, markVars
    <3> QED
      BY <3>1, <1>5 DEF satbVars
  <2>9. CASE \/ ConcurrentMSPreSTW1 \/ ConcurrentMarkPrepare
             \/ PrepareConcurrentSweep \/ ConcurrentMSPostSTW2
             \/ ConcurrentAddFinalizerToRP \/ ConcurrentSweep \/ ResetBitmap
    BY <2>9 DEF ConcurrentMSPreSTW1, ConcurrentMarkPrepare, PrepareConcurrentSweep,
       ConcurrentMSPostSTW2, ConcurrentAddFinalizerToRP, ConcurrentSweep,
       ResetBitmap, MarkPhase
  <2> QED
    BY <2>1, <2>2, <2>3, <2>4, <2>5, <2>6, <2>7, <2>8, <2>9 DEF Collect
<1>7. Safe' \subseteq K
  BY <1>6 DEF Safe
<1>8. /\ finalBitmap' \subseteq K /\ finalWork' \subseteq K
      /\ finalizerFindReferences' \subseteq finalBitmap'
  <2>1. CASE finalBitmap' = finalBitmap /\ UNCHANGED <<finalWork, finalizerFindReferences>>
    BY <2>1, <1>3
  <2>2. CASE ConcurrentPrepareResurrection
    BY <2>2, <1>3 DEF ConcurrentPrepareResurrection, markVars
  <2>3. ASSUME NEW o \in Objects, ConcurrentMarkFinalizer(o)
        PROVE  /\ finalBitmap' \subseteq K /\ finalWork' \subseteq K
               /\ finalizerFindReferences' \subseteq finalBitmap'
    <3>1. o \in K /\ Children(o) \subseteq K
      BY <2>3, <1>3, <1>4 DEF ConcurrentMarkFinalizer
    <3> QED
      BY <3>1, <2>3, <1>3 DEF ConcurrentMarkFinalizer
  <2> QED
    BY <2>1, <2>2, <2>3, CollectMarkFrame
<1>9. discoverRefs' \subseteq markBitmap'
  <2>1. markBitmap \subseteq markBitmap'
    BY CollectMarkFrame
  <2>2. CASE UNCHANGED discoverRefs \/ ConcurrentProcessDisovered
    BY <2>1, <2>2, <1>3 DEF ConcurrentProcessDisovered
  <2>3. CASE \E o \in Objects : CopyChildRefs(o)
    BY <2>1, <2>3, <1>3 DEF CopyChildRefs, MarkerInv
  <2> QED
    BY <2>2, <2>3, CollectMarkFrame
<1> QED
  BY <1>2, <1>7, <1>8, <1>9 DEF FoundInv

LEMMA EdgeCollect ==
  ASSUME TypeOK, OpInv, WorldInv, MarkerInv, SatbInv, gcPc \in MarkPhase,
         NEW g \in [Objects -> SUBSET Objects], NEW s0 \in Objects \cup {Null},
         EdgeInv(g, s0), Collect, ~ ResurrectionPhase
  PROVE  EdgeInv(g, s0)'
<1>0. Safe \subseteq Safe' /\ UNCHANGED <<allocated, field, enqueueRefs, pc, op>>
  BY SafeCollect, CollectHeapFrame DEF heapVars, mutVars
<1>1. \A o \in Objects : Children(o)' = Children(o)
  BY <1>0 DEF Children, PendingNext
<1>2. \/ s0 \in Safe' \cup {Null}
      \/ /\ s0 = field'[Static] /\ gcPc' \in {"start1", "stacks"}
         /\ \A m \in Mutators : pc'[m] = "store" => op'[m][1] # Static
  <2>1. CASE s0 \in Safe \cup {Null}
    BY <2>1, <1>0
  <2>2. CASE s0 \notin Safe \cup {Null}
    <3>1. /\ s0 = field[Static] /\ gcPc \in {"start1", "stacks"}
          /\ \A m \in Mutators : pc[m] = "store" => op[m][1] # Static
      BY <2>2 DEF EdgeInv
    <3>2. CASE ConcurrentStaticRootsScan
      <4>1. work' = work \cup ({s0} \ (markBitmap \cup {Null}))
        BY <3>1, <3>2 DEF ConcurrentStaticRootsScan
      <4>2. s0 \notin markBitmap
        BY <2>2 DEF Safe
      <4>3. s0 \in work'
        BY <2>2, <4>1, <4>2
      <4> QED
        BY <4>3 DEF Safe
    <3>3. CASE gcPc' \in {"start1", "stacks"}
      BY <3>1, <3>3, <1>0
    <3> QED
      BY <3>1, <3>2, <3>3, CollectMarkFrame
  <2> QED
    BY <2>1, <2>2
<1>3. ASSUME NEW o \in markBitmap' \ scanning'
      PROVE  g[o] \subseteq Safe'
  <2>1. CASE o \in markBitmap \ scanning
    BY <2>1, <1>0 DEF EdgeInv
  <2>2. CASE o \notin markBitmap \ scanning
    <3>1. CopyChildRefs(o) /\ o \in Objects
      BY <1>3, <2>2, CollectMarkFrame
    <3>2. Children(o) \subseteq Safe'
      BY <3>1 DEF CopyChildRefs, Safe
    <3>3. g[o] \subseteq Safe \cup Children(o)
      BY <3>1 DEF EdgeInv
    <3> QED
      BY <3>2, <3>3, <1>0
  <2> QED
    BY <2>1, <2>2
<1>4. \A o \in Objects : \A c \in g[o] : c \in Safe' \cup Children(o)'
  BY <1>0, <1>1 DEF EdgeInv
<1>5. \A m \in Mutators :
        pc'[m] = "store" /\ op'[m][1] \in Objects \ References =>
          g[op'[m][1]] \subseteq Safe'
  BY <1>0 DEF EdgeInv
<1>6. \A o \in Objects \ allocated' : g[o] = {}
  BY <1>0 DEF EdgeInv
<1> QED
  BY <1>2, <1>3, <1>4, <1>5, <1>6 DEF EdgeInv

(* A Reference is discovered, or its referent is marked.                   *)
LEMMA NotDiscoverable ==
  ASSUME TypeOK, MarkerInv, gcPc \in MarkPhase, NEW r \in References, ~ Discoverable(r)
  PROVE  field[r] \in markBitmap \cup {Null}
<1>1. ~ useFinalBitmap
  BY DEF MarkerInv, MarkPhase, SweepPhase
<1> QED
  BY <1>1 DEF Discoverable, IsGarbage

LEMMA CoverCollect ==
  ASSUME TypeOK, OpInv, WorldInv, MarkerInv, SatbInv, gcPc \in MarkPhase,
         NEW g \in [Objects -> SUBSET Objects],
         NEW V \in SUBSET Objects, NEW V1 \in SUBSET Objects, V \subseteq V1,
         Safe \subseteq V, CoverInv(V, g), Collect, ~ ResurrectionPhase
  PROVE  CoverInv(V1, g)'
<1>0. /\ UNCHANGED <<allocated, field, enqueueRefs, finalizables, stack, snapshot>>
      /\ markBitmap \subseteq V
  BY CollectHeapFrame DEF heapVars, mutVars, history, Safe
<1>1. /\ \A o \in Objects : Children(o)' = Children(o)
      /\ Queued' = Queued /\ allocated \subseteq Objects
  BY <1>0 DEF Children, PendingNext, Queued, TypeOK
<1>2. ASSUME NEW r \in (markBitmap' \ scanning') \cap References
      PROVE  field'[r] \in V1 \cup {Null} \/ r \in discoverRefs'
  <2>1. field[r] \in V \cup {Null} \/ r \in discoverRefs \/ CopyChildRefs(r)
    BY <1>2, CollectMarkFrame DEF CoverInv
  <2>2. CASE field[r] \in V \cup {Null}
    BY <2>2, <1>0
  <2>3. CASE r \in discoverRefs'
    BY <2>3
  <2>4. CASE ~ Discoverable(r)
    BY <2>4, <1>0, NotDiscoverable
  <2>5. CASE Discoverable(r) /\ CopyChildRefs(r)
    BY <2>5 DEF CopyChildRefs
  <2>6. CASE Discoverable(r) /\ r \in discoverRefs
    <3>1. r \in discoverRefs'
      BY <2>6, CollectMarkFrame DEF ConcurrentProcessDisovered, CopyChildRefs
    <3> QED
      BY <3>1
  <2> QED
    BY <2>1, <2>2, <2>4, <2>5, <2>6
<1> QED
  BY <1>0, <1>1, <1>2 DEF CoverInv

LEMMA FinalCollect ==
  ASSUME TypeOK, OpInv, WorldInv, MarkerInv, SatbInv, gcPc \in MarkPhase,
         NEW V \in SUBSET Objects, NEW V1 \in SUBSET Objects, V \subseteq V1,
         Safe \subseteq V, FinalInv(V), Collect, ~ ResurrectionPhase
  PROVE  FinalInv(V1)'
<1>0. /\ UNCHANGED <<field, enqueueRefs, resurrectable>>
      /\ markBitmap \subseteq V /\ markBitmap \subseteq markBitmap'
      /\ finalBitmap \subseteq Objects
  BY CollectHeapFrame, CollectMarkFrame DEF heapVars, Safe, TypeOK
<1>1. \A o \in Objects : Children(o)' = Children(o)
  BY <1>0 DEF Children, PendingNext
<1>2. CASE ConcurrentPrepareResurrection
  <2>1. /\ gcPc = "candidates" /\ gcPc' = "markFinal" /\ finalBitmap' = finalBitmap
        /\ finalWork' = resurrectable \ markBitmap /\ UNCHANGED markBitmap
    BY <1>2 DEF ConcurrentPrepareResurrection, markVars
  <2>2. finalBitmap = {}
    BY <2>1 DEF MarkerInv, FinalMarked, SweepPhase
  <2> QED
    BY <1>0, <2>1, <2>2 DEF FinalInv, FinalMarked
<1>3. ASSUME NEW o \in Objects, ConcurrentMarkFinalizer(o)
      PROVE  FinalInv(V1)'
  <2>1. /\ gcPc = "markFinal" /\ gcPc' = "markFinal" /\ o \in finalWork
        /\ UNCHANGED markBitmap
    BY <1>3 DEF ConcurrentMarkFinalizer, gcVars
  <2>2. CASE o \in markBitmap \cup finalBitmap
    <3>1. /\ finalWork' = finalWork \ {o} /\ UNCHANGED <<finalBitmap, finalizerFindReferences>>
      BY <1>3, <2>2 DEF ConcurrentMarkFinalizer
    <3>2. \A x \in finalBitmap' : Children(x)' \subseteq finalBitmap' \cup finalWork' \cup V1
      BY <3>1, <2>2, <1>0, <1>1 DEF FinalInv
    <3> QED
      BY <1>0, <2>1, <2>2, <3>1, <3>2 DEF FinalInv, FinalMarked
  <2>3. CASE o \notin markBitmap \cup finalBitmap
    <3>1. /\ finalWork' = (finalWork \ {o}) \cup Children(o)
          /\ finalBitmap' = finalBitmap \cup {o}
          /\ finalizerFindReferences' =
              IF Discoverable(o) THEN finalizerFindReferences \cup {o}
                                 ELSE finalizerFindReferences
      BY <1>3, <2>3 DEF ConcurrentMarkFinalizer
    <3>2. \A x \in finalBitmap' : Children(x)' \subseteq finalBitmap' \cup finalWork' \cup V1
      BY <3>1, <1>0, <1>1 DEF FinalInv
    <3>3. \A r \in finalBitmap' \cap References :
            field'[r] \in V1 \cup {Null} \/ r \in finalizerFindReferences'
      <4>1. o \in References /\ ~ Discoverable(o) => field[o] \in V \cup {Null}
        BY <1>0, NotDiscoverable
      <4> QED
        BY <4>1, <3>1, <1>0 DEF FinalInv
    <3> QED
      BY <1>0, <2>1, <3>1, <3>2, <3>3 DEF FinalInv, FinalMarked
  <2> QED
    BY <2>2, <2>3
<1>4. CASE finalBitmap' = finalBitmap /\ UNCHANGED <<finalWork, finalizerFindReferences>>
             /\ ~ ConcurrentPrepareResurrection
  <2>1. gcPc' = "markFinal" =>
          resurrectable' \subseteq markBitmap' \cup finalBitmap' \cup finalWork'
    BY <1>0, <1>4, CollectMarkFrame DEF FinalInv
  <2>2. gcPc' \in FinalMarked => resurrectable' \subseteq markBitmap' \cup finalBitmap'
    <3>1. CASE gcPc \in FinalMarked
      BY <3>1, <1>0, <1>4 DEF FinalInv
    <3>2. CASE ConcurrentMarkFinalizerDone
      BY <3>2, <1>0, <1>4 DEF FinalInv, ConcurrentMarkFinalizerDone, markVars
    <3> QED
      BY <3>1, <3>2, CollectMarkFrame
  <2>3. \A x \in finalBitmap' : Children(x)' \subseteq finalBitmap' \cup finalWork' \cup V1
    BY <1>0, <1>1, <1>4 DEF FinalInv
  <2>4. \A r \in finalBitmap' \cap References :
            field'[r] \in V1 \cup {Null} \/ r \in finalizerFindReferences'
    BY <1>0, <1>4 DEF FinalInv
  <2> QED
    BY <2>1, <2>2, <2>3, <2>4 DEF FinalInv
<1> QED
  BY <1>2, <1>3, <1>4, CollectMarkFrame

(* The first stop-the-world: the graph is that of the heap.                *)
LEMMA MarkEstablished ==
  ASSUME TypeOK, OpInv, WorldInv, MarkerInv, SatbInv, UsableInv, TypeOK', OpInv',
         UsableInv', ConcurrentMarkPrepare
  PROVE  MarkInv'
<1>0. /\ gcPc = "prepare" /\ gcPc' = "start1"
      /\ work' = QueueRoots /\ toScan' = attached /\ snapshot' = Live
      /\ UNCHANGED <<heapVars, markBitmap, finalBitmap, scanning, refVars,
                     satbVars, mutVars>>
  BY DEF ConcurrentMarkPrepare
<1>1. /\ markBitmap = {} /\ scanning = {} /\ finalBitmap = {} /\ finalWork = {}
      /\ discoverRefs = {} /\ finalizerFindReferences = {}
      /\ retiredNodes = {} /\ \A m \in Mutators : satbNode[m] = {}
      /\ running = {} /\ dead \cap allocated = {} /\ toSweep = {}
  BY <1>0 DEF MarkerInv, SatbInv, UsableInv, WorldInv, FinalMarked, SweepPhase,
     MarkPhase, MarkRunning, Active, StoppedPcs
<1>2. Safe' = QueueRoots
  BY <1>0, <1>1 DEF Safe, satbVars
<1>3. \A m \in Mutators : pc[m] \in {"absent", "native"}
  BY <1>0, <1>1 DEF WorldInv, TypeOK, StoppedPcs
<1>4. \A m \in Mutators : stack[m] \subseteq Waiting'
  <2>1. ASSUME NEW m \in Mutators
        PROVE  stack[m] \subseteq Waiting'
    <3>1. CASE m \in attached
      BY <3>1, <1>0 DEF Waiting, Unscanned, mutVars
    <3>2. CASE m \notin attached
      BY <3>2 DEF WorldInv
    <3> QED
      BY <3>1, <3>2
  <2> QED
    BY <2>1
<1>5. PICK g \in [Objects -> SUBSET Objects] :
        \A o \in Objects : g[o] = IF o \in allocated THEN Children(o) ELSE {}
  <2> DEFINE h == [o \in Objects |-> IF o \in allocated THEN Children(o) ELSE {}]
  <2>1. h \in [Objects -> SUBSET Objects]
    BY ChildrenFacts
  <2>2. \A o \in Objects : h[o] = IF o \in allocated THEN Children(o) ELSE {}
    OBVIOUS
  <2> HIDE DEF h
  <2> QED
    BY <2>1, <2>2
<1>6. PICK s0 \in Objects \cup {Null} : s0 = field[Static]
  BY DEF TypeOK, Slots
<1>7. \A o \in Objects : Children(o)' = Children(o)
  BY <1>0 DEF Children, PendingNext, heapVars
<1>8. EdgeInv(g, s0)'
  <2>1. \A o \in Objects \ allocated' : g[o] = {}
    BY <1>0, <1>5 DEF heapVars
  <2>2. /\ s0 = field'[Static] /\ gcPc' \in {"start1", "stacks"}
        /\ \A m \in Mutators : pc'[m] = "store" => op'[m][1] # Static
    BY <1>0, <1>3, <1>6 DEF heapVars, mutVars
  <2>3. \A o \in Objects : \A c \in g[o] : c \in Safe' \cup Children(o)'
    BY <1>5, <1>7
  <2>4. markBitmap' = {}
    BY <1>0, <1>1
  <2>5. \A m \in Mutators : pc'[m] # "store"
    BY <1>0, <1>3 DEF mutVars
  <2> QED
    BY <2>1, <2>2, <2>3, <2>4, <2>5 DEF EdgeInv
<1>9. PICK V, V1 \in SUBSET Objects :
        /\ V = Gen(s0)' /\ V1 = Cov(Gen(s0), g)'
        /\ V \subseteq V1 /\ \A c \in V1 : g[c] \subseteq V1
  <2>1. (TypeOK /\ OpInv => GenTyped)'
    BY GenType, PTL
  <2>2. (Gen(s0) \subseteq Objects)'
    BY <2>1 DEF GenTyped
  <2>3. PICK S \in SUBSET Objects : S = Gen(s0)'
    BY <2>2
  <2>4. /\ S \subseteq Cov(S, g) /\ Cov(S, g) \subseteq Objects
        /\ \A c \in Cov(S, g) : g[c] \subseteq Cov(S, g)
    BY <2>3, CovBasic
  <2>5. Cov(S, g) = Cov(Gen(s0), g)'
    BY <2>3
  <2> QED
    BY <2>3, <2>4, <2>5
<1>10. /\ \A m \in Mutators : stack[m] \subseteq V1
       /\ QueueRoots \subseteq V1 /\ finalizables \subseteq V1
       /\ field[Static] \in V1 \cup {Null}
  BY <1>2, <1>4, <1>6, <1>9 DEF Gen, QueueRoots
<1>11. /\ \A m \in Mutators : stack[m] \subseteq allocated
       /\ QueueRoots \subseteq allocated
       /\ field[Static] \in allocated \cup {Null}
       /\ Queued \subseteq allocated
       /\ \A o \in allocated : field[o] \in allocated \cup {Null}
  <2>1. Usable = allocated
    BY <1>1 DEF Usable
  <2> QED
    BY <2>1, QueueFacts DEF UsableInv, Closed, Reach
<1>12. \A o \in V1 \cap allocated : Children(o) \subseteq V1 \cap allocated
  <2>1. ASSUME NEW o \in V1 \cap allocated
        PROVE  Children(o) \subseteq V1 \cap allocated
    <3>1. Children(o) = g[o]
      BY <1>5
    <3>2. Children(o) \subseteq allocated
      BY <1>11, ChildrenFacts
    <3> QED
      BY <3>1, <3>2, <1>9
  <2> QED
    BY <2>1
<1>13. snapshot' \subseteq V1
  <2>1. Roots \subseteq V1 \cap allocated
    BY <1>10, <1>11 DEF Roots
  <2>2. Live \subseteq V1 \cap allocated
    BY <2>1, <1>12, LiveLeast
  <2> QED
    BY <2>2, <1>0
<1>14. Queued \subseteq V1
  <2>1. QueueRoots \subseteq V1 \cap allocated
    BY <1>10, <1>11
  <2>2. \A r \in (V1 \cap allocated) \cap References : PendingNext(r) \subseteq V1 \cap allocated
    BY <1>12 DEF Children
  <2>3. Queued \subseteq V1 \cap allocated
    BY <2>1, <2>2, ChainReached
  <2> QED
    BY <2>3
<1>15. CoverInv(V1, g)'
  <2>1. /\ \A m \in Mutators : stack'[m] \subseteq V1
        /\ field'[Static] \in V1 \cup {Null} /\ finalizables' \subseteq V1
        /\ Queued' \subseteq V1
    BY <1>0, <1>10, <1>14 DEF heapVars, mutVars, Queued
  <2>2. \A o \in allocated' : Children(o)' \subseteq g[o] \cup V1
    BY <1>0, <1>5, <1>7 DEF heapVars, TypeOK
  <2>3. markBitmap' = {}
    BY <1>0, <1>1
  <2> QED
    BY <1>13, <2>1, <2>2, <2>3 DEF CoverInv
<1>16. FinalInv(V1)'
  BY <1>0, <1>1 DEF FinalInv, FinalMarked
<1>17. FoundInv'
  <2>1. QueueRoots \subseteq finalizables' \cup Queued'
    BY <1>0, QueueFacts DEF Queued, heapVars
  <2>2. QueueRoots \subseteq Usable'
    BY <2>1 DEF UsableInv, Closed, Reach
  <2> QED
    BY <1>0, <1>1, <1>2, <2>2 DEF FoundInv, refVars
<1> QED
  BY <1>8, <1>9, <1>15, <1>16, <1>17 DEF MarkInv, CoverInv, FinalInv

LEMMA MarkStep ==
  ASSUME TypeOK, OpInv, WorldInv, MarkerInv, SatbInv, UsableInv, MarkInv,
         TypeOK', OpInv', UsableInv', [Next]_vars
  PROVE  MarkInv'
<1>1. CASE UNCHANGED vars
  <2>0. UNCHANGED <<worldVars, heapVars, markVars, refVars, satbVars, mutVars,
                    gcVars, history>>
    BY <1>1 DEF vars
  <2>1. CASE gcPc \notin MarkPhase
    BY <2>0, <2>1 DEF MarkInv, gcVars
  <2>2. CASE gcPc \in MarkPhase
    <3>1. PICK g \in [Objects -> SUBSET Objects], s0 \in Objects \cup {Null} :
            /\ EdgeInv(g, s0)
            /\ CoverInv(Cov(Gen(s0), g), g)
            /\ FinalInv(Cov(Gen(s0), g))
      BY <2>2 DEF MarkInv
    <3>2. Safe' = Safe /\ Usable' = Usable /\ Queued' = Queued
      BY <2>0 DEF Safe, Usable, Queued, markVars, satbVars, heapVars, gcVars, history
    <3>3. \A o : Children(o)' = Children(o)
      BY <2>0 DEF Children, PendingNext, heapVars
    <3>4. Waiting' = Waiting /\ Gotten' = Gotten
      BY <2>0 DEF Waiting, Gotten, Unscanned, Getting, markVars, mutVars
    <3>5. Gen(s0)' = Gen(s0)
      BY <3>2, <3>4 DEF Gen
    <3>6. PICK V : V = Cov(Gen(s0), g) /\ V = Cov(Gen(s0), g)'
      BY <3>5
    <3>7. EdgeInv(g, s0)'
      BY <2>0, <3>1, <3>2, <3>3 DEF EdgeInv, heapVars, markVars, mutVars, gcVars
    <3>8. CoverInv(V, g)' /\ FinalInv(V)'
      BY <2>0, <3>1, <3>2, <3>3, <3>6 DEF CoverInv, FinalInv, heapVars, markVars,
         refVars, mutVars, gcVars, history
    <3>9. FoundInv'
      BY <2>0, <2>2, <3>2 DEF MarkInv, FoundInv, markVars, refVars
    <3> QED
      BY <3>6, <3>7, <3>8, <3>9 DEF MarkInv, CoverInv, FinalInv
  <2> QED
    BY <2>1, <2>2
<1>2. ASSUME gcPc \in MarkPhase, NEW m \in Mutators, Mutate(m)
      PROVE  MarkInv'
  <2>1. PICK g \in [Objects -> SUBSET Objects], s0 \in Objects \cup {Null} :
          /\ EdgeInv(g, s0)
          /\ CoverInv(Cov(Gen(s0), g), g)
          /\ FinalInv(Cov(Gen(s0), g))
    BY <1>2 DEF MarkInv
  <2>2. Gen(s0) \subseteq Gen(s0)'
    BY <1>2, GenMutate
  <2>3. PICK V, V1 \in SUBSET Objects :
           /\ V = Cov(Gen(s0), g) /\ V1 = Cov(Gen(s0), g)'
           /\ V \subseteq V1 /\ Gen(s0) \subseteq V /\ Gen(s0)' \subseteq V1
           /\ \A c \in V : g[c] \subseteq V
    BY <2>2, CovStep
  <2>4. CoverInv(V, g) /\ FinalInv(V) /\ FoundInv
    BY <1>2, <2>1, <2>3 DEF MarkInv
  <2>5. Safe' \cup Gotten' \subseteq V1
    BY <2>3 DEF Gen
  <2>6. EdgeInv(g, s0)' /\ FoundInv'
    BY <1>2, <2>1, <2>4, EdgeMutate, FoundMutate
  <2>7. CoverInv(V1, g)'
    BY <1>2, <2>3, <2>4, <2>5, CoverMutate
  <2>8. FinalInv(V1)'
    BY <1>2, <2>3, <2>4, FinalMutate
  <2>9. CoverInv(Cov(Gen(s0), g), g)' /\ FinalInv(Cov(Gen(s0), g))'
    BY <2>3, <2>7, <2>8 DEF CoverInv, FinalInv
  <2> QED
    BY <2>6, <2>9 DEF MarkInv
<1>3. ASSUME gcPc \notin MarkPhase, NEW m \in Mutators, Mutate(m)
      PROVE  MarkInv'
  BY <1>3, MutateFrame DEF MarkInv, gcVars
<1>4. CASE gcPc \in MarkPhase /\ Collect /\ ~ ResurrectionPhase
  <2>1. PICK g \in [Objects -> SUBSET Objects], s0 \in Objects \cup {Null} :
          /\ EdgeInv(g, s0)
          /\ CoverInv(Cov(Gen(s0), g), g)
          /\ FinalInv(Cov(Gen(s0), g))
    BY <1>4 DEF MarkInv
  <2>2. Gen(s0) \subseteq Gen(s0)'
    BY <1>4, GenCollect
  <2>3. PICK V, V1 \in SUBSET Objects :
           /\ V = Cov(Gen(s0), g) /\ V1 = Cov(Gen(s0), g)'
           /\ V \subseteq V1 /\ Gen(s0) \subseteq V /\ Gen(s0)' \subseteq V1
           /\ \A c \in V : g[c] \subseteq V
    BY <2>2, CovStep
  <2>4. CoverInv(V, g) /\ FinalInv(V) /\ FoundInv
    BY <1>4, <2>1, <2>3 DEF MarkInv
  <2>5. Safe \subseteq V
    BY <2>3 DEF Gen
  <2>6. EdgeInv(g, s0)' /\ FoundInv'
    BY <1>4, <2>1, <2>4, EdgeCollect, FoundCollect
  <2>7. CoverInv(V1, g)'
    BY <1>4, <2>3, <2>4, <2>5, CoverCollect
  <2>8. FinalInv(V1)'
    BY <1>4, <2>3, <2>4, <2>5, FinalCollect
  <2>9. CoverInv(Cov(Gen(s0), g), g)' /\ FinalInv(Cov(Gen(s0), g))'
    BY <2>3, <2>7, <2>8 DEF CoverInv, FinalInv
  <2> QED
    BY <2>6, <2>9 DEF MarkInv
<1>5. CASE ResurrectionPhase
  BY <1>5 DEF ResurrectionPhase, MarkInv, MarkPhase
<1>6. CASE ConcurrentMarkPrepare
  BY <1>6, MarkEstablished
<1>7. CASE gcPc \notin MarkPhase /\ Collect /\ ~ ConcurrentMarkPrepare
  <2>1. gcPc' \notin MarkPhase
    <3>1. CASE \E o \in Objects : \/ MarkObject(o) \/ CopyChildRefs(o)
                                  \/ ConcurrentMarkFinalizer(o)
      BY <1>7, <3>1 DEF MarkObject, CopyChildRefs, ConcurrentMarkFinalizer, gcVars
    <3>2. CASE ~ \E o \in Objects : \/ MarkObject(o) \/ CopyChildRefs(o)
                                    \/ ConcurrentMarkFinalizer(o)
      BY <1>7, <3>2 DEF Collect, ConcurrentStackScan, ConcurrentMSPreSTW1,
         StopTheWorld, StartTheWorld, ConcurrentStaticRootsScan,
         ConcurrentMarkDrained, ConcurrentProcessDisovered,
         ConcurrentPrepareResurrection, ConcurrentMarkFinalizerDone,
         ConcurrentReMark, ConcurrentReMarkDrained, ConcurrentMarkCleanup,
         ConcurrentMarkCleanupDrained, ResurrectionPhase, PrepareConcurrentSweep,
         ConcurrentMSPostSTW2, ConcurrentAddFinalizerToRP, ConcurrentSweep,
         ResetBitmap, MarkPhase
    <3> QED
      BY <3>1, <3>2
  <2> QED
    BY <2>1 DEF MarkInv
<1> QED
  BY <1>1, <1>2, <1>3, <1>4, <1>5, <1>6, <1>7 DEF Next

-----------------------------------------------------------------------------
(* The end of marking.                                                     *)

(* The closure is the mark bitmap.                                         *)
LEMMA MarkDone ==
  TypeOK /\ OpInv /\ WorldInv /\ MarkerInv /\ SatbInv /\ MarkInv /\ gcPc = "resurrect" =>
    /\ FoundInv /\ FinalInv(markBitmap) /\ scanning = {} /\ finalWork = {}
    /\ \E g : CoverInv(markBitmap, g) /\ \A o \in markBitmap : g[o] \subseteq markBitmap
<1> SUFFICES ASSUME TypeOK, OpInv, WorldInv, MarkerInv, SatbInv, MarkInv,
                    gcPc = "resurrect"
             PROVE  /\ FoundInv /\ FinalInv(markBitmap) /\ scanning = {} /\ finalWork = {}
                    /\ \E g : /\ CoverInv(markBitmap, g)
                              /\ \A o \in markBitmap : g[o] \subseteq markBitmap
  OBVIOUS
<1>1. gcPc \in MarkPhase /\ gcPc \notin MarkRunning /\ gcPc \notin Active
  BY DEF MarkPhase, MarkRunning, Active
<1>2. PICK g \in [Objects -> SUBSET Objects], s0 \in Objects \cup {Null} :
          /\ EdgeInv(g, s0)
          /\ CoverInv(Cov(Gen(s0), g), g)
          /\ FinalInv(Cov(Gen(s0), g))
  BY <1>1 DEF MarkInv
<1>3. scanning = {} /\ finalWork = {} /\ work = {}
  BY <1>1 DEF MarkerInv, Marking
<1>4. Safe = markBitmap
  BY <1>1, <1>3 DEF Safe, SatbInv
<1>5. Waiting = {} /\ Gotten = {}
  <2>1. running = {}
    BY DEF WorldInv, StoppedPcs
  <2>2. \A m \in Mutators : m \notin toScan /\ pc[m] \notin {"scan", "get"}
    BY <2>1 DEF WorldInv
  <2>3. Unscanned = {} /\ Getting = {}
    BY <2>2 DEF Unscanned, Getting
  <2> QED
    BY <2>3 DEF Waiting, Gotten
<1>6. s0 \in markBitmap \cup {Null}
  BY <1>2, <1>4 DEF EdgeInv
<1>7. Gen(s0) = markBitmap
  BY <1>4, <1>5, <1>6 DEF Gen
<1>8. \A o \in markBitmap : g[o] \subseteq markBitmap
  BY <1>2, <1>3, <1>4 DEF EdgeInv
<1>9. Cov(Gen(s0), g) = markBitmap
  <2>1. markBitmap \in SUBSET Objects
    BY DEF TypeOK
  <2>2. markBitmap \subseteq Cov(markBitmap, g)
    BY <2>1, CovBasic
  <2>3. Cov(markBitmap, g) \subseteq markBitmap
    BY <2>1, <1>8, CovLeast
  <2> QED
    BY <2>2, <2>3, <1>7
<1>10. FoundInv
  BY <1>1 DEF MarkInv
<1> QED
  BY <1>2, <1>3, <1>8, <1>9, <1>10

LEMMA LiveIsMarked ==
  TypeOK /\ OpInv /\ WorldInv /\ MarkerInv /\ SatbInv /\ MarkInv => LiveMarked
<1> SUFFICES ASSUME TypeOK, OpInv, WorldInv, MarkerInv, SatbInv, MarkInv,
                    gcPc = "resurrect"
             PROVE  Live \subseteq markBitmap
  BY DEF LiveMarked
<1>1. PICK g : CoverInv(markBitmap, g) /\ \A o \in markBitmap : g[o] \subseteq markBitmap
  BY MarkDone
<1>2. markBitmap \in SUBSET Objects /\ markBitmap \subseteq allocated
  BY MarkDone DEF TypeOK, FoundInv, Safe, Usable
<1>3. Roots \subseteq markBitmap
  <2>1. QueueRoots \subseteq markBitmap
    BY <1>1, QueueFacts DEF CoverInv
  <2> QED
    BY <1>1, <2>1 DEF CoverInv, Roots
<1>4. \A o \in markBitmap : Children(o) \subseteq markBitmap
  BY <1>1, <1>2 DEF CoverInv
<1> QED
  BY <1>2, <1>3, <1>4, LiveLeast

(* What ResurrectionPhase() leaves marked in one of the bitmaps is closed. *)
LEMMA KeptEstablished ==
  ASSUME TypeOK, OpInv, WorldInv, MarkerInv, SatbInv, UsableInv, MarkInv,
         ResurrectionPhase
  PROVE  KeptInv'
<1> DEFINE first  == {r \in discoverRefs : Discoverable(r)}
           second == {r \in finalizerFindReferences :
                        Discoverable(r) /\ field[r] \notin finalBitmap}
<1>1. PICK new \in SetToSeqs(first \cup second) :
        enqueueRefs' = new \o enqueueRefs
  BY DEF ResurrectionPhase
<1>2. first \cup second \in SUBSET References
  BY DEF TypeOK
<1>3. Queued' \subseteq Queued \cup (first \cup second)
  BY <1>1, <1>2, ChainGrows
<1>4. /\ gcPc = "resurrect"
      /\ field' = [s \in Slots |-> IF s \in first \cup second THEN Null ELSE field[s]]
      /\ UNCHANGED <<allocated, resurrectable, finalizables, toSweep, dead, stack,
                     markBitmap, finalBitmap>>
  BY DEF ResurrectionPhase, history, mutVars
<1>5. /\ FoundInv /\ FinalInv(markBitmap) /\ scanning = {} /\ finalWork = {}
  BY <1>4, MarkDone
<1>6. PICK g : CoverInv(markBitmap, g) /\ \A o \in markBitmap : g[o] \subseteq markBitmap
  BY <1>4, MarkDone
<1>7. PICK M : M = markBitmap \cup finalBitmap
  OBVIOUS
<1>8. /\ M \subseteq Usable /\ markBitmap \subseteq allocated /\ M \subseteq Objects
  BY <1>5, <1>7 DEF FoundInv, Safe, Usable, TypeOK
<1>9. Kept' = M
  BY <1>4, <1>7, <1>8 DEF Kept, Usable
<1>10. dead' \cap (markBitmap' \cup finalBitmap') = {}
  BY <1>4, <1>7, <1>8 DEF Usable
<1>11. first \cup second \subseteq M
  BY <1>5, <1>7 DEF FoundInv
<1>12. ASSUME NEW o \in M
       PROVE  field'[o] \in M \cup {Null}
  <2>0. /\ o \in Objects /\ o \in Slots
        /\ field'[o] = IF o \in first \cup second THEN Null ELSE field[o]
    BY <1>4, <1>8 DEF Slots
  <2>1. CASE o \notin References
    <3>1. Children(o) \subseteq M
      <4>1. CASE o \in markBitmap
        BY <4>1, <1>6, <1>7, <1>8 DEF CoverInv
      <4>2. CASE o \in finalBitmap
        BY <4>2, <1>5, <1>7 DEF FinalInv
      <4> QED
        BY <4>1, <4>2, <1>7
    <3>2. Children(o) = {field[o]} \ {Null}
      BY <2>1 DEF Children
    <3> QED
      BY <2>0, <3>1, <3>2
  <2>2. CASE o \in References /\ ~ Discoverable(o)
    <3>1. gcPc \in MarkPhase
      BY <1>4 DEF MarkPhase
    <3>2. field[o] \in markBitmap \cup {Null}
      BY <2>2, <3>1, NotDiscoverable
    <3> QED
      BY <3>2, <2>0, <1>7
  <2>3. CASE o \in References /\ Discoverable(o)
    <3>1. CASE o \in markBitmap
      <4>1. field[o] \in markBitmap \cup {Null} \/ o \in discoverRefs
        BY <3>1, <2>3, <1>5, <1>6 DEF CoverInv
      <4> QED
        BY <4>1, <2>0, <2>3, <1>7
    <3>2. CASE o \in finalBitmap
      <4>1. field[o] \in markBitmap \cup {Null} \/ o \in finalizerFindReferences
        BY <3>2, <2>3, <1>5 DEF FinalInv
      <4> QED
        BY <4>1, <2>0, <2>3, <1>7
    <3> QED
      BY <3>1, <3>2, <1>7
  <2> QED
    BY <2>1, <2>2, <2>3
<1>13. field'[Static] \in M \cup {Null}
  <2>1. Static \in Slots
    BY DEF Slots
  <2> QED
    BY <2>1, <1>4, <1>6, <1>7 DEF CoverInv
<1>14. resurrectable \subseteq M
  BY <1>4, <1>5, <1>7 DEF FinalInv, FinalMarked
<1>15. /\ finalizables \subseteq M /\ Queued \subseteq M
       /\ \A m \in Mutators : stack[m] \subseteq M
  BY <1>6, <1>7 DEF CoverInv
<1> HIDE DEF first, second
<1>16. Closed(Kept)'
  BY <1>3, <1>4, <1>9, <1>11, <1>12, <1>13, <1>14, <1>15 DEF Closed, Reach
<1> QED
  BY <1>10, <1>16 DEF KeptInv

LEMMA KeptStep ==
  ASSUME TypeOK, OpInv, WorldInv, MarkerInv, SatbInv, UsableInv, KeptInv, MarkInv,
         [Next]_vars
  PROVE  KeptInv'
<1>1. CASE UNCHANGED vars
  BY <1>1 DEF KeptInv, Kept, Usable, Closed, Reach, Queued, vars, worldVars, heapVars,
     markVars, mutVars, gcVars, history
<1>2. ASSUME NEW m \in Mutators, Mutate(m)
      PROVE  KeptInv'
  <2>1. ~ stopped
    BY <1>2, StoppedIsStill DEF TypeOK
  <2>2. gcPc # "sweepPrepare" /\ gcPc' = gcPc
    BY <1>2, <2>1, MutateFrame DEF WorldInv, StoppedPcs, gcVars
  <2> QED
    BY <2>2 DEF KeptInv
<1>3. CASE ResurrectionPhase
  BY <1>3, KeptEstablished
<1>4. CASE Collect /\ ~ ResurrectionPhase
  <2>1. gcPc' # "sweepPrepare"
    <3>1. CASE \E o \in Objects : \/ MarkObject(o) \/ CopyChildRefs(o)
                                  \/ ConcurrentMarkFinalizer(o)
      <4>1. gcPc' = gcPc /\ gcPc # "sweepPrepare"
        BY <3>1 DEF MarkObject, CopyChildRefs, ConcurrentMarkFinalizer, gcVars,
           Marking, MarkerInv
      <4> QED
        BY <4>1
    <3>2. CASE ~ \E o \in Objects : \/ MarkObject(o) \/ CopyChildRefs(o)
                                    \/ ConcurrentMarkFinalizer(o)
      BY <1>4, <3>2 DEF Collect, ConcurrentStackScan, ConcurrentMSPreSTW1,
         StopTheWorld, StartTheWorld, ConcurrentMarkPrepare,
         ConcurrentStaticRootsScan, ConcurrentMarkDrained,
         ConcurrentProcessDisovered, ConcurrentPrepareResurrection,
         ConcurrentMarkFinalizerDone, ConcurrentReMark, ConcurrentReMarkDrained,
         ConcurrentMarkCleanup, ConcurrentMarkCleanupDrained,
         PrepareConcurrentSweep, ConcurrentMSPostSTW2, ConcurrentAddFinalizerToRP,
         ConcurrentSweep, ResetBitmap, gcVars
    <3> QED
      BY <3>1, <3>2
  <2> QED
    BY <2>1 DEF KeptInv
<1> QED
  BY <1>1, <1>2, <1>3, <1>4 DEF Next

-----------------------------------------------------------------------------
(* The theorems.                                                           *)

LEMMA Initially ==
  ASSUME Init
  PROVE  IInv
<1>0. /\ attached \in SUBSET Mutators /\ running = {} /\ stopped = FALSE
      /\ allocated \in SUBSET Objects
      /\ field \in [Slots -> allocated \cup {Null}]
      /\ stack \in [Mutators -> SUBSET allocated]
      /\ \A m \in Mutators \ attached : stack[m] = {}
      /\ resurrectable = allocated \cap Finalizables
      /\ finalizables = {} /\ enqueueRefs = <<>>
      /\ markBitmap = {} /\ finalBitmap = {} /\ useFinalBitmap = FALSE
      /\ work = {} /\ scanning = {} /\ toScan = {}
      /\ discoverRefs = {} /\ resurrectCandidates = {}
      /\ finalizerFindReferences = {} /\ finalWork = {}
      /\ satbNode = [m \in Mutators |-> {}] /\ retiredNodes = {}
      /\ enqueueMap = {}
      /\ concurrentMarkRunning = FALSE
      /\ concurrentMarking = [m \in Mutators |-> FALSE]
      /\ pc = [m \in Mutators |-> IF m \in attached THEN "native" ELSE "absent"]
      /\ op = [m \in Mutators |-> <<>>]
      /\ gcPc = "idle" /\ round = 0 /\ toSweep = {}
      /\ ops = 0 /\ collections = 0
      /\ snapshot = {} /\ dead = {}
  BY DEF Init
<1>1. OpInv
  <2>1. <<>> \in Seq(Slots \cup {Null})
    BY EmptySeq
  <2> QED
    BY <1>0, <2>1 DEF OpInv
<1>2. Types
  <2>1. enqueueRefs \in Seq(References)
    BY <1>0, EmptySeq
  <2>2. field \in [Slots -> Objects \cup {Null}] /\ stack \in [Mutators -> SUBSET Objects]
    BY <1>0
  <2>3. pc \in [Mutators -> {"absent", "managed", "native", "scan", "exiting",
                             "get", "store"}]
    BY <1>0
  <2>4. /\ satbNode \in [Mutators -> SUBSET Objects]
        /\ concurrentMarking \in [Mutators -> BOOLEAN]
    BY <1>0
  <2>5. 0 \in 0 .. ReMarkRounds /\ 0 \in 0 .. MaxOps /\ 0 \in 0 .. MaxCollections
    BY ConstantsAssumption DEF ReMarkRounds
  <2> QED
    BY <1>0, <2>1, <2>2, <2>3, <2>4, <2>5 DEF Types
<1>3. TypeOK
  BY <1>1, <1>2, TypesSuffice
<1>4. WorldInv
  BY <1>0 DEF WorldInv, StoppedPcs
<1>5. MarkerInv
  BY <1>0 DEF MarkerInv, MarkRunning, MarkPhase, SweepPhase
<1>6. SatbInv
  BY <1>0 DEF SatbInv, Active, MarkRunning, MarkPhase
<1>7. UsableInv
  <2>1. Usable = allocated
    BY <1>0 DEF Usable
  <2>2. Queued = {}
    BY <1>0 DEF Queued
  <2>3. Closed(allocated)
    BY <1>0, <2>2 DEF Closed, Reach, Slots
  <2> QED
    BY <1>0, <2>1, <2>3 DEF UsableInv
<1>8. KeptInv /\ MarkInv
  BY <1>0 DEF KeptInv, MarkInv, MarkPhase
<1> QED
  BY <1>1, <1>3, <1>4, <1>5, <1>6, <1>7, <1>8 DEF IInv

LEMMA Inductive ==
  ASSUME ~ ExitOvertaken, IInv, [Next]_vars
  PROVE  IInv'
<1> USE DEF IInv
<1>1. OpInv' /\ TypeOK' /\ WorldInv' /\ MarkerInv' /\ SatbInv' /\ UsableInv'
  BY OpStep, TypeStep, WorldStep, MarkerStep, SatbStep, UsableStep
<1>2. KeptInv' /\ MarkInv'
  BY <1>1, KeptStep, MarkStep
<1> QED
  BY <1>1, <1>2

(* The invariant of concurrent marking: who is in the world, what the      *)
(* marker and the SATB buffers hold in each phase, and the snapshot that   *)
(* marking maintains.                                                      *)
THEOREM InductiveInvariant ==
  ASSUME ~ ExitOvertaken
  PROVE  Spec => []IInv
<1>1. Init => IInv
  BY Initially
<1>2. IInv /\ [Next]_vars => IInv'
  BY Inductive
<1> QED
  BY <1>1, <1>2, PTL DEF Spec

(* The SATB buffers lose no object that enqueueMap has seen, also when     *)
(* PushIntoSatbBuffer() retires a full node or a mutator exits, and no     *)
(* node outlives SatbBuffer::Reset().                                      *)
THEOREM SatbIsConsistent ==
  ASSUME ~ ExitOvertaken
  PROVE  Spec => []SatbConsistent
<1>1. IInv => SatbConsistent
  <2> SUFFICES ASSUME IInv
               PROVE  SatbConsistent
    OBVIOUS
  <2>1. TypeOK
    BY DEF IInv
  <2>2. LoggedNotLost
    BY DEF IInv, MarkerInv, SatbInv, LoggedNotLost, Safe
  <2>3. NodesReturned
    BY DEF IInv, SatbInv, NodesReturned, Active, MarkRunning, MarkPhase
  <2> QED
    BY <2>1, <2>2, <2>3 DEF SatbConsistent
<1> QED
  BY <1>1, InductiveInvariant, PTL

(* Snapshot at the beginning: at the end of marking all that was strongly  *)
(* reachable in the first stop-the-world is marked, whatever the mutators  *)
(* stored meanwhile.                                                       *)
THEOREM SnapshotIsMarked ==
  ASSUME ~ ExitOvertaken
  PROVE  Spec => []SnapshotMarked
<1>1. IInv => SnapshotMarked
  <2> SUFFICES ASSUME IInv, gcPc = "resurrect"
               PROVE  snapshot \subseteq markBitmap
    BY DEF SnapshotMarked
  <2>1. PICK g : CoverInv(markBitmap, g)
    BY MarkDone DEF IInv
  <2> QED
    BY <2>1 DEF CoverInv
<1> QED
  BY <1>1, InductiveInvariant, PTL

(* What the debug marking of the second stop-the-world would check: all    *)
(* that is reachable when marking ends is marked.  The run                 *)
(* ConcurrentMark_exit violates it when ExitOvertaken is TRUE.             *)
THEOREM LiveIsMarkedAtEnd ==
  ASSUME ~ ExitOvertaken
  PROVE  Spec => []LiveMarked
<1>1. IInv => LiveMarked
  BY LiveIsMarked DEF IInv
<1> QED
  BY <1>1, InductiveInvariant, PTL

(* The sweep frees nothing that a mutator can reach.                       *)
THEOREM NothingReachableIsFreed ==
  ASSUME ~ ExitOvertaken
  PROVE  Spec => []ReachableAllocated
<1>1. IInv => ReachableAllocated
  <2> SUFFICES ASSUME IInv
               PROVE  Live \subseteq allocated
    BY DEF ReachableAllocated
  <2>1. Usable \in SUBSET Objects /\ Usable \subseteq allocated /\ Reach(Usable)
    BY DEF IInv, UsableInv, TypeOK, Usable, Closed
  <2>2. Live \subseteq Usable
    BY <2>1, LiveClosed DEF IInv
  <2> QED
    BY <2>1, <2>2
<1> QED
  BY <1>1, InductiveInvariant, PTL

(* A Reference that a mutator can reach refers to no freed object: the     *)
(* reference processor cleared it before its referent was freed.           *)
THEOREM ReferentsAreCleared ==
  ASSUME ~ ExitOvertaken
  PROVE  Spec => []NoDanglingReferent
<1>1. IInv => NoDanglingReferent
  <2> SUFFICES ASSUME IInv, NEW r \in Live \cap References
               PROVE  field[r] \in allocated \cup {Null}
    BY DEF NoDanglingReferent
  <2>1. Usable \in SUBSET Objects /\ Usable \subseteq allocated /\ Reach(Usable)
    BY DEF IInv, UsableInv, TypeOK, Usable, Closed
  <2>2. Live \subseteq Usable
    BY <2>1, LiveClosed DEF IInv
  <2> QED
    BY <2>1, <2>2 DEF Reach
<1> QED
  BY <1>1, InductiveInvariant, PTL

(* What nobody could get at in the first stop-the-world, not through a     *)
(* Reference or finalize() either, is freed by the sweep that follows.     *)
THEOREM GarbageIsFreed ==
  ASSUME ~ ExitOvertaken
  PROVE  Spec => []GarbageFreed
<1>1. IInv => GarbageFreed
  BY DEF IInv, UsableInv, GarbageFreed
<1> QED
  BY <1>1, InductiveInvariant, PTL

(* ResurrectionPhase() clears a Reference only if no mutator can reach its *)
(* referent, although Reference.get() may have returned it since the       *)
(* Reference was discovered.                                               *)
THEOREM ClearedAreDead ==
  ASSUME ~ ExitOvertaken
  PROVE  Spec => ClearedOnlyIfDead
<1>1. IInv /\ [Next]_vars =>
        [\A r \in References :
           (gcPc = "resurrect" /\ field[r] # field'[r]) => field[r] \notin Live]_vars
  <2> SUFFICES ASSUME IInv, Next, NEW r \in References, gcPc = "resurrect",
                      field[r] # field'[r]
               PROVE  field[r] \notin Live
    OBVIOUS
  <2>1. ~ \E m \in Mutators : Mutate(m)
    <3>1. stopped
      BY DEF IInv, WorldInv, StoppedPcs
    <3> QED
      BY <3>1, StoppedIsStill DEF IInv
  <2>2. ResurrectionPhase
    <3>1. gcPc \in MarkPhase
      BY DEF MarkPhase
    <3> QED
      BY <2>1, <3>1, CollectHeapFrame DEF Next, heapVars
  <2>3. r \in Objects /\ r \in Slots
    BY ConstantsAssumption DEF Slots
  <2>4. Discoverable(r)
    BY <2>2, <2>3 DEF ResurrectionPhase
  <2>5. field[r] \notin markBitmap
    BY <2>4 DEF Discoverable, IsGarbage
  <2>6. Live \subseteq markBitmap
    BY LiveIsMarked DEF IInv, LiveMarked
  <2> QED
    BY <2>5, <2>6
<1> QED
  BY <1>1, InductiveInvariant, PTL DEF Spec, ClearedOnlyIfDead

-----------------------------------------------------------------------------
(* The objects chosen for finalize().                                      *)

(* ResurrectionPhase(): what is marked, and the References it clears.      *)
LEMMA ChosenEstablished ==
  ASSUME References \cap Finalizables = {}, TypeOK, OpInv, WorldInv, MarkerInv,
         SatbInv, MarkInv, ResurrectionPhase
  PROVE  \E L \in SUBSET Objects :
           Reach(L)' /\ L \cap (resurrectCandidates' \ markBitmap') = {}
<1> DEFINE first  == {r \in discoverRefs : Discoverable(r)}
           second == {r \in finalizerFindReferences :
                        Discoverable(r) /\ field[r] \notin finalBitmap}
<1>1. PICK new \in SetToSeqs(first \cup second) :
        enqueueRefs' = new \o enqueueRefs
  BY DEF ResurrectionPhase
<1>2. first \cup second \in SUBSET References
  BY DEF TypeOK
<1>3. Queued' \subseteq Queued \cup (first \cup second)
  BY <1>1, <1>2, ChainGrows
<1>4. /\ gcPc = "resurrect"
      /\ field' = [s \in Slots |-> IF s \in first \cup second THEN Null ELSE field[s]]
      /\ UNCHANGED <<finalizables, stack, markBitmap, resurrectCandidates>>
  BY DEF ResurrectionPhase, mutVars
<1>5. FoundInv /\ scanning = {}
  BY <1>4, MarkDone
<1>6. PICK g : CoverInv(markBitmap, g) /\ \A o \in markBitmap : g[o] \subseteq markBitmap
  BY <1>4, MarkDone
<1>7. PICK L : L = markBitmap \cup (first \cup second)
  OBVIOUS
<1>8. L \in SUBSET Objects /\ markBitmap \subseteq allocated
  BY <1>2, <1>5, <1>7, ConstantsAssumption DEF TypeOK, FoundInv, Safe, Usable
<1>9. ASSUME NEW o \in L
      PROVE  field'[o] \in L \cup {Null}
  <2>0. /\ o \in Objects /\ o \in Slots
        /\ field'[o] = IF o \in first \cup second THEN Null ELSE field[o]
    BY <1>4, <1>8 DEF Slots
  <2>1. CASE o \in first \cup second
    BY <2>0, <2>1
  <2>2. CASE o \notin first \cup second
    <3>1. o \in markBitmap
      BY <2>2, <1>7
    <3>2. CASE o \notin References
      <4>1. Children(o) \subseteq markBitmap
        BY <3>1, <1>6, <1>8 DEF CoverInv
      <4>2. Children(o) = {field[o]} \ {Null}
        BY <3>2 DEF Children
      <4> QED
        BY <4>1, <4>2, <2>0, <1>7
    <3>3. CASE o \in References
      <4>1. field[o] \in markBitmap \cup {Null} \/ o \in discoverRefs
        BY <3>1, <3>3, <1>5, <1>6 DEF CoverInv
      <4>2. CASE o \in discoverRefs
        <5>1. ~ Discoverable(o)
          BY <2>2, <4>2
        <5>2. gcPc \in MarkPhase
          BY <1>4 DEF MarkPhase
        <5>3. field[o] \in markBitmap \cup {Null}
          BY <5>1, <5>2, <3>3, NotDiscoverable
        <5> QED
          BY <5>3, <2>0, <1>7
      <4> QED
        BY <4>1, <4>2, <2>0, <1>7
    <3> QED
      BY <3>2, <3>3
  <2> QED
    BY <2>1, <2>2
<1>10. field'[Static] \in L \cup {Null}
  <2>1. Static \in Slots
    BY DEF Slots
  <2> QED
    BY <2>1, <1>4, <1>6, <1>7 DEF CoverInv
<1>11. /\ finalizables \subseteq L /\ Queued \subseteq L
       /\ \A m \in Mutators : stack[m] \subseteq L
  BY <1>6, <1>7 DEF CoverInv
<1>12. L \cap (resurrectCandidates' \ markBitmap') = {}
  BY <1>2, <1>4, <1>7 DEF TypeOK
<1>13. first \cup second \subseteq L
  BY <1>7
<1> HIDE DEF first, second
<1>14. Reach(L)'
  BY <1>3, <1>4, <1>9, <1>10, <1>11, <1>13 DEF Reach
<1> QED
  BY <1>8, <1>12, <1>14

LEMMA ChosenStep ==
  ASSUME References \cap Finalizables = {}, IInv, ChosenInv, [Next]_vars
  PROVE  ChosenInv'
<1> USE DEF IInv
<1>1. CASE UNCHANGED vars
  BY <1>1 DEF ChosenInv, Reach, Queued, vars, worldVars, heapVars, markVars,
     refVars, mutVars, gcVars
<1>2. ASSUME NEW m \in Mutators, Mutate(m)
      PROVE  ChosenInv'
  <2>1. UNCHANGED <<gcPc, resurrectCandidates>> /\ markBitmap \subseteq markBitmap'
          /\ allocated \subseteq allocated'
    BY <1>2, MarkerFrame DEF refVars, gcVars, NewObj
  <2>2. ASSUME gcPc \in ChosenPhase
        PROVE  \E L \in SUBSET Objects :
                 Reach(L)' /\ L \cap (resurrectCandidates' \ markBitmap') = {}
    <3>1. PICK L \in SUBSET Objects :
            Reach(L) /\ L \cap (resurrectCandidates \ markBitmap) = {}
      BY <2>2 DEF ChosenInv
    <3>2. CASE ~ \E o \in Objects, v \in Objects \cup {Null} : NewObj(m, o, v)
      <4>1. Reach(L)'
        BY <1>2, <3>1, <3>2, ReachMutate
      <4> QED
        BY <4>1, <3>1, <2>1
    <3>3. ASSUME NEW o \in Objects, NEW v \in Objects \cup {Null}, NewObj(m, o, v)
          PROVE  \E K \in SUBSET Objects :
                   Reach(K)' /\ K \cap (resurrectCandidates' \ markBitmap') = {}
      <4>1. /\ o \notin allocated
            /\ v \in stack[m] \cup {Null}
            /\ field' = [field EXCEPT ![o] = v]
            /\ stack' = [stack EXCEPT ![m] = @ \cup {o}]
            /\ UNCHANGED <<finalizables, enqueueRefs>>
        BY <3>3 DEF NewObj
      <4>2. PICK K \in SUBSET Objects : K = L \cup {o}
        OBVIOUS
      <4>3. /\ \A n \in Mutators : stack'[n] \subseteq K
            /\ \A s \in K \cup {Static} : field'[s] \in K \cup {Null}
        <5>1. /\ stack \in [Mutators -> SUBSET Objects]
              /\ field \in [Slots -> Objects \cup {Null}]
              /\ K \cup {Static} \subseteq Slots
              /\ \A n \in Mutators : stack[n] \subseteq L
              /\ \A s \in L \cup {Static} : field[s] \in L \cup {Null}
          BY <3>1, <4>2 DEF TypeOK, Slots, Reach
        <5> QED
          BY <5>1, <4>1, <4>2
      <4>4. Reach(K)'
        <5>1. Queued' = Queued
          BY <4>1 DEF Queued
        <5> QED
          BY <3>1, <4>1, <4>2, <4>3, <5>1 DEF Reach
      <4>5. K \cap (resurrectCandidates' \ markBitmap') = {}
        BY <2>1, <3>1, <4>1, <4>2 DEF ChosenInv
      <4> QED
        BY <4>4, <4>5
    <3> QED
      BY <3>2, <3>3
  <2> QED
    BY <2>1, <2>2 DEF ChosenInv
<1>3. CASE Collect
  <2> USE DEF FinalMarked, ChosenPhase
  <2>0. UNCHANGED stack
    BY <1>3, CollectFrame DEF mutVars
  <2>1. ASSUME UNCHANGED <<allocated, field, finalizables, enqueueRefs,
                           resurrectCandidates, markBitmap>>,
               gcPc \in FinalMarked \cup ChosenPhase \cup {"markFinal"} =>
                 gcPc' \in FinalMarked \cup ChosenPhase \cup {"markFinal"},
               gcPc' \in ChosenPhase => gcPc \in ChosenPhase
        PROVE  ChosenInv'
    BY <2>0, <2>1 DEF ChosenInv, Reach, Queued
  <2>2. CASE \E o \in Objects : \/ MarkObject(o) \/ CopyChildRefs(o)
                                \/ ConcurrentMarkFinalizer(o)
    <3>1. /\ UNCHANGED <<allocated, resurrectCandidates, gcPc>>
          /\ gcPc \notin ChosenPhase
      BY <2>2 DEF MarkObject, CopyChildRefs, ConcurrentMarkFinalizer, heapVars,
         refVars, gcVars, Marking, MarkerInv
    <3> QED
      BY <3>1 DEF ChosenInv
  <2>3. CASE \/ \E m \in Mutators : ConcurrentStackScan(m)
             \/ ConcurrentMSPreSTW1 \/ StopTheWorld \/ StartTheWorld
             \/ ConcurrentMarkPrepare \/ ConcurrentStaticRootsScan
             \/ ConcurrentMarkDrained \/ ConcurrentProcessDisovered
             \/ ConcurrentMarkFinalizerDone
             \/ ConcurrentReMark \/ ConcurrentReMarkDrained
             \/ ConcurrentMarkCleanup \/ ConcurrentMarkCleanupDrained
             \/ PrepareConcurrentSweep \/ ConcurrentMSPostSTW2
    <3>1. /\ UNCHANGED <<allocated, field, finalizables, enqueueRefs,
                         resurrectCandidates, markBitmap>>
          /\ gcPc \in FinalMarked \cup ChosenPhase \cup {"markFinal"} =>
               gcPc' \in FinalMarked \cup ChosenPhase \cup {"markFinal"}
          /\ gcPc' \in ChosenPhase => gcPc \in ChosenPhase
      BY <2>3 DEF ConcurrentStackScan, ConcurrentMSPreSTW1, StopTheWorld,
         StartTheWorld, ConcurrentMarkPrepare, ConcurrentStaticRootsScan,
         ConcurrentMarkDrained, ConcurrentProcessDisovered,
         ConcurrentMarkFinalizerDone, ConcurrentReMark, ConcurrentReMarkDrained,
         ConcurrentMarkCleanup, ConcurrentMarkCleanupDrained,
         PrepareConcurrentSweep, ConcurrentMSPostSTW2, heapVars, markVars,
         refVars, gcVars
    <3> QED
      BY <3>1, <2>1
  <2>4. CASE ConcurrentPrepareResurrection
    <3>1. /\ resurrectCandidates' \subseteq resurrectable /\ UNCHANGED allocated
          /\ gcPc' = "markFinal"
      BY <2>4 DEF ConcurrentPrepareResurrection, heapVars
    <3>2. resurrectable \subseteq allocated
      BY DEF UsableInv, Closed, Usable
    <3> QED
      BY <3>1, <3>2 DEF ChosenInv
  <2>5. CASE ResurrectionPhase
    <3>1. \E L \in SUBSET Objects :
            Reach(L)' /\ L \cap (resurrectCandidates' \ markBitmap') = {}
      BY <2>5, ChosenEstablished
    <3>2. UNCHANGED <<resurrectCandidates, allocated>> /\ gcPc' = "sweepPrepare"
      BY <2>5 DEF ResurrectionPhase
    <3> QED
      BY <3>1, <3>2 DEF ChosenInv
  <2>6. CASE ConcurrentAddFinalizerToRP
    BY <2>6 DEF ChosenInv, ConcurrentAddFinalizerToRP
  <2>7. CASE ConcurrentSweep \/ ResetBitmap
    BY <2>7 DEF ChosenInv, ConcurrentSweep, ResetBitmap, refVars, heapVars
  <2> QED
    BY <1>3, <2>2, <2>3, <2>4, <2>5, <2>6, <2>7 DEF Collect
<1> QED
  BY <1>1, <1>2, <1>3 DEF Next

(* Only objects that nobody can reach are queued for finalize(): although  *)
(* ConcurrentPrepareResurrection() chose them while Reference.get() could  *)
(* still return them, and mutators run again when they are queued.  A      *)
(* Reference with finalize() would be reached through the chain of cleared *)
(* References, hence the second hypothesis.                                *)
THEOREM FinalizedAreDead ==
  ASSUME ~ ExitOvertaken, References \cap Finalizables = {}
  PROVE  Spec => FinalizedOnlyIfDead
<1>1. Init => IInv /\ ChosenInv
  <2>1. Init => IInv
    BY Initially
  <2>2. Init => ChosenInv
    BY DEF Init, ChosenInv, ChosenPhase
  <2> QED
    BY <2>1, <2>2
<1>2. (IInv /\ ChosenInv) /\ [Next]_vars => (IInv /\ ChosenInv)'
  BY Inductive, ChosenStep
<1>3. (IInv /\ ChosenInv) /\ [Next]_vars =>
        [\A o \in finalizables' \ finalizables : o \notin Live]_vars
  <2> SUFFICES ASSUME IInv, ChosenInv, Next, NEW o \in finalizables' \ finalizables
               PROVE  o \notin Live
    OBVIOUS
  <2>1. ~ \E m \in Mutators : Mutate(m)
    <3> SUFFICES ASSUME NEW m \in Mutators, Mutate(m)
                 PROVE  FALSE
      OBVIOUS
    <3>1. finalizables' \subseteq finalizables
      BY HeapFrame DEF NewObj, StoreRefField, EnqueueReference
    <3> QED
      BY <3>1
  <2>2. ConcurrentAddFinalizerToRP
    BY <2>1 DEF Next, Collect, MarkObject, CopyChildRefs, ConcurrentMarkFinalizer,
       ConcurrentStackScan, ConcurrentMSPreSTW1, StopTheWorld, StartTheWorld,
       ConcurrentMarkPrepare, ConcurrentStaticRootsScan, ConcurrentMarkDrained,
       ConcurrentProcessDisovered, ConcurrentPrepareResurrection,
       ConcurrentMarkFinalizerDone, ConcurrentReMark, ConcurrentReMarkDrained,
       ConcurrentMarkCleanup, ConcurrentMarkCleanupDrained, ResurrectionPhase,
       PrepareConcurrentSweep, ConcurrentMSPostSTW2, ConcurrentSweep, ResetBitmap,
       heapVars
  <2>3. gcPc = "finalizers" /\ o \in resurrectCandidates \ markBitmap
    BY <2>2 DEF ConcurrentAddFinalizerToRP
  <2>4. PICK L \in SUBSET Objects :
          Reach(L) /\ L \cap (resurrectCandidates \ markBitmap) = {}
    BY <2>3 DEF ChosenInv, ChosenPhase
  <2>5. Live \subseteq L
    BY <2>4, LiveClosed DEF IInv
  <2> QED
    BY <2>3, <2>4, <2>5
<1> QED
  BY <1>1, <1>2, <1>3, PTL DEF Spec, FinalizedOnlyIfDead

=============================================================================
