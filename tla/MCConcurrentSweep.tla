------------------------- MODULE MCConcurrentSweep -------------------------
(* ConcurrentSweep from a few heaps of two pages, while marking is         *)
(* running, and with every set of marked objects.                          *)
EXTENDS ConcurrentSweep, TLC

CONSTANTS m1, m2, w1

(* The first page is a run with one object, in the list of non-full runs   *)
(* or local; the second a full run, a large object, or beyond the end of   *)
(* the space.                                                              *)
MCInit ==
  /\ Init
  /\ label[1] = "run"
  /\ {s \in Slots : <<1, s>> \in objects} = {1}
  /\ \A p \in Pages \ {1} :
       /\ spaceEnd < p \/ label[p] # "free"
       /\ label[p] = "run" => \A s \in Slots : <<p, s>> \in objects

Symmetry == Permutations(Mutators)

MCSpec == MCInit /\ [][Next]_vars /\ Fairness

=============================================================================
