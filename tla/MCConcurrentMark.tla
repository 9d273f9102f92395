-------------------------- MODULE MCConcurrentMark --------------------------
(* Instances of ConcurrentMark for TLC.                                    *)
EXTENDS ConcurrentMark, TLC

Symmetry == Permutations(Objects \ (References \cup Finalizables))

(* The initial states in which one thread is attached, has no managed      *)
(* frames, and the heap is full: the static field is the only root, and    *)
(* References have referents.                                              *)
MCInit ==
  /\ Init
  /\ Cardinality(attached) = 1
  /\ allocated = Objects
  /\ \A m \in Mutators : stack[m] = {}
  /\ \A r \in {Static} \cup References : field[r] # Null
  /\ Objects \subseteq Attainable

MCSpec == MCInit /\ [][Next]_vars
=============================================================================
