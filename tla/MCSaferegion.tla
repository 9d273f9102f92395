---- MODULE MCSaferegion ----
EXTENDS Saferegion
CONSTANTS m1, m2, g1
MutatorSet == {m1, m2}
GCSet == {g1}
====
