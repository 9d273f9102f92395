---- MODULE MCStackScan ----
EXTENDS StackScan
CONSTANTS m1, m2
MutatorSet2 == {m1, m2}
====
