---- MODULE MCThreadPool ----
EXTENDS ThreadPool
CONSTANTS w1, w2, w3
WorkerSet3 == {w1, w2, w3}
====
