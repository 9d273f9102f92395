---- MODULE MCGCRequest ----
EXTENDS GCRequest
CONSTANTS r1, r2
RequesterSet2 == {r1, r2}
\* kGCReasonUser, kGCReasonForceGC, kGCReasonHeu, kGCReasonHeuBlocking
AllModes == {0, 3, 5, 7}
\* kGCReasonUser, kGCReasonForceGC, kGCReasonHeu
BlockingAndAsync == {0, 3, 5}
\* kGCReasonHeu
AsyncOnly == {5}
====
