--------------------------- MODULE MCRequestQueue ---------------------------
(* Model values for RequestQueue.                                          *)
EXTENDS RequestQueue

CONSTANTS f1, f2, a1, a2, r1, r2, r3

MCFuseThreads == {f1, f2}
MCActors == {a1, a2}
MCRequests == {r1, r2, r3}
=============================================================================
