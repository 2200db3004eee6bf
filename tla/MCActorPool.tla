---------------------------- MODULE MCActorPool -----------------------------
(* Model values and exit statuses for ActorPool.                           *)
EXTENDS ActorPool

CONSTANTS t1, t2, t3

MCTids == {t1, t2, t3}
MCAllStats == {-2, 0, 5}
MCErrno == {5}
=============================================================================
