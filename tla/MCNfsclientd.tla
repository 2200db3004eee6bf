---------------------------- MODULE MCNfsclientd ----------------------------
(* Model values for Nfsclientd.                                            *)
EXTENDS Nfsclientd

CONSTANT f1

MCFuseThreads == {f1}
MCRequests == 1 .. 3
MCRooms == {[snd |-> 2, rcv |-> 2]}
\* A success and an error that has no entry of its own in nfs3errtbl; a reply
\* that does not decode is added by the specification.
MCStatuses == {"NFS3_OK", "NFS3ERR_BADHANDLE"}
=============================================================================
