----------------------------- MODULE Nfsclientd -----------------------------
(***************************************************************************)
(* The way of a FUSE request through nfsclientd: the request queue         *)
(* (RequestQueue), one NFSv3 actor (src/src/nfs3actor.c) and the RPC       *)
(* client over which it calls the server (RpcClient).  The actor mounts    *)
(* the remote directory first; then it takes requests one by one, calls    *)
(* LOOKUP with RPC_BLOCKING_WAIT and answers FUSE from the callback.  One  *)
(* actor is the default (DEFAULT_THREADPOOL_SIZE); each actor has contexts *)
(* and connections of its own, so that actors meet in the queue only.      *)
(*                                                                         *)
(* How a connection is made is the subject of NfsContext; here it is made  *)
(* or not.  What becomes of an actor that exits is that of ActorPool.      *)
(***************************************************************************)
EXTENDS Integers, Sequences, FiniteSets, Functions

CONSTANTS
  FuseThreads, Actor, Requests, NoThread, NoRequest,     \* as in RequestQueue
  Rooms, XidMod, FirstXids, FaultKinds, MaxFaults, Garbled, \* as in RpcClient
  Statuses,    \* the statuses with which the server answers a LOOKUP
  Undecodable  \* a LOOKUP3res that does not decode

ASSUME DaemonAssumption ==
  /\ IsFiniteSet(FuseThreads) /\ Actor \notin FuseThreads
  /\ NoThread \notin FuseThreads \cup {Actor}
  /\ IsFiniteSet(Requests) /\ Requests \subseteq Nat
  /\ NoRequest \notin Requests /\ Garbled \notin Requests
  /\ Rooms \subseteq [snd : Nat \ {0}, rcv : Nat \ {0}]
  /\ XidMod \in Nat \ {0} /\ FirstXids \subseteq 0 .. XidMod - 1
  /\ FaultKinds \subseteq {"memory", "write", "read", "reply"}
  /\ MaxFaults \in Nat

VARIABLES
  md_notify, md_lock, md_rq, pc, rq, added, taken,       \* of RequestQueue
  room, blocking, xid, ct_xid_to_ucb, ct_pendingcalls, outbuf, ct_sndlist,
  requests, replies, half, eof, rpc_pc, flag, batch, called_back, faults,
  result, answered,                                      \* of RpcClient
  actor,     \* what the actor does: "mount", "wait", "call", or it has "exited"
  nfs_cl,    \* is the handle of the context created?
  verdict,   \* the status the server has for each request
  reply,     \* the errnos sent to FUSE for each request, in their order
  aborted    \* has an assertion ended the daemon?

rpc == <<room, blocking, xid, ct_xid_to_ucb, ct_pendingcalls, outbuf, ct_sndlist,
         requests, replies, half, eof, rpc_pc, flag, batch, called_back, faults,
         result, answered>>
queue == <<md_notify, md_lock, md_rq, pc, rq, added, taken>>
vars == <<queue, rpc, actor, nfs_cl, verdict, reply, aborted>>

RPC_BLOCKING_WAIT == [block |-> TRUE, tx |-> TRUE, rx |-> TRUE]

Q == INSTANCE RequestQueue WITH Actors <- {Actor}

R == INSTANCE RpcClient WITH Calls <- Requests, Flags <- {RPC_BLOCKING_WAIT},
                             pc <- rpc_pc

\* The daemon asks for non-blocking sockets (NFSC_CFL_NONBLOCKING).
Init ==
  /\ Q!Init
  /\ R!Init /\ blocking = FALSE
  /\ actor = "mount"
  /\ nfs_cl = FALSE
  /\ verdict \in [Requests -> Statuses \cup {Undecodable}]
  /\ reply = [r \in Requests |-> <<>>]
  /\ aborted = FALSE

-----------------------------------------------------------------------------
(* init_nfs3_actor_thread_state: nfs3_actor_mount_remotedir calls MNT and  *)
(* waits.  Without contexts, a connection, an answer, or a root file       *)
(* handle in it, the actor exits.                                          *)

MountRemotedir ==
  /\ actor = "mount"
  /\ actor' \in {"wait", "exited"}
  /\ UNCHANGED <<queue, rpc, nfs_cl, verdict, reply, aborted>>

-----------------------------------------------------------------------------
(* The loop of nfs3_request_actor: the actor dequeues a request.           *)

Dequeue ==
  /\ actor = "wait"
  /\ \/ Q!DequeueWait(Actor)
     \/ Q!DequeueLock(Actor)
     \/ Q!DequeueFirst(Actor)
     \/ Q!DequeueDel(Actor)
     \/ Q!DequeueUnlock(Actor)
  /\ UNCHANGED <<rpc, actor, nfs_cl, verdict, reply, aborted>>

\* nfs3_lookup_actor, nfs3_call: the first call creates the handle.
Connect ==
  /\ actor = "wait" /\ pc[Actor] = "act"
  /\ ~nfs_cl
  /\ nfs_cl' = TRUE
  /\ UNCHANGED <<queue, rpc, actor, verdict, reply, aborted>>

\* It fails, nfs3_lookup returns RPC_SYSTEMERROR, and nobody looks at that.
ConnectFails ==
  /\ actor = "wait"
  /\ ~nfs_cl
  /\ Q!Act(Actor)
  /\ UNCHANGED <<rpc, actor, nfs_cl, verdict, reply, aborted>>

\* Faulty variant: nfs3_lookup is called with RPC_NONBLOCK_WAIT.
LookupNonblock ==
  /\ actor = "wait" /\ pc[Actor] = "act"
  /\ nfs_cl
  /\ R!CallStep(rq[Actor], {[RPC_BLOCKING_WAIT EXCEPT !.block = FALSE]})
  /\ actor' = "call"
  /\ UNCHANGED <<queue, nfs_cl, verdict, reply, aborted>>

Lookup ==
  /\ actor = "wait" /\ pc[Actor] = "act"
  /\ nfs_cl
  /\ R!CallStep(rq[Actor], {RPC_BLOCKING_WAIT})
  /\ actor' = "call"
  /\ UNCHANGED <<queue, nfs_cl, verdict, reply, aborted>>

\* nfs3_lookup has returned, whatever it returned.
LookupReturns ==
  /\ actor = "call" /\ rpc_pc = "idle"
  /\ Q!Act(Actor)
  /\ actor' = "wait"
  /\ UNCHANGED <<rpc, nfs_cl, verdict, reply, aborted>>

-----------------------------------------------------------------------------
(* The callback.                                                           *)

nfs3errtbl ==
  [ NFS3_OK          |-> "0",       NFS3ERR_PERM        |-> "EPERM",
    NFS3ERR_NOENT    |-> "ENOENT",  NFS3ERR_IO          |-> "EIO",
    NFS3ERR_NXIO     |-> "ENXIO",   NFS3ERR_ACCES       |-> "EACCES",
    NFS3ERR_EXIST    |-> "EEXIST",  NFS3ERR_XDEV        |-> "EXDEV",
    NFS3ERR_NODEV    |-> "ENODEV",  NFS3ERR_NOTDIR      |-> "ENOTDIR",
    NFS3ERR_ISDIR    |-> "EISDIR",  NFS3ERR_INVAL       |-> "EINVAL",
    NFS3ERR_FBIG     |-> "EFBIG",   NFS3ERR_NOSPC       |-> "ENOSPC",
    NFS3ERR_ROFS     |-> "EROFS",   NFS3ERR_MLINK       |-> "EMLINK",
    NFS3ERR_NOTEMPTY |-> "ENOTEMPTY", NFS3ERR_NAMETOOLONG |-> "ENAMETOOLONG",
    NFS3ERR_DQUOT    |-> "EDQUOT",  NFS3ERR_STALE       |-> "ESTALE" ]

\* The other statuses of NFSv3, NFS3ERR_BADHANDLE and so on, have no entry.
nfsstat3_to_errno(stat) ==
  IF stat \in DOMAIN nfs3errtbl THEN nfs3errtbl[stat] ELSE "EIO"

\* Faulty variants: a successful reply is answered as well; an answer that
\* has no entry in the table is dropped.
nfs3_lookup_cb_always(r, stat) ==
  /\ reply' = [reply EXCEPT ![r] = Append(@, nfsstat3_to_errno(stat))]
  /\ aborted' = (stat = Undecodable)

nfs3_lookup_cb_known(r, stat) ==
  /\ reply' = IF stat \in DOMAIN nfs3errtbl \ {"NFS3_OK"}
              THEN [reply EXCEPT ![r] = Append(@, nfs3errtbl[stat])]
              ELSE reply
  /\ aborted' = (stat = Undecodable)

\* A result that does not decode fails an assertion; a success is not answered.
nfs3_lookup_cb(r, stat) ==
  /\ reply' = IF stat \in {"NFS3_OK", Undecodable} THEN reply
              ELSE [reply EXCEPT ![r] = Append(@, nfsstat3_to_errno(stat))]
  /\ aborted' = (stat = Undecodable)

\* A step of clnttcp_nb_receive, in which a callback may be run.  The reply
\* that it is run with decides the status, the callback the request.
LookupReceive ==
  /\ actor = "call"
  /\ R!ReceiveStep
  /\ IF answered' = answered
     THEN UNCHANGED <<reply, aborted>>
     ELSE \E r \in Requests :
            /\ answered'[r] # answered[r]
            /\ nfs3_lookup_cb(r, verdict[answered'[r][Len(answered'[r])]])
  /\ UNCHANGED <<queue, actor, nfs_cl, verdict>>

-----------------------------------------------------------------------------
(* FUSE threads and server.                                                *)

\* Requests are numbered in the order in which the kernel makes them.
FuseLookup(t, r) ==
  /\ \A q \in Q!Fresh : q >= r
  /\ Q!nfscd_lookup(t, r)
  /\ UNCHANGED <<rpc, actor, nfs_cl, verdict, reply, aborted>>

FuseStep(t) ==
  /\ Q!FuseStep(t)
  /\ UNCHANGED <<rpc, actor, nfs_cl, verdict, reply, aborted>>

ServerReply ==
  /\ R!AnyReply
  /\ UNCHANGED <<queue, actor, nfs_cl, verdict, reply, aborted>>

ServerClose ==
  /\ nfs_cl
  /\ R!ServerClose
  /\ UNCHANGED <<queue, actor, nfs_cl, verdict, reply, aborted>>

ActorStep ==
  \/ MountRemotedir
  \/ Dequeue
  \/ Connect
  \/ ConnectFails
  \/ Lookup
  \/ LookupReceive
  \/ LookupReturns

Next ==
  /\ ~aborted
  /\ \/ ActorStep
     \/ \E t \in FuseThreads : \/ FuseStep(t)
                               \/ \E r \in Requests : FuseLookup(t, r)
     \/ ServerReply
     \/ ServerClose

Spec == Init /\ [][Next]_vars

\* Threads that can run do run, a thread that waits for the mutex gets it in
\* the end, and the server answers the requests it has.  Nothing need fail, no
\* connection need be closed, and the kernel need not make any request.
FairSpec ==
  /\ Spec
  /\ WF_vars(~aborted /\ ActorStep /\ faults' = faults)
  /\ SF_vars(~aborted /\ Dequeue /\ pc[Actor] = "deq_lock")
  /\ \A t \in FuseThreads :
       /\ WF_vars(~aborted /\ FuseStep(t))
       /\ SF_vars(~aborted /\ FuseStep(t) /\ pc[t] = "enq_lock")
  /\ WF_vars(~aborted /\ ServerReply /\ faults' = faults)

-----------------------------------------------------------------------------
(* Properties.                                                             *)

\* FUSE gets one answer to a request at most, and it is the error the server
\* reported for this very request; a second fuse_reply_err would use a request
\* that libfuse has freed.  This holds with failed calls, whose bytes and whose
\* callbacks stay behind and meet the calls of later requests.
AnsweredOnce ==
  \A r \in Requests :
    /\ reply[r] \in {<<>>, <<nfsstat3_to_errno(verdict[r])>>}
    /\ verdict[r] = "NFS3_OK" => reply[r] = <<>>

\* The actor answers requests in their turn: while it waits for the reply to
\* one request, it does not answer another, unless a call was cut short.
AnsweredInTurn ==
  [][\A r \in Requests : reply'[r] # reply[r] /\ R!Clean => rq[Actor] = r]_vars

Finished(r) == r \in Range(taken) /\ rq[Actor] # r

\* Why a request may remain without an answer: the actor has exited, the call
\* failed (and nfs3_lookup_actor ignored it), the server said NFS3_OK (which
\* nfs3_lookup_cb does not answer), or the connection or the daemon ended.
Excused(r) ==
  \/ actor = "exited" \/ aborted \/ eof \/ faults > 0
  \/ Finished(r) /\ (result[r] # "RPC_SUCCESS" \/ verdict[r] = "NFS3_OK")

\* Every other request that FUSE hands to the daemon is answered in the end.
EveryErrorAnswered ==
  \A r \in Requests : r \in Range(added) ~> reply[r] # <<>> \/ Excused(r)

=============================================================================
