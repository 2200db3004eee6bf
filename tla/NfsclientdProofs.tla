-------------------------- MODULE NfsclientdProofs --------------------------
(***************************************************************************)
(* Proofs about Nfsclientd: the daemon uses its queue as RequestQueue      *)
(* says, FUSE gets one answer to a request at most, and the actor answers  *)
(* in turn.  They hold for any number of FUSE threads and requests.        *)
(*                                                                         *)
(* Of the queue it is enough that the actor acts on requests of FUSE       *)
(* (Held).  What is proved of RpcClient is used here for the instance of   *)
(* it in the daemon: the two inductive invariants and the lemmas on a      *)
(* connection with one call at a time.  DInv ties them: an answer is sent  *)
(* exactly where a callback is run, and while the actor is in nfs3_lookup  *)
(* every reply to come is to the request it holds.                         *)
(***************************************************************************)
EXTENDS Nfsclientd, TLAPS

\* The default prover; a leaf that takes arithmetic cites the SMT solver.
USE ZenonT(60)

-----------------------------------------------------------------------------
(* The queue in the daemon.                                                *)

\* Every step of the daemon is one of the queue, or does not concern it.
LEMMA QueueStep == [Next]_vars => [Q!Next]_(Q!vars)
<1> SUFFICES ASSUME [Next]_vars PROVE Q!Next \/ UNCHANGED Q!vars
  OBVIOUS
<1>1. CASE UNCHANGED queue
  BY <1>1 DEF queue, Q!vars
<1>2. CASE ActorStep
  <2>1. UNCHANGED queue \/ Q!ActorStep(Actor)
    BY <1>2 DEF ActorStep, MountRemotedir, Dequeue, Connect, ConnectFails, Lookup,
       LookupReceive, LookupReturns, Q!ActorStep
  <2> QED  BY <1>1, <2>1 DEF Q!Next
<1>3. ASSUME NEW t \in FuseThreads, FuseStep(t) \/ \E r \in Requests : FuseLookup(t, r)
      PROVE  Q!Next
  BY <1>3 DEF FuseStep, FuseLookup, Q!Next
<1>4. CASE ServerReply \/ ServerClose
  BY <1>1, <1>4 DEF ServerReply, ServerClose
<1>5. CASE UNCHANGED vars
  BY <1>1, <1>5 DEF vars
<1> QED  BY <1>2, <1>3, <1>4, <1>5 DEF Next

\* The daemon uses the queue as RequestQueue says: threads and actor take no step
\* on it that the queue on its own would not allow.
THEOREM DaemonQueue == Spec => Q!Spec
<1>1. Init => Q!Init
  BY DEF Init
<1> QED  BY <1>1, QueueStep, PTL DEF Spec, Q!Spec

\* The actor acts on requests of FUSE: what is linked was filled in by a FUSE
\* thread, and what is unlinked was at the front of the list.
Held ==
  /\ DOMAIN pc = FuseThreads \cup {Actor} /\ DOMAIN rq = FuseThreads \cup {Actor}
  /\ md_rq \in Seq(Requests)
  /\ \A t \in FuseThreads \cup {Actor} :
       pc[t] \in {"enq_lock", "add_tail", "deq_unlock", "act"} => rq[t] \in Requests

\* A step of one thread, as far as it concerns Held.
LEMMA ThreadHeld ==
  ASSUME Held, NEW t \in FuseThreads \cup {Actor}, NEW p, NEW r,
         pc' = [pc EXCEPT ![t] = p], (rq' = rq /\ r = rq[t]) \/ rq' = [rq EXCEPT ![t] = r],
         md_rq' \in Seq(Requests),
         p \in {"enq_lock", "add_tail", "deq_unlock", "act"} => r \in Requests
  PROVE  Held'
BY DEF Held

\* Every step of the queue keeps it.
LEMMA HeldHolds == Spec => []Held
<1>1. Q!Init => Held
  BY SMTT(30) DEF Q!Init, Q!Threads, Held
<1>2. ASSUME Held, NEW t \in FuseThreads, NEW r \in Requests, Q!nfscd_lookup(t, r) PROVE Held'
  BY <1>2, ThreadHeld DEF Q!nfscd_lookup, Q!Goto, Held
<1>3. ASSUME Held, NEW t \in FuseThreads, Q!FuseStep(t) PROVE Held'
  <2>1. CASE Q!EnqueueLock(t)
    BY <1>3, <2>1, ThreadHeld DEF Q!EnqueueLock, Q!Goto, Held
  <2>2. CASE Q!EnqueueAdd(t)
    BY <1>3, <2>2, ThreadHeld, SMTT(30) DEF Q!EnqueueAdd, Q!Goto, Held
  <2>3. CASE Q!EnqueuePost(t) \/ Q!EnqueueUnlock(t)
    BY <1>3, <2>3, ThreadHeld DEF Q!EnqueuePost, Q!EnqueueUnlock, Q!Goto, Held
  <2> QED  BY <1>3, <2>1, <2>2, <2>3 DEF Q!FuseStep
<1>4. ASSUME Held, Q!ActorStep(Actor) PROVE Held'
  <2>1. CASE Q!DequeueWait(Actor) \/ Q!DequeueLock(Actor)
    BY <1>4, <2>1, ThreadHeld DEF Q!DequeueWait, Q!DequeueLock, Q!Goto, Held
  <2>2. CASE Q!DequeueFirst(Actor)
    BY <1>4, <2>2, ThreadHeld DEF Q!DequeueFirst, Q!Goto, Held
  <2>3. CASE Q!DequeueDel(Actor)
    <3>1. CASE md_rq # <<>> /\ rq[Actor] = Head(md_rq)
      <4>1. Head(md_rq) \in Requests /\ Tail(md_rq) \in Seq(Requests)
        BY <1>4, <3>1, SMTT(30) DEF Held
      <4>2. /\ pc' = [pc EXCEPT ![Actor] = "deq_unlock"]
            /\ rq' = rq /\ md_rq' = Tail(md_rq)
        BY <2>3, <3>1 DEF Q!DequeueDel, Q!Goto
      <4> QED  BY <1>4, <3>1, <4>1, <4>2 DEF Held
    <3>2. CASE ~(md_rq # <<>> /\ rq[Actor] = Head(md_rq))
      BY <1>4, <2>3, <3>2, ThreadHeld DEF Q!DequeueDel, Q!Goto, Held
    <3> QED  BY <3>1, <3>2
  <2>4. CASE Q!DequeueUnlock(Actor) \/ Q!Act(Actor)
    BY <1>4, <2>4, ThreadHeld DEF Q!DequeueUnlock, Q!Act, Q!Goto, Held
  <2> QED  BY <1>4, <2>1, <2>2, <2>3, <2>4 DEF Q!ActorStep
<1>5. ASSUME Held, UNCHANGED Q!vars PROVE Held'
  BY <1>5 DEF Held, Q!vars
<1>6. Held /\ [Q!Next]_(Q!vars) => Held'
  BY <1>2, <1>3, <1>4, <1>5 DEF Q!Next
<1> QED  BY <1>1, <1>6, DaemonQueue, PTL DEF Q!Spec

-----------------------------------------------------------------------------
(* The RPC client in the daemon.                                           *)

\* What is proved of RpcClient, for the instance of it in the daemon.
P == INSTANCE RpcClientProofs WITH Calls <- Requests, Flags <- {RPC_BLOCKING_WAIT},
                                   pc <- rpc_pc

\* The constants are as it requires.
LEMMA ClientConstants ==
  /\ P!IsFiniteSet(Requests) /\ Requests \subseteq Nat
  /\ Rooms \subseteq [snd : Nat \ {0}, rcv : Nat \ {0}]
  /\ {RPC_BLOCKING_WAIT} \subseteq [block : BOOLEAN, tx : BOOLEAN, rx : BOOLEAN]
  /\ XidMod \in Nat \ {0}
  /\ FirstXids \subseteq 0 .. XidMod - 1
  /\ FaultKinds \subseteq {"memory", "write", "read", "reply"}
  /\ MaxFaults \in Nat
  /\ Garbled \notin Requests
<1>1. P!IsFiniteSet(Requests)
  BY DaemonAssumption DEF DaemonAssumption, P!IsFiniteSet, IsFiniteSet
<1> QED  BY <1>1, DaemonAssumption, SMTT(30) DEF DaemonAssumption, RPC_BLOCKING_WAIT

\* The steps of the instance R, in the daemon, are those of P, about which the
\* lemmas of RpcClientProofs are: the steps of clnttcp_nb_call,
LEMMA CallSame ==
  ASSUME NEW c, NEW flags, R!CallStep(c, flags)
  PROVE  P!CallStep(c, flags)
BY DEF R!CallStep, P!CallStep, R!CallNoMem, P!CallNoMem, R!CallNotEncoded, P!CallNotEncoded,
   R!CallNotSent, P!CallNotSent, R!Call, P!Call, R!Fault, P!Fault, R!Returned, P!Returned,
   R!Register, P!Register, R!NotRegistered, P!NotRegistered, R!Encoded, P!Encoded,
   R!Send, P!Send, R!NextXid, P!NextXid, R!Fitting, P!Fitting, R!Sendable, P!Sendable, R!WriteFails, P!WriteFails, R!Enter, P!Enter,
   R!Accepted, P!Accepted, R!ct, P!ct, R!net, P!net, R!receive, P!receive

\* of clnttcp_nb_receive,
LEMMA ReceiveSame == R!ReceiveStep => P!ReceiveStep
BY DEF R!ReceiveStep, P!ReceiveStep, R!Write, P!Write, R!Flush, P!Flush, R!AfterFlush,
   P!AfterFlush, R!ReadPart, P!ReadPart, R!ReadReplies, P!ReadReplies, R!ReadNothing,
   P!ReadNothing, R!Exhausted, P!Exhausted, R!Dispatch, P!Dispatch, R!Return, P!Return,
   R!Send, P!Send, R!Fitting,
   P!Fitting, R!Sendable, P!Sendable, R!WriteFails, P!WriteFails, R!Fault, P!Fault,
   R!Returned, P!Returned, R!Accepted, P!Accepted, R!Stay, P!Stay, R!Leave, P!Leave,
   R!BlockingWait, P!BlockingWait, R!Persistent, P!Persistent, R!call_user_cb,
   P!call_user_cb, R!RunNone, P!RunNone, R!Unclaimed, P!Unclaimed, R!ct, P!ct, R!net, P!net,
   R!receive, P!receive, R!history, P!history

\* and of the server.
LEMMA ServerSame ==
  /\ R!AnyReply => P!AnyReply
  /\ R!ServerClose => P!ServerClose
BY DEF R!AnyReply, P!AnyReply, R!ServerReply, P!ServerReply, R!ServerClose, P!ServerClose,
   R!Without, P!Without, R!Fault, P!Fault, R!ct, P!ct, R!receive, P!receive,
   R!history, P!history

\* So are the initial states,
LEMMA InitSame == R!Init => P!Init
BY DEF R!Init, P!Init, R!BlockingWait, P!BlockingWait

\* and what it means that no call was cut short.
LEMMA CleanSame == R!Clean <=> P!Clean
BY DEF R!Clean, P!Clean

-----------------------------------------------------------------------------
(* The actor and its connection.                                           *)

\* The connections have more xids than there are requests.
XidsSuffice == Cardinality(Requests) <= XidMod

\* What a callback sends to FUSE for each request it is run for.
Answer(r) ==
  IF answered[r] = <<>> \/ verdict[r] \in {"NFS3_OK", Undecodable}
  THEN <<>> ELSE <<nfsstat3_to_errno(verdict[r])>>

\* The answers are those of the callbacks that have run.  While the actor is in
\* nfs3_lookup, the replies to come are to its request; otherwise none is to come.
DInv ==
  /\ P!IInv /\ P!CInv
  /\ reply = [r \in Requests |-> Answer(r)]
  /\ IF actor = "call"
     THEN pc[Actor] = "act" /\ P!OneCall(rq[Actor])
     ELSE P!Quiet /\ rpc_pc = "idle" /\ flag = RPC_BLOCKING_WAIT

\* They suffice for the RPC client.
LEMMA SufficeSame == XidsSuffice => P!XidsSuffice
BY DEF XidsSuffice, P!XidsSuffice, Cardinality, P!Cardinality

\* The steps that do not concern the connection.
LEMMA RpcUnchanged ==
  ASSUME UNCHANGED rpc
  PROVE  /\ [P!Step]_(P!vars)
         /\ P!Quiet => P!Quiet'
         /\ \A c : P!OneCall(c) => P!OneCall(c)'
<1>1. UNCHANGED P!vars
  BY DEF rpc, P!vars, P!ct, P!net, P!receive, P!history
<1>2. P!Quiet => P!Quiet'
  BY DEF rpc, P!Quiet, P!Clean, P!Answers, P!Range
<1>3. \A c : P!OneCall(c) => P!OneCall(c)'
  BY <1>2, SMTT(30) DEF rpc, P!OneCall, P!Clean, P!Answers, P!Range, P!BlockingWait
<1> QED  BY <1>1, <1>2, <1>3

\* Whatever is done on the connection keeps its invariants.
LEMMA RpcKept ==
  ASSUME XidsSuffice, P!IInv, P!CInv, [P!Step]_(P!vars)
  PROVE  P!IInv' /\ P!CInv'
<1>1. P!XidsSuffice
  BY SufficeSame
<1>2. P!IInv'
  BY <1>1, P!StepIInv, ClientConstants
<1>3. P!CInv'
  BY <1>1, <1>2, P!StepCInv, ClientConstants
<1> QED  BY <1>2, <1>3

\* No handle, no call, no answer.
LEMMA InitDInv == Init => DInv
<1> SUFFICES ASSUME Init PROVE DInv  OBVIOUS
<1>1. P!Init
  BY InitSame DEF Init
<1>2. P!IInv /\ P!CInv
  BY <1>1, P!InitIInv, P!InitCInv, ClientConstants
<1>3. P!Quiet /\ rpc_pc = "idle" /\ flag = RPC_BLOCKING_WAIT
  BY <1>1, SMTT(30) DEF P!Init, P!Quiet, P!Answers, P!Range, P!BlockingWait, RPC_BLOCKING_WAIT
<1>4. reply = [r \in Requests |-> Answer(r)]
  <2>1. answered = [r \in Requests |-> <<>>] /\ reply = [r \in Requests |-> <<>>]
    BY <1>1 DEF P!Init, Init
  <2> QED  BY <2>1 DEF Answer
<1> QED  BY <1>2, <1>3, <1>4 DEF DInv, Init

\* Steps of FUSE threads: the actor holds what it held.
LEMMA FuseKeeps ==
  ASSUME Held, NEW t \in FuseThreads, FuseStep(t) \/ \E r \in Requests : FuseLookup(t, r)
  PROVE  pc'[Actor] = pc[Actor] /\ rq'[Actor] = rq[Actor]
<1>1. t # Actor
  BY DaemonAssumption DEF DaemonAssumption
<1>2. \E p : pc' = [pc EXCEPT ![t] = p]
  BY DEF FuseStep, FuseLookup, Q!FuseStep, Q!nfscd_lookup, Q!EnqueueLock, Q!EnqueueAdd,
     Q!EnqueuePost, Q!EnqueueUnlock, Q!Goto
<1>3. rq' = rq \/ \E r : rq' = [rq EXCEPT ![t] = r]
  BY DEF FuseStep, FuseLookup, Q!FuseStep, Q!nfscd_lookup, Q!EnqueueLock, Q!EnqueueAdd,
     Q!EnqueuePost, Q!EnqueueUnlock
<1> QED  BY <1>1, <1>2, <1>3 DEF Held

\* A step that leaves the connection alone, and the actor where it is or, without
\* a call, elsewhere.
LEMMA QuietStep ==
  ASSUME XidsSuffice, DInv, UNCHANGED <<rpc, verdict, reply>>,
         \/ actor # "call" /\ actor' # "call"
         \/ actor' = actor /\ pc'[Actor] = pc[Actor] /\ rq'[Actor] = rq[Actor]
  PROVE  DInv'
<1>1. P!IInv' /\ P!CInv'
  BY RpcUnchanged, RpcKept DEF DInv
<1>2. reply' = [r \in Requests |-> Answer(r)']
  BY DEF DInv, Answer, rpc, nfsstat3_to_errno
<1>3. CASE actor = "call"
  <2>1. pc[Actor] = "act" /\ P!OneCall(rq[Actor]) /\ actor' = "call"
        /\ pc'[Actor] = "act" /\ rq'[Actor] = rq[Actor]
    BY <1>3 DEF DInv
  <2>2. PICK c : c = rq[Actor]
    OBVIOUS
  <2>3. P!OneCall(c)'
    BY <2>1, <2>2, RpcUnchanged
  <2>4. P!OneCall(rq[Actor])'
    BY <2>1, <2>2, <2>3 DEF P!OneCall
  <2> QED  BY <1>1, <1>2, <2>1, <2>4 DEF DInv
<1>4. CASE actor # "call"
  <2>1. P!Quiet' /\ rpc_pc' = "idle" /\ flag' = RPC_BLOCKING_WAIT /\ actor' # "call"
    BY <1>4, RpcUnchanged DEF DInv, rpc
  <2> QED  BY <1>1, <1>2, <2>1 DEF DInv, RPC_BLOCKING_WAIT
<1> QED  BY <1>3, <1>4

\* The actor calls.
LEMMA LookupKeeps ==
  ASSUME XidsSuffice, Held, DInv, Lookup
  PROVE  DInv'
<1>1. actor # "call" /\ pc[Actor] = "act" /\ actor' = "call" /\ UNCHANGED <<queue, verdict, reply>>
  BY DEF Lookup
<1>2. PICK c \in Requests : c = rq[Actor]
  BY <1>1 DEF Held
<1>3. P!CallStep(c, {RPC_BLOCKING_WAIT})
  BY <1>2, CallSame DEF Lookup
<1>4. [P!Step]_(P!vars)
  BY <1>3 DEF P!Step
<1>5. P!IInv' /\ P!CInv'
  BY <1>4, RpcKept DEF DInv
<1>6. answered' = answered
  BY <1>3 DEF P!CallStep, P!CallNoMem, P!CallNotEncoded, P!CallNotSent, P!Call
<1>7. reply' = [r \in Requests |-> Answer(r)']
  BY <1>1, <1>6 DEF DInv, Answer, nfsstat3_to_errno
<1>8. P!OneCall(c)'
  <2>1. RPC_BLOCKING_WAIT = P!BlockingWait
    BY DEF P!BlockingWait, RPC_BLOCKING_WAIT
  <2>2. P!Quiet /\ flag = P!BlockingWait
    BY <1>1, <2>1 DEF DInv
  <2>3. P!CallStep(c, {P!BlockingWait}) /\ P!BlockingWait \in {RPC_BLOCKING_WAIT}
    BY <1>3, <2>1
  <2>4. P!XidsSuffice /\ P!IInv /\ P!CInv
    BY SufficeSame DEF DInv
  <2> QED  BY <2>2, <2>3, <2>4, P!OneCallStarts, ClientConstants
<1>9. rq'[Actor] = c /\ pc'[Actor] = "act"
  BY <1>1, <1>2 DEF queue
<1>10. P!OneCall(rq[Actor])'
  BY <1>8, <1>9 DEF P!OneCall
<1> QED  BY <1>1, <1>5, <1>7, <1>9, <1>10 DEF DInv

\* What a step of clnttcp_nb_receive does to the answers.
LEMMA CallbackAnswers ==
  ASSUME DInv, LookupReceive
  PROVE  \/ UNCHANGED <<answered, reply>>
         \/ \E r \in Requests :
              /\ P!Dispatch
              /\ r = Head(batch).call /\ Head(batch) \in P!Range(batch)
              /\ answered[r] = <<>> /\ answered' = [answered EXCEPT ![r] = <<r>>]
              /\ nfs3_lookup_cb(r, verdict[r])
<1>1. P!IInv /\ [P!Step]_(P!vars)
  BY ReceiveSame DEF LookupReceive, DInv, P!Step
<1>2. CASE answered' = answered
  BY <1>2 DEF LookupReceive
<1>3. CASE answered' # answered
  <2>1. PICK r \in Requests :
          /\ P!Dispatch
          /\ r = Head(batch).call /\ Head(batch) \in P!Range(batch)
          /\ answered[r] = <<>> /\ answered' = [answered EXCEPT ![r] = <<r>>]
    BY <1>1, <1>3, P!CallbackStep, ClientConstants
  <2>2. PICK q \in Requests :
          /\ answered'[q] # answered[q]
          /\ nfs3_lookup_cb(q, verdict[answered'[q][Len(answered'[q])]])
    BY <1>3 DEF LookupReceive
  <2>3. DOMAIN answered = Requests
    BY <1>1 DEF P!IInv, P!Types
  <2>4. q = r /\ answered'[q] = <<r>>
    BY <2>1, <2>2, <2>3
  <2>5. answered'[q][Len(answered'[q])] = r
    BY <2>4, SMTT(30)
  <2> QED  BY <2>1, <2>2, <2>4, <2>5
<1> QED  BY <1>2, <1>3

\* The actor waits in nfs3_lookup.
LEMMA ReceiveKeeps ==
  ASSUME XidsSuffice, Held, DInv, LookupReceive
  PROVE  DInv'
<1>1. actor = "call" /\ pc[Actor] = "act" /\ P!OneCall(rq[Actor])
      /\ UNCHANGED <<queue, actor, verdict>>
  BY DEF LookupReceive, DInv
<1>2. PICK c \in Requests : c = rq[Actor]
  BY <1>1 DEF Held
<1>3. P!ReceiveStep
  BY ReceiveSame DEF LookupReceive
<1>4. P!IInv' /\ P!CInv'
  BY <1>3, RpcKept DEF DInv, P!Step
<1>5. P!OneCall(c)'
  <2>1. P!OneCall(c)
    BY <1>1, <1>2
  <2> QED  BY <2>1, <1>3, P!OneCallGoesOn, ClientConstants DEF DInv
<1>6. rq'[Actor] = c /\ pc'[Actor] = "act" /\ actor' = "call"
  BY <1>1, <1>2 DEF queue
<1>7. P!OneCall(rq[Actor])'
  BY <1>5, <1>6 DEF P!OneCall
<1>8. reply' = [r \in Requests |-> Answer(r)']
  <2>1. CASE UNCHANGED <<answered, reply>>
    BY <1>1, <2>1 DEF DInv, Answer, nfsstat3_to_errno
  <2>2. ASSUME NEW r \in Requests, answered[r] = <<>>,
               answered' = [answered EXCEPT ![r] = <<r>>],
               nfs3_lookup_cb(r, verdict[r])
        PROVE  reply' = [q \in Requests |-> Answer(q)']
    <3>1. DOMAIN answered = Requests /\ reply = [q \in Requests |-> Answer(q)]
      BY DEF DInv, P!IInv, P!Types
    <3>2. reply[r] = <<>> /\ DOMAIN reply = Requests
      BY <2>2, <3>1 DEF Answer
    <3>3. \A q \in Requests : q # r => Answer(q)' = Answer(q)
      BY <1>1, <2>2, <3>1 DEF Answer, nfsstat3_to_errno
    <3>4. answered'[r] # <<>>
      BY <2>2, <3>1
    <3>5. CASE verdict[r] \in {"NFS3_OK", Undecodable}
      <4>1. Answer(r)' = <<>>
        BY <1>1, <3>5 DEF Answer
      <4>2. reply' = reply
        BY <2>2, <3>5 DEF nfs3_lookup_cb
      <4> QED  BY <3>1, <3>2, <3>3, <4>1, <4>2
    <3>6. CASE verdict[r] \notin {"NFS3_OK", Undecodable}
      <4>1. Answer(r)' = <<nfsstat3_to_errno(verdict[r])>>
        BY <1>1, <3>4, <3>6 DEF Answer, nfsstat3_to_errno
      <4>2. reply' = [reply EXCEPT ![r] = Append(@, nfsstat3_to_errno(verdict[r]))]
        BY <2>2, <3>6 DEF nfs3_lookup_cb
      <4>3. Append(reply[r], nfsstat3_to_errno(verdict[r])) = <<nfsstat3_to_errno(verdict[r])>>
        BY <3>2, SMTT(30)
      <4> QED  BY <3>1, <3>2, <3>3, <4>1, <4>2, <4>3
    <3> QED  BY <3>5, <3>6
  <2> QED  BY <2>1, <2>2, CallbackAnswers
<1> QED  BY <1>4, <1>6, <1>7, <1>8 DEF DInv

\* The server answers or closes.
LEMMA ServerKeeps ==
  ASSUME XidsSuffice, Held, DInv, ServerReply \/ ServerClose
  PROVE  DInv'
<1>1. P!AnyReply \/ P!ServerClose
  BY ServerSame DEF ServerReply, ServerClose
<1>2. UNCHANGED <<queue, actor, verdict, reply>>
  BY DEF ServerReply, ServerClose
<1>3. P!IInv' /\ P!CInv'
  BY <1>1, RpcKept DEF DInv, P!Step
<1>4. UNCHANGED <<answered, rpc_pc, flag>>
  BY <1>1 DEF P!AnyReply, P!ServerReply, P!ServerClose, P!receive, P!history
<1>5. reply' = [r \in Requests |-> Answer(r)']
  BY <1>2, <1>4 DEF DInv, Answer, nfsstat3_to_errno
<1>6. (P!Quiet => P!Quiet') /\ \A c \in Requests : P!OneCall(c) => P!OneCall(c)'
  BY <1>1, <1>3, P!OneCallServer, ClientConstants DEF DInv
<1>7. CASE actor = "call"
  <2>1. PICK c \in Requests : c = rq[Actor]
    BY <1>7 DEF Held, DInv
  <2>2. P!OneCall(c)
    BY <1>7, <2>1 DEF DInv
  <2>3. P!OneCall(c)'
    BY <1>6, <2>2
  <2>4. rq'[Actor] = c /\ pc'[Actor] = "act" /\ actor' = "call"
    BY <1>2, <1>7, <2>1 DEF queue, DInv
  <2>5. P!OneCall(rq[Actor])'
    BY <2>3, <2>4 DEF P!OneCall
  <2> QED  BY <1>3, <1>5, <2>4, <2>5 DEF DInv
<1>8. CASE actor # "call"
  <2>1. P!Quiet' /\ rpc_pc' = "idle" /\ flag' = RPC_BLOCKING_WAIT /\ actor' # "call"
    BY <1>2, <1>4, <1>6, <1>8 DEF DInv
  <2> QED  BY <1>3, <1>5, <2>1 DEF DInv, RPC_BLOCKING_WAIT
<1> QED  BY <1>7, <1>8

\* nfs3_lookup returns: nothing is left on the connection.
LEMMA ReturnsKeeps ==
  ASSUME XidsSuffice, DInv, LookupReturns
  PROVE  DInv'
<1>1. actor = "call" /\ rpc_pc = "idle" /\ actor' = "wait" /\ UNCHANGED <<rpc, verdict, reply>>
  BY DEF LookupReturns
<1>2. P!IInv' /\ P!CInv'
  BY <1>1, RpcUnchanged, RpcKept DEF DInv
<1>3. reply' = [r \in Requests |-> Answer(r)']
  BY <1>1 DEF DInv, Answer, rpc, nfsstat3_to_errno
<1>4. P!Quiet /\ flag = RPC_BLOCKING_WAIT
  BY <1>1 DEF DInv, P!OneCall, P!BlockingWait, RPC_BLOCKING_WAIT
<1>5. P!Quiet' /\ flag' = RPC_BLOCKING_WAIT /\ rpc_pc' = "idle"
  BY <1>1, <1>4, RpcUnchanged DEF rpc
<1> QED  BY <1>1, <1>2, <1>3, <1>5 DEF DInv, RPC_BLOCKING_WAIT

\* Every step of the daemon keeps the invariant.
LEMMA StepDInv ==
  ASSUME XidsSuffice, Held, DInv, [Next]_vars
  PROVE  DInv'
<1>1. CASE MountRemotedir
  BY <1>1, QuietStep DEF MountRemotedir
<1>2. CASE Dequeue \/ Connect \/ ConnectFails
  BY <1>2, QuietStep DEF Dequeue, Connect, ConnectFails
<1>3. CASE Lookup
  BY <1>3, LookupKeeps
<1>4. CASE LookupReceive
  BY <1>4, ReceiveKeeps
<1>5. CASE LookupReturns
  BY <1>5, ReturnsKeeps
<1>6. ASSUME NEW t \in FuseThreads, FuseStep(t) \/ \E r \in Requests : FuseLookup(t, r)
      PROVE  DInv'
  <2>1. UNCHANGED <<rpc, verdict, reply, actor>>
    BY <1>6 DEF FuseStep, FuseLookup
  <2>2. pc'[Actor] = pc[Actor] /\ rq'[Actor] = rq[Actor]
    BY <1>6, FuseKeeps
  <2> QED  BY <2>1, <2>2, QuietStep
<1>7. CASE ServerReply \/ ServerClose
  BY <1>7, ServerKeeps
<1>8. CASE UNCHANGED vars
  BY <1>8, QuietStep DEF vars, queue
<1> QED  BY <1>1, <1>2, <1>3, <1>4, <1>5, <1>6, <1>7, <1>8 DEF Next, ActorStep

\* It holds in every state.
LEMMA DInvHolds ==
  ASSUME XidsSuffice
  PROVE  Spec => []DInv
<1>1. Held /\ DInv /\ [Next]_vars => DInv'
  BY StepDInv
<1> QED  BY <1>1, InitDInv, HeldHolds, PTL DEF Spec

\* FUSE gets one answer to a request at most, with the server's error for that
\* request, whatever the number of threads and requests, in whichever order calls
\* fail and the server answers or closes.
THEOREM AnsweredOnceHolds ==
  ASSUME XidsSuffice
  PROVE  Spec => []AnsweredOnce
<1>1. DInv => AnsweredOnce
  BY DEF DInv, AnsweredOnce, Answer
<1> QED  BY <1>1, DInvHolds, PTL

\* The actor answers requests in their turn: no answer is sent but to the request
\* that it holds, as long as no call was cut short.
THEOREM AnsweredInTurnHolds ==
  ASSUME XidsSuffice
  PROVE  Spec => AnsweredInTurn
<1>1. ASSUME DInv, Next, NEW r \in Requests, reply'[r] # reply[r], R!Clean
      PROVE  rq[Actor] = r
  <2>1. LookupReceive
    BY <1>1 DEF Next, ActorStep, MountRemotedir, Dequeue, Connect, ConnectFails, Lookup,
       LookupReturns, FuseStep, FuseLookup, ServerReply, ServerClose
  <2>2. PICK q \in Requests :
          /\ q = Head(batch).call /\ Head(batch) \in P!Range(batch)
          /\ nfs3_lookup_cb(q, verdict[q])
    BY <1>1, <2>1, CallbackAnswers
  <2>3. q = r
    BY <1>1, <2>2 DEF nfs3_lookup_cb, DInv
  <2>4. P!OneCall(rq[Actor]) /\ P!Clean
    BY <1>1, <2>1, CleanSame DEF LookupReceive, DInv
  <2>5. Head(batch).call = rq[Actor]
    BY <2>2, <2>4 DEF P!OneCall, P!Answers
  <2> QED  BY <2>2, <2>3, <2>5
<1>2. DInv /\ [Next]_vars
        => [\A r \in Requests : reply'[r] # reply[r] /\ R!Clean => rq[Actor] = r]_vars
  BY <1>1
<1> QED  BY <1>2, DInvHolds, PTL DEF Spec, AnsweredInTurn
=============================================================================
