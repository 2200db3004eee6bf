---------------------------- MODULE RequestQueue ----------------------------
(***************************************************************************)
(* The metadata request queue of nfsclientd (src/src/nfscd_ops.c): FUSE    *)
(* session threads enqueue requests, actor threads dequeue them.  The list *)
(* md_rq is guarded by the mutex md_lock; the semaphore md_notify counts   *)
(* the requests an actor may still claim.  Every call that another thread  *)
(* can observe (sem_wait, pthread_mutex_lock, the list operation, sem_post *)
(* and pthread_mutex_unlock) is a step of its own.                         *)
(*                                                                         *)
(* The data queue (rw_rq, rw_lock, rw_notify) is the same code under other *)
(* names and has neither producer nor consumer yet.                        *)
(***************************************************************************)
EXTENDS Integers, Sequences, FiniteSets, Functions

CONSTANTS
  FuseThreads,  \* the threads of fuse_session_loop_mt
  Actors,       \* the actor threads
  Requests,     \* the requests the kernel will make; each is malloc'ed afresh
  NoThread,     \* md_lock is free
  NoRequest     \* rq == NULL

ASSUME ThreadsAssumption ==
  /\ IsFiniteSet(FuseThreads)
  /\ IsFiniteSet(Actors)
  /\ FuseThreads \cap Actors = {}
  /\ NoThread \notin FuseThreads \cup Actors
  /\ NoRequest \notin Requests

VARIABLES
  md_notify,  \* value of the semaphore
  md_lock,    \* the thread that holds the mutex
  md_rq,      \* the list, first request first
  pc,         \* where each thread is
  rq,         \* the local variable rq of each thread
  added,      \* history: requests in the order flist_add_tail linked them
  taken       \* history: requests in the order flist_del unlinked them

vars == <<md_notify, md_lock, md_rq, pc, rq, added, taken>>

Threads == FuseThreads \cup Actors

Goto(t, from, to) ==
  /\ pc[t] = from
  /\ pc' = [pc EXCEPT ![t] = to]

\* pthread_mutex_lock and pthread_mutex_unlock.
Lock(t) ==
  /\ md_lock = NoThread
  /\ md_lock' = t

Unlock(t) ==
  /\ md_lock = t
  /\ md_lock' = NoThread

-----------------------------------------------------------------------------
(* init_nfsclient_queues, with every thread outside of the queue code.     *)

Init ==
  /\ md_notify = 0
  /\ md_lock = NoThread
  /\ md_rq = <<>>
  /\ pc = [t \in Threads |-> IF t \in Actors THEN "sem_wait" ELSE "fuse"]
  /\ rq = [t \in Threads |-> NoRequest]
  /\ added = <<>>
  /\ taken = <<>>

(* nfscd_lookup fills a fresh request and calls the enqueue function.      *)

Fresh == Requests \ (Range(added) \cup {rq[t] : t \in FuseThreads})

nfscd_lookup(t, r) ==
  /\ r \in Fresh
  /\ Goto(t, "fuse", "enq_lock")
  /\ rq' = [rq EXCEPT ![t] = r]
  /\ UNCHANGED <<md_notify, md_lock, md_rq, added, taken>>

(* nfscd_enqueue_metadata_request.                                         *)

EnqueueLock(t) ==
  /\ Goto(t, "enq_lock", "add_tail")
  /\ Lock(t)
  /\ UNCHANGED <<md_notify, md_rq, rq, added, taken>>

\* Faulty variant: flist_add links the request at the front.
EnqueueAddFront(t) ==
  /\ Goto(t, "add_tail", "sem_post")
  /\ md_rq' = <<rq[t]>> \o md_rq
  /\ added' = Append(added, rq[t])
  /\ UNCHANGED <<md_notify, md_lock, rq, taken>>

EnqueueAdd(t) ==
  /\ Goto(t, "add_tail", "sem_post")
  /\ md_rq' = Append(md_rq, rq[t])
  /\ added' = Append(added, rq[t])
  /\ UNCHANGED <<md_notify, md_lock, rq, taken>>

\* Faulty variant: actors are only notified when the list was empty.
EnqueuePostIfFirst(t) ==
  /\ Goto(t, "sem_post", "enq_unlock")
  /\ md_notify' = IF Len(md_rq) = 1 THEN md_notify + 1 ELSE md_notify
  /\ UNCHANGED <<md_lock, md_rq, rq, added, taken>>

EnqueuePost(t) ==
  /\ Goto(t, "sem_post", "enq_unlock")
  /\ md_notify' = md_notify + 1
  /\ UNCHANGED <<md_lock, md_rq, rq, added, taken>>

EnqueueUnlock(t) ==
  /\ Goto(t, "enq_unlock", "fuse")
  /\ Unlock(t)
  /\ rq' = [rq EXCEPT ![t] = NoRequest]
  /\ UNCHANGED <<md_notify, md_rq, added, taken>>

(* nfscd_dequeue_metadata_request, called in the loop of the actor.        *)

\* Faulty variant: sem_trywait, whose result is ignored.
DequeueTryWait(a) ==
  /\ Goto(a, "sem_wait", "deq_lock")
  /\ md_notify' = IF md_notify > 0 THEN md_notify - 1 ELSE 0
  /\ UNCHANGED <<md_lock, md_rq, rq, added, taken>>

DequeueWait(a) ==
  /\ Goto(a, "sem_wait", "deq_lock")
  /\ md_notify > 0
  /\ md_notify' = md_notify - 1
  /\ UNCHANGED <<md_lock, md_rq, rq, added, taken>>

\* Faulty variant: the list is used without the mutex.
DequeueNoLock(a) ==
  /\ Goto(a, "deq_lock", "first")
  /\ md_lock' = a
  /\ UNCHANGED <<md_notify, md_rq, rq, added, taken>>

DequeueLock(a) ==
  /\ Goto(a, "deq_lock", "first")
  /\ Lock(a)
  /\ UNCHANGED <<md_notify, md_rq, rq, added, taken>>

\* flist_first of an empty list is the list head itself: the request would
\* be whatever memory surrounds the head.
DequeueFirst(a) ==
  /\ Goto(a, "first", "del")
  /\ rq' = [rq EXCEPT ![a] = IF md_rq = <<>> THEN NoRequest ELSE Head(md_rq)]
  /\ UNCHANGED <<md_notify, md_lock, md_rq, added, taken>>

\* Entries leave the list at its front only.  An entry that is not at the
\* front any more has NULL links, and unlinking it again kills the process.
DequeueDel(a) ==
  IF md_rq # <<>> /\ rq[a] = Head(md_rq)
  THEN /\ Goto(a, "del", "deq_unlock")
       /\ md_rq' = Tail(md_rq)
       /\ taken' = Append(taken, rq[a])
       /\ UNCHANGED <<md_notify, md_lock, rq, added>>
  ELSE /\ Goto(a, "del", "crashed")
       /\ UNCHANGED <<md_notify, md_lock, md_rq, rq, added, taken>>

DequeueUnlock(a) ==
  /\ Goto(a, "deq_unlock", "act")
  /\ Unlock(a)
  /\ UNCHANGED <<md_notify, md_rq, rq, added, taken>>

(* nfs3_act_on_request, after which the actor dequeues again.              *)

Act(a) ==
  /\ Goto(a, "act", "sem_wait")
  /\ rq' = [rq EXCEPT ![a] = NoRequest]
  /\ UNCHANGED <<md_notify, md_lock, md_rq, added, taken>>

FuseStep(t) ==
  \/ EnqueueLock(t)
  \/ EnqueueAdd(t)
  \/ EnqueuePost(t)
  \/ EnqueueUnlock(t)

ActorStep(a) ==
  \/ DequeueWait(a)
  \/ DequeueLock(a)
  \/ DequeueFirst(a)
  \/ DequeueDel(a)
  \/ DequeueUnlock(a)
  \/ Act(a)

Next ==
  \/ \E t \in FuseThreads : \E r \in Requests : nfscd_lookup(t, r)
  \/ \E t \in FuseThreads : FuseStep(t)
  \/ \E a \in Actors : ActorStep(a)

Spec == Init /\ [][Next]_vars

\* Threads that can run do run, and a thread that finds the mutex free again
\* and again gets it in the end.  The kernel need not make any request.
Fairness ==
  /\ \A t \in FuseThreads : WF_vars(FuseStep(t)) /\ SF_vars(EnqueueLock(t))
  /\ \A a \in Actors : WF_vars(ActorStep(a)) /\ SF_vars(DequeueLock(a))

FairSpec == Spec /\ Fairness

-----------------------------------------------------------------------------
(* Properties.                                                             *)

PCs == {"fuse", "enq_lock", "add_tail", "sem_post", "enq_unlock", "sem_wait",
        "deq_lock", "first", "del", "deq_unlock", "act", "crashed"}

\* The variables of the queue code have the types of the C declarations.
TypeOK ==
  /\ md_notify \in Nat
  /\ md_lock \in Threads \cup {NoThread}
  /\ md_rq \in Seq(Requests)
  /\ pc \in [Threads -> PCs]
  /\ rq \in [Threads -> Requests \cup {NoRequest}]
  /\ added \in Seq(Requests)
  /\ taken \in Seq(Requests)

Claiming == {a \in Actors : pc[a] \in {"deq_lock", "first", "del"}}
Unposted == {t \in FuseThreads : pc[t] = "sem_post"}

\* The semaphore is exact: every request on the list is announced by md_notify,
\* already claimed by an actor on its way to the list, or linked by a thread
\* that has not called sem_post yet (nfscd_ops.c, 302-306 and 339-342).
SemaphoreExact ==
  md_notify + Cardinality(Claiming) + Cardinality(Unposted) = Len(md_rq)

\* An actor that got past sem_wait finds a request: flist_first is never
\* applied to an empty list and flist_del never to an entry another actor has
\* already unlinked (nfscd_ops.c, 304-306).
ActorFindsRequest ==
  \A a \in Actors :
    /\ pc[a] = "first" => md_rq # <<>>
    /\ pc[a] # "crashed"

\* No request is in the hands of two actors: each FUSE request is acted on,
\* and hence answered, by one actor only.
OneActorPerRequest ==
  \A a, b \in Actors :
    a # b /\ rq[a] # NoRequest => rq[a] # rq[b]

F == INSTANCE Fifo WITH put <- added, got <- taken

\* The list, the mutex and the semaphore together implement a FIFO queue:
\* requests are taken in the order they were added, none lost, none twice.
ImplementsFifo == F!Spec

\* Every request a FUSE thread has linked is taken by some actor in the end.
EveryRequestTaken ==
  \A r \in Requests : r \in Range(added) ~> r \in Range(taken)

=============================================================================
