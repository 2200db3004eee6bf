------------------------- MODULE RequestQueueProofs -------------------------
(***************************************************************************)
(* Proofs about RequestQueue for any number of FUSE threads, actors and    *)
(* requests.  IInv is the inductive invariant: the mutex is held by the    *)
(* one thread inside a critical section, an actor about to call flist_del  *)
(* still holds the first entry, the list is what was added less what was   *)
(* taken, and the semaphore is exact.                                      *)
(***************************************************************************)
EXTENDS RequestQueue, SequenceLemmas, FiniteSetTheorems, TLAPS

\* The default prover; a leaf that takes arithmetic cites the SMT solver.
USE ZenonT(60)

FusePCs == {"fuse", "enq_lock", "add_tail", "sem_post", "enq_unlock"}
ActorPCs == {"sem_wait", "deq_lock", "first", "del", "deq_unlock", "act"}
CriticalPCs == {"add_tail", "sem_post", "enq_unlock",
                "first", "del", "deq_unlock"}

Types ==
  /\ TypeOK
  /\ \A t \in FuseThreads : pc[t] \in FusePCs
  /\ \A a \in Actors : pc[a] \in ActorPCs
  /\ \A t \in FuseThreads : pc[t] # "fuse" => rq[t] \in Requests

Mutex == \A t \in Threads : pc[t] \in CriticalPCs <=> md_lock = t

HoldsFirst ==
  \A a \in Actors : pc[a] = "del" => md_rq # <<>> /\ rq[a] = Head(md_rq)

History == added = taken \o md_rq

IInv ==
  /\ Types
  /\ Mutex
  /\ HoldsFirst
  /\ History
  /\ SemaphoreExact

\* Claiming and Unposted are finite, so their cardinalities are numbers.
LEMMA CountsFinite ==
  /\ IsFiniteSet(Claiming) /\ Cardinality(Claiming) \in Nat
  /\ IsFiniteSet(Unposted) /\ Cardinality(Unposted) \in Nat
  /\ \A a \in Claiming : Cardinality(Claiming) > 0
<1>1. IsFiniteSet(Claiming) /\ IsFiniteSet(Unposted)
  BY FS_Subset, ThreadsAssumption DEF ThreadsAssumption, Claiming, Unposted
<1>2. Cardinality(Claiming) \in Nat /\ Cardinality(Unposted) \in Nat
  BY <1>1, FS_CardinalityType
<1>3. \A a \in Claiming : Cardinality(Claiming) > 0
  BY <1>1, <1>2, FS_EmptySet, SMTT(30)
<1> QED  BY <1>1, <1>2, <1>3

\* In the initial state of init_nfsclient_queues the invariant holds.
LEMMA InitIInv == Init => IInv
<1> SUFFICES ASSUME Init PROVE IInv  OBVIOUS
<1> USE ThreadsAssumption DEF ThreadsAssumption, Init, Threads
<1>1. Types
  BY SMTT(30) DEF Types, TypeOK, PCs, FusePCs, ActorPCs
<1>2. Mutex
  BY DEF Mutex, CriticalPCs
<1>3. HoldsFirst /\ History
  BY SMTT(30) DEF HoldsFirst, History
<1>4. Claiming = {} /\ Unposted = {}
  BY DEF Claiming, Unposted
<1>5. SemaphoreExact
  BY <1>4, FS_EmptySet, SMTT(30) DEF SemaphoreExact
<1> QED  BY <1>1, <1>2, <1>3, <1>5 DEF IInv

\* The typing part of the invariant is kept by every step.  An actor cannot
\* crash because it still holds the first entry when it calls flist_del.
LEMMA TypesStep == IInv /\ [Next]_vars => Types'
<1> SUFFICES ASSUME IInv, [Next]_vars PROVE Types'  OBVIOUS
<1> USE ThreadsAssumption
    DEF ThreadsAssumption, IInv, Types, TypeOK, Threads, Goto, PCs,
        FusePCs, ActorPCs, Lock, Unlock
<1>1. ASSUME NEW t \in FuseThreads, NEW r \in Requests, nfscd_lookup(t, r)
      PROVE Types'
  BY <1>1 DEF nfscd_lookup
<1>2. ASSUME NEW t \in FuseThreads, EnqueueLock(t) PROVE Types'
  BY <1>2 DEF EnqueueLock
<1>3. ASSUME NEW t \in FuseThreads, EnqueueAdd(t) PROVE Types'
  BY <1>3, SMTT(30) DEF EnqueueAdd
<1>4. ASSUME NEW t \in FuseThreads, EnqueuePost(t) PROVE Types'
  BY <1>4, SMTT(30) DEF EnqueuePost
<1>5. ASSUME NEW t \in FuseThreads, EnqueueUnlock(t) PROVE Types'
  BY <1>5 DEF EnqueueUnlock
<1>6. ASSUME NEW a \in Actors, DequeueWait(a) PROVE Types'
  BY <1>6, SMTT(30) DEF DequeueWait
<1>7. ASSUME NEW a \in Actors, DequeueLock(a) PROVE Types'
  BY <1>7 DEF DequeueLock
<1>8. ASSUME NEW a \in Actors, DequeueFirst(a) PROVE Types'
  BY <1>8, SMTT(30) DEF DequeueFirst
<1>9. ASSUME NEW a \in Actors, DequeueDel(a) PROVE Types'
  <2>1. /\ pc[a] = "del" /\ pc' = [pc EXCEPT ![a] = "deq_unlock"]
        /\ md_rq # <<>> /\ rq[a] = Head(md_rq)
        /\ md_rq' = Tail(md_rq) /\ taken' = Append(taken, rq[a])
        /\ UNCHANGED <<md_notify, md_lock, rq, added>>
    BY <1>9 DEF DequeueDel, HoldsFirst
  <2>2. rq[a] \in Requests /\ Tail(md_rq) \in Seq(Requests)
    BY <2>1, SMTT(30)
  <2> QED  BY <2>1, <2>2, SMTT(30)
<1>10. ASSUME NEW a \in Actors, DequeueUnlock(a) PROVE Types'
  BY <1>10 DEF DequeueUnlock
<1>11. ASSUME NEW a \in Actors, Act(a) PROVE Types'
  BY <1>11 DEF Act
<1>12. CASE UNCHANGED vars
  BY <1>12 DEF vars
<1> HIDE DEF IInv, Types, TypeOK, Goto, Lock, Unlock
<1> QED
  BY <1>1, <1>2, <1>3, <1>4, <1>5, <1>6, <1>7, <1>8, <1>9, <1>10, <1>11, <1>12
  DEF Next, FuseStep, ActorStep

\* The mutex is held by exactly the thread that is between its
\* pthread_mutex_lock and its pthread_mutex_unlock.
LEMMA MutexStep == IInv /\ [Next]_vars => Mutex'
<1> SUFFICES ASSUME IInv, [Next]_vars PROVE Mutex'  OBVIOUS
<1> USE ThreadsAssumption
    DEF ThreadsAssumption, IInv, Types, TypeOK, Mutex, Threads, Goto,
        CriticalPCs, Lock, Unlock
<1>1. CASE \E t \in FuseThreads : \E r \in Requests : nfscd_lookup(t, r)
  BY <1>1 DEF nfscd_lookup
<1>2. ASSUME NEW t \in FuseThreads, FuseStep(t) PROVE Mutex'
  BY <1>2, SMTT(30) DEF FuseStep, EnqueueLock, EnqueueAdd, EnqueuePost, EnqueueUnlock
<1>3. ASSUME NEW a \in Actors, ActorStep(a) PROVE Mutex'
  <2>1. CASE DequeueDel(a)
    BY <2>1 DEF DequeueDel, HoldsFirst
  <2>2. CASE ActorStep(a) /\ ~DequeueDel(a)
    BY <2>2, SMTT(30) DEF ActorStep, DequeueWait, DequeueLock, DequeueFirst,
                DequeueUnlock, Act
  <2> QED  BY <1>3, <2>1, <2>2
<1>4. CASE UNCHANGED vars
  BY <1>4 DEF vars
<1> QED  BY <1>1, <1>2, <1>3, <1>4 DEF Next

\* Only the holder of the mutex changes the list, so the entry an actor read
\* with flist_first is still the first one when it calls flist_del.
LEMMA HoldsFirstStep == IInv /\ [Next]_vars => HoldsFirst'
<1> SUFFICES ASSUME IInv, [Next]_vars,
                    NEW b \in Actors, pc'[b] = "del"
             PROVE  md_rq' # <<>> /\ rq'[b] = Head(md_rq')
  BY DEF HoldsFirst
<1> USE ThreadsAssumption
    DEF ThreadsAssumption, IInv, Types, TypeOK, Mutex, HoldsFirst, Threads,
        Goto, CriticalPCs
<1>1. CASE \E t \in FuseThreads : \E r \in Requests : nfscd_lookup(t, r)
  BY <1>1 DEF nfscd_lookup, FusePCs
<1>2. ASSUME NEW t \in FuseThreads, FuseStep(t)
      PROVE  md_rq' # <<>> /\ rq'[b] = Head(md_rq')
  BY <1>2 DEF FuseStep, EnqueueLock, EnqueueAdd, EnqueuePost, EnqueueUnlock
<1>3. ASSUME NEW a \in Actors, DequeueFirst(a)
      PROVE  md_rq' # <<>> /\ rq'[b] = Head(md_rq')
  <2>1. CASE a = b
    <3>1. a \in Claiming
      BY <1>3 DEF DequeueFirst, Claiming
    <3>2. Len(md_rq) > 0
      BY <3>1, CountsFinite, SMTT(30) DEF SemaphoreExact
    <3> QED  BY <1>3, <2>1, <3>2, SMTT(30) DEF DequeueFirst
  <2>2. CASE a # b
    BY <1>3, <2>2 DEF DequeueFirst
  <2> QED  BY <2>1, <2>2
<1>4. ASSUME NEW a \in Actors, ActorStep(a), ~DequeueFirst(a)
      PROVE  md_rq' # <<>> /\ rq'[b] = Head(md_rq')
  BY <1>4 DEF ActorStep, DequeueWait, DequeueLock, DequeueDel,
              DequeueUnlock, Act
<1>5. CASE UNCHANGED vars
  BY <1>5 DEF vars
<1> QED  BY <1>1, <1>2, <1>3, <1>4, <1>5 DEF Next

\* The list is always what was added less what was taken.
LEMMA HistoryStep == IInv /\ [Next]_vars => History'
<1> SUFFICES ASSUME IInv, [Next]_vars PROVE History'  OBVIOUS
<1>0. taken \in Seq(Requests) /\ md_rq \in Seq(Requests)
  BY DEF IInv, Types, TypeOK
<1> USE DEF IInv, Types, TypeOK, History, Threads
<1>1. ASSUME NEW t \in FuseThreads, EnqueueAdd(t) PROVE History'
  <2>1. rq[t] \in Requests
    BY <1>1 DEF EnqueueAdd, Goto
  <2>2. /\ added' = Append(taken \o md_rq, rq[t])
        /\ md_rq' = Append(md_rq, rq[t]) /\ taken' = taken
    BY <1>1 DEF EnqueueAdd
  <2>3. Append(taken \o md_rq, rq[t]) = taken \o Append(md_rq, rq[t])
    BY ONLY <1>0, <2>1, SMTT(30)
  <2> QED  BY ONLY <2>2, <2>3 DEF History
<1>2. ASSUME NEW a \in Actors, DequeueDel(a) PROVE History'
  <2>1. /\ md_rq # <<>> /\ rq[a] = Head(md_rq)
        /\ md_rq' = Tail(md_rq) /\ taken' = Append(taken, Head(md_rq))
        /\ added' = added
    BY <1>2 DEF DequeueDel, HoldsFirst, Goto
  <2> QED  BY <2>1, MoveHead
<1>3. CASE UNCHANGED <<added, taken, md_rq>>
  BY <1>3
<1> QED
  BY <1>1, <1>2, <1>3
  DEF Next, FuseStep, ActorStep, nfscd_lookup, EnqueueLock, EnqueuePost,
      EnqueueUnlock, DequeueWait, DequeueLock, DequeueFirst, DequeueUnlock,
      Act, vars

\* sem_post, sem_wait and the list operations keep md_notify exact.
LEMMA SemaphoreStep == IInv /\ [Next]_vars => SemaphoreExact'
<1> SUFFICES ASSUME IInv, [Next]_vars PROVE SemaphoreExact'  OBVIOUS
<1> USE ThreadsAssumption
    DEF ThreadsAssumption, IInv, Types, TypeOK, Threads, FusePCs, ActorPCs
<1> DEFINE C == Cardinality(Claiming)
           U == Cardinality(Unposted)
<1>0. C \in Nat /\ U \in Nat /\ md_notify + C + U = Len(md_rq)
  BY CountsFinite DEF SemaphoreExact
<1>1. ASSUME NEW t \in FuseThreads, EnqueueAdd(t) PROVE SemaphoreExact'
  <2>1. Claiming' = Claiming
    BY <1>1 DEF EnqueueAdd, Goto, Claiming
  <2>2. Unposted' = Unposted \cup {t} /\ t \notin Unposted
    BY <1>1 DEF EnqueueAdd, Goto, Unposted
  <2>3. Cardinality(Unposted') = U + 1
    BY <2>2, CountsFinite, FS_AddElement
  <2>4. Len(md_rq') = Len(md_rq) + 1 /\ md_notify' = md_notify
    BY <1>1, SMTT(30) DEF EnqueueAdd
  <2> QED  BY <1>0, <2>1, <2>3, <2>4, SMTT(30) DEF SemaphoreExact
<1>2. ASSUME NEW t \in FuseThreads, EnqueuePost(t) PROVE SemaphoreExact'
  <2>1. Claiming' = Claiming
    BY <1>2 DEF EnqueuePost, Goto, Claiming
  <2>2. Unposted' = Unposted \ {t} /\ t \in Unposted
    BY <1>2 DEF EnqueuePost, Goto, Unposted
  <2>3. Cardinality(Unposted') = U - 1
    BY <2>2, CountsFinite, FS_RemoveElement
  <2>4. md_rq' = md_rq /\ md_notify' = md_notify + 1
    BY <1>2 DEF EnqueuePost
  <2> QED  BY <1>0, <2>1, <2>3, <2>4, SMTT(30) DEF SemaphoreExact
<1>3. ASSUME NEW a \in Actors, DequeueWait(a) PROVE SemaphoreExact'
  <2>1. Unposted' = Unposted
    BY <1>3 DEF DequeueWait, Goto, Unposted
  <2>2. Claiming' = Claiming \cup {a} /\ a \notin Claiming
    BY <1>3 DEF DequeueWait, Goto, Claiming
  <2>3. Cardinality(Claiming') = C + 1
    BY <2>2, CountsFinite, FS_AddElement
  <2>4. md_rq' = md_rq /\ md_notify' = md_notify - 1
    BY <1>3 DEF DequeueWait
  <2>5. md_notify \in Int /\ Len(md_rq) \in Int
    BY SMTT(30)
  <2> QED  BY ONLY <1>0, <2>1, <2>3, <2>4, <2>5, SMTT(30) DEF SemaphoreExact
<1>4. ASSUME NEW a \in Actors, DequeueDel(a) PROVE SemaphoreExact'
  <2>0. /\ pc[a] = "del" /\ pc' = [pc EXCEPT ![a] = "deq_unlock"]
        /\ md_rq # <<>> /\ md_rq' = Tail(md_rq) /\ md_notify' = md_notify
    BY <1>4 DEF DequeueDel, HoldsFirst, Goto
  <2>1. Unposted' = Unposted
    BY <2>0 DEF Unposted
  <2>2. Claiming' = Claiming \ {a} /\ a \in Claiming
    BY <2>0 DEF Claiming
  <2>3. Cardinality(Claiming') = C - 1
    BY <2>2, CountsFinite, FS_RemoveElement
  <2>4. Len(md_rq') = Len(md_rq) - 1
    BY <2>0, SMTT(30)
  <2> QED  BY <1>0, <2>0, <2>1, <2>3, <2>4, SMTT(30) DEF SemaphoreExact
<1>5. CASE UNCHANGED <<md_notify, md_rq, Claiming, Unposted>>
  BY <1>0, <1>5 DEF SemaphoreExact
<1>6. ASSUME NEW t \in FuseThreads,
             \/ \E r \in Requests : nfscd_lookup(t, r)
             \/ EnqueueLock(t)
             \/ EnqueueUnlock(t)
      PROVE  UNCHANGED <<md_notify, md_rq, Claiming, Unposted>>
  BY <1>6 DEF nfscd_lookup, EnqueueLock, EnqueueUnlock, Goto, Claiming,
              Unposted
<1>7. ASSUME NEW a \in Actors,
             \/ DequeueLock(a)
             \/ DequeueFirst(a)
             \/ DequeueUnlock(a)
             \/ Act(a)
      PROVE  UNCHANGED <<md_notify, md_rq, Claiming, Unposted>>
  BY <1>7 DEF DequeueLock, DequeueFirst, DequeueUnlock, Act, Goto, Claiming,
              Unposted
<1>8. CASE UNCHANGED vars
  BY <1>5, <1>8 DEF vars, Claiming, Unposted
<1> HIDE DEF IInv, Types, TypeOK, Threads, FusePCs, ActorPCs
<1> QED
  BY <1>1, <1>2, <1>3, <1>4, <1>5, <1>6, <1>7, <1>8
  DEF Next, FuseStep, ActorStep

\* IInv is inductive.
THEOREM Invariance == Spec => []IInv
<1>1. IInv /\ [Next]_vars => IInv'
  BY TypesStep, MutexStep, HoldsFirstStep, HistoryStep, SemaphoreStep
  DEF IInv
<1> QED  BY <1>1, InitIInv, PTL DEF Spec

\* The variables of the queue code keep their types for any numbers of threads
\* and requests.
THEOREM TypeCorrect == Spec => []TypeOK
<1>1. IInv => TypeOK
  BY DEF IInv, Types
<1> QED  BY <1>1, Invariance, PTL

\* md_notify is exact for any number of FUSE threads and actors.
THEOREM SemaphoreCorrect == Spec => []SemaphoreExact
<1>1. IInv => SemaphoreExact
  BY DEF IInv
<1> QED  BY <1>1, Invariance, PTL

\* For any number of FUSE threads and actors flist_first is applied to a list
\* with an entry and flist_del to an entry that is still linked.
THEOREM DequeueCorrect == Spec => []ActorFindsRequest
<1>1. ASSUME IInv PROVE ActorFindsRequest
  <2> SUFFICES ASSUME NEW a \in Actors
               PROVE  /\ pc[a] = "first" => md_rq # <<>>
                      /\ pc[a] # "crashed"
    BY DEF ActorFindsRequest
  <2>1. pc[a] # "crashed"
    BY <1>1 DEF IInv, Types, ActorPCs
  <2>2. ASSUME pc[a] = "first" PROVE md_rq # <<>>
    <3>1. a \in Claiming
      BY <2>2 DEF Claiming
    <3>2. Len(md_rq) > 0
      BY <1>1, <3>1, CountsFinite, SMTT(30) DEF SemaphoreExact, IInv, Types, TypeOK
    <3> QED  BY <3>2, SMTT(30)
  <2> QED  BY <2>1, <2>2
<1> QED  BY <1>1, Invariance, PTL

\* The list, the mutex and the semaphore implement a FIFO queue: each step of
\* the threads is a step of the queue or leaves it alone.
THEOREM QueueImplementsFifo == Spec => ImplementsFifo
<1>1. Init => F!Init
  BY DEF Init, F!Init
<1>2. ASSUME IInv, [Next]_vars PROVE [F!Next]_<<added, taken>>
  <2> USE <1>2 DEF IInv, Types, TypeOK, Threads
  <2>1. ASSUME NEW t \in FuseThreads, EnqueueAdd(t) PROVE F!Put
    <3>1. rq[t] \in Requests /\ added \in Seq(Requests)
      BY <2>1 DEF EnqueueAdd, Goto
    <3>2. added' = Append(added, rq[t]) /\ taken' = taken
      BY <2>1 DEF EnqueueAdd
    <3> QED  BY ONLY <3>1, <3>2, SMTT(30) DEF F!Put
  <2>2. ASSUME NEW a \in Actors, DequeueDel(a) PROVE F!Get
    <3>1. /\ md_rq # <<>> /\ taken' = Append(taken, Head(md_rq))
          /\ added' = added
      BY <2>2 DEF DequeueDel, HoldsFirst, Goto
    <3>2. taken \in Seq(Requests) /\ md_rq \in Seq(Requests)
      OBVIOUS
    <3>3. taken' \in Seq(Requests) /\ md_rq' \in Seq(Requests)
      BY <1>2, TypesStep
    <3>4. added = taken' \o md_rq'
      BY <1>2, <3>1, HistoryStep DEF History
    <3>5. Len(taken') <= Len(added) /\ taken' = SubSeq(added, 1, Len(taken'))
      BY ONLY <3>3, <3>4, SMTT(30)
    <3>6. Len(taken) <= Len(taken')
      BY ONLY <3>1, <3>2, SMTT(30)
    <3> QED  BY ONLY <3>1, <3>5, <3>6 DEF F!Get
  <2>3. CASE UNCHANGED <<added, taken>>
    BY <2>3
  <2> QED
    BY <2>1, <2>2, <2>3
    DEF F!Next, Next, FuseStep, ActorStep, nfscd_lookup, EnqueueLock,
        EnqueuePost, EnqueueUnlock, DequeueWait, DequeueLock, DequeueFirst,
        DequeueUnlock, Act, vars
<1> QED
  BY <1>1, <1>2, Invariance, PTL DEF Spec, ImplementsFifo, F!Spec

-----------------------------------------------------------------------------
(* One actor per request.  Requests are malloc'ed afresh, so no request is *)
(* added twice; an actor past flist_del holds a request that was taken,    *)
(* and the first entry of the list was not.                                *)

Unlinked == {t \in FuseThreads : pc[t] \in {"enq_lock", "add_tail"}}

FreshOnce ==
  /\ \A t \in FuseThreads : pc[t] = "fuse" => rq[t] = NoRequest
  /\ \A t \in Unlinked : rq[t] \notin Range(added)
  /\ \A t, u \in Unlinked : t # u => rq[t] # rq[u]
  /\ \A i, j \in 1 .. Len(added) : added[i] = added[j] => i = j

Holdings ==
  \A a \in Actors :
    /\ pc[a] \in {"sem_wait", "deq_lock", "first"} => rq[a] = NoRequest
    /\ pc[a] \in {"deq_unlock", "act"} => rq[a] \in Range(taken)

OInv == FreshOnce /\ Holdings /\ OneActorPerRequest

\* No request is linked twice: flist_add_tail gets a request of its own thread.
LEMMA FreshOnceStep == IInv /\ FreshOnce /\ [Next]_vars => FreshOnce'
<1> SUFFICES ASSUME IInv, FreshOnce, [Next]_vars PROVE FreshOnce'  OBVIOUS
<1> USE ThreadsAssumption
    DEF ThreadsAssumption, IInv, Types, TypeOK, Threads, FusePCs, Goto,
        FreshOnce, Unlinked
<1>1. ASSUME NEW t \in FuseThreads, NEW r \in Requests, nfscd_lookup(t, r)
      PROVE  FreshOnce'
  BY <1>1, SMTT(30) DEF nfscd_lookup, Fresh
<1>2. ASSUME NEW t \in FuseThreads, EnqueueAdd(t) PROVE FreshOnce'
  <2>1. t \in Unlinked /\ rq[t] \in Requests /\ rq[t] \notin Range(added)
    BY <1>2 DEF EnqueueAdd
  <2>2. added' = Append(added, rq[t]) /\ added \in Seq(Requests)
    BY <1>2 DEF EnqueueAdd
  <2>3. Range(added') = Range(added) \cup {rq[t]}
    BY ONLY <2>1, <2>2, RangeAppend, SMTT(30)
  <2>4. Unlinked' = Unlinked \ {t} /\ rq' = rq
    BY <1>2 DEF EnqueueAdd
  <2>5. \A i \in 1 .. Len(added) : added[i] \in Range(added)
    BY ONLY <2>2, SMTT(30) DEF Range
  <2>6. \A i, j \in 1 .. Len(added') : added'[i] = added'[j] => i = j
    BY ONLY <2>1, <2>2, <2>5, FreshOnce, SMTT(30) DEF FreshOnce
  <2>7. \A u \in FuseThreads : pc'[u] = "fuse" => rq'[u] = NoRequest
    BY <1>2 DEF EnqueueAdd
  <2>8. \A u \in Unlinked' : rq'[u] \notin Range(added')
    BY ONLY <2>1, <2>3, <2>4, FreshOnce DEF FreshOnce
  <2> QED  BY ONLY <2>4, <2>6, <2>7, <2>8, FreshOnce DEF FreshOnce
<1>3. ASSUME NEW t \in FuseThreads,
             EnqueueLock(t) \/ EnqueuePost(t) \/ EnqueueUnlock(t)
      PROVE  FreshOnce'
  <2>1. added' = added /\ Unlinked' = Unlinked
    BY <1>3 DEF EnqueueLock, EnqueuePost, EnqueueUnlock
  <2>2. \A u \in Unlinked : rq'[u] = rq[u]
    BY <1>3 DEF EnqueueLock, EnqueuePost, EnqueueUnlock
  <2>3. \A u \in FuseThreads : pc'[u] = "fuse" => rq'[u] = NoRequest
    BY <1>3 DEF EnqueueLock, EnqueuePost, EnqueueUnlock
  <2> QED  BY ONLY <2>1, <2>2, <2>3, FreshOnce DEF FreshOnce
<1>4. ASSUME NEW a \in Actors, ActorStep(a) PROVE FreshOnce'
  <2>1. added' = added /\ \A t \in FuseThreads : pc'[t] = pc[t] /\ rq'[t] = rq[t]
    BY <1>4 DEF ActorStep, DequeueWait, DequeueLock, DequeueFirst,
                DequeueDel, DequeueUnlock, Act
  <2> QED  BY <2>1, SMTT(30)
<1>5. CASE UNCHANGED vars
  BY <1>5 DEF vars
<1> HIDE DEF IInv, Types, TypeOK, Goto, FreshOnce, Unlinked
<1> QED  BY <1>1, <1>2, <1>3, <1>4, <1>5 DEF Next, FuseStep

\* An actor before flist_first has no request, one past flist_del a taken one.
LEMMA HoldingsStep == IInv /\ Holdings /\ [Next]_vars => Holdings'
<1> SUFFICES ASSUME IInv, Holdings, [Next]_vars PROVE Holdings'  OBVIOUS
<1> USE ThreadsAssumption
    DEF ThreadsAssumption, IInv, Types, TypeOK, Threads, ActorPCs, Goto,
        Holdings
<1>1. ASSUME NEW t \in FuseThreads,
             FuseStep(t) \/ \E r \in Requests : nfscd_lookup(t, r)
      PROVE  Holdings'
  BY <1>1 DEF FuseStep, nfscd_lookup, EnqueueLock, EnqueueAdd, EnqueuePost,
              EnqueueUnlock
<1>2. ASSUME NEW a \in Actors, DequeueDel(a) PROVE Holdings'
  <2>1. /\ pc[a] = "del" /\ pc' = [pc EXCEPT ![a] = "deq_unlock"] /\ rq' = rq
        /\ md_rq # <<>> /\ rq[a] = Head(md_rq)
        /\ taken' = Append(taken, rq[a])
    BY <1>2 DEF DequeueDel, HoldsFirst
  <2>2. rq[a] \in Requests /\ taken \in Seq(Requests)
    BY <2>1, SMTT(30)
  <2>3. Range(taken') = Range(taken) \cup {rq[a]}
    BY ONLY <2>1, <2>2, RangeAppend, SMTT(30)
  <2> QED  BY <2>1, <2>3
<1>3. ASSUME NEW a \in Actors, ActorStep(a), ~DequeueDel(a) PROVE Holdings'
  BY <1>3 DEF ActorStep, DequeueWait, DequeueLock, DequeueFirst,
              DequeueUnlock, Act
<1>4. CASE UNCHANGED vars
  BY <1>4 DEF vars
<1> HIDE DEF IInv, Types, TypeOK, Goto, Holdings
<1> QED  BY <1>1, <1>2, <1>3, <1>4 DEF Next

\* flist_first returns a request that no other actor has.
LEMMA OneActorStep == IInv /\ OInv /\ [Next]_vars => OneActorPerRequest'
<1> SUFFICES ASSUME IInv, OInv, [Next]_vars PROVE OneActorPerRequest'
  OBVIOUS
<1> USE ThreadsAssumption
    DEF ThreadsAssumption, IInv, Types, TypeOK, Threads, OneActorPerRequest,
        OInv
<1>1. ASSUME NEW a \in Actors, DequeueFirst(a) PROVE OneActorPerRequest'
  <2>1. /\ pc[a] = "first" /\ a \in Claiming
        /\ rq' = [rq EXCEPT ![a] = IF md_rq = <<>> THEN NoRequest
                                   ELSE Head(md_rq)]
    BY <1>1 DEF DequeueFirst, Goto, Claiming
  <2>2. md_rq # <<>>
    BY <2>1, CountsFinite, SMTT(30) DEF SemaphoreExact
  <2>3. Head(md_rq) \notin Range(taken)
    <3>1. added = taken \o md_rq /\ taken \in Seq(Requests)
                                 /\ md_rq \in Seq(Requests)
      BY DEF History
    <3>2. \A i \in 1 .. Len(taken) : added[i] = taken[i]
      BY ONLY <3>1, SMTT(30)
    <3>3. added[Len(taken) + 1] = Head(md_rq) /\ Len(added) > Len(taken)
      BY ONLY <2>2, <3>1, SMTT(30)
    <3>4. Len(taken) \in Nat /\ Len(added) \in Nat
      BY ONLY <3>1, SMTT(30)
    <3>5. \A i \in 1 .. Len(taken) : taken[i] # Head(md_rq)
      BY ONLY <3>2, <3>3, <3>4, OInv, SMTT(30) DEF OInv, FreshOnce
    <3> QED  BY ONLY <3>1, <3>5, SMTT(30) DEF Range
  <2>4. \A b \in Actors \ {a} : rq[b] \in Range(taken) \cup {NoRequest}
    <3> SUFFICES ASSUME NEW b \in Actors \ {a}
                 PROVE  rq[b] \in Range(taken) \cup {NoRequest}
      OBVIOUS
    <3>1. pc[b] # "del"
      BY <2>1 DEF Mutex, CriticalPCs
    <3> QED  BY <3>1 DEF Holdings, ActorPCs
  <2>5. Head(md_rq) \in Requests
    BY <2>2, SMTT(30)
  <2> QED  BY <2>1, <2>2, <2>3, <2>4, <2>5
<1>2. ASSUME NEW a \in Actors, ActorStep(a), ~DequeueFirst(a)
      PROVE  OneActorPerRequest'
  BY <1>2 DEF ActorStep, DequeueWait, DequeueLock, DequeueDel,
              DequeueUnlock, Act
<1>3. ASSUME NEW t \in FuseThreads,
             FuseStep(t) \/ \E r \in Requests : nfscd_lookup(t, r)
      PROVE  OneActorPerRequest'
  BY <1>3 DEF FuseStep, nfscd_lookup, EnqueueLock, EnqueueAdd, EnqueuePost,
              EnqueueUnlock
<1>4. CASE UNCHANGED vars
  BY <1>4 DEF vars
<1> HIDE DEF IInv, Types, TypeOK, OneActorPerRequest, OInv
<1> QED  BY <1>1, <1>2, <1>3, <1>4 DEF Next

\* Who holds which request, in every state.
LEMMA Ownership == Spec => [](IInv /\ OInv)
<1>1. Init => OInv
  BY ThreadsAssumption, SMTT(30)
  DEF ThreadsAssumption, Init, Threads, OInv, FreshOnce, Unlinked, Holdings,
      OneActorPerRequest, Range
<1>2. IInv /\ OInv /\ [Next]_vars => OInv'
  BY FreshOnceStep, HoldingsStep, OneActorStep DEF OInv
<1> QED  BY <1>1, <1>2, Invariance, PTL DEF Spec

\* For any number of actors no request is in the hands of two of them.
THEOREM OneActorCorrect == Spec => []OneActorPerRequest
<1>1. OInv => OneActorPerRequest
  BY DEF OInv
<1> QED  BY <1>1, Ownership, PTL

=============================================================================
