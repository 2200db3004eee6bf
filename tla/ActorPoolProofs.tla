-------------------------- MODULE ActorPoolProofs ---------------------------
(***************************************************************************)
(* Proofs about the actor threads, for any number of threads, sizes of the *)
(* pool and exit statuses.                                                 *)
(*                                                                         *)
(* The properties speak of a thread when it has exited or main has left    *)
(* nfscd_destroy; the invariant follows every thread from its creation on. *)
(* A thread belongs to the list, or to main between pthread_create and the *)
(* list, until it is joined (Life); what happens to it in between is under *)
(* ast_lock (Mutex).                                                       *)
(***************************************************************************)
EXTENDS ActorPool, TLAPS

\* The default prover; a leaf that takes arithmetic cites the SMT solver.
USE ZenonT(60)

Entry == [tid : Tids, exitstat : Int]

\* What a list holds, and that no thread has two entries.
Entries(s) == {s[k] : k \in DOMAIN s}
TidsOf(s) == {s[k].tid : k \in DOMAIN s}
Distinct(s) == \A j, k \in DOMAIN s : s[j].tid = s[k].tid => j = k

Starting == {"start", "create", "add", "start_unlock", "fuse", "destroy"}
MainCritical ==
  {"create", "add", "start_unlock", "cancel", "destroy_join", "destroy_unlock"}

Types ==
  /\ DOMAIN pc = Threads
  /\ pc[Main] \in Starting \cup MainCritical \cup {"done"}
  /\ pc[Monitor] \in {"wait", "lock", "join", "unlock"}
  /\ actor_threads \in Seq(Entry) /\ Distinct(actor_threads)
  /\ actor_exit_notify \in Nat
  /\ status \in [Tids -> Int]
  /\ joined \in [Tids -> Nat]

Mutex ==
  /\ pc[Main] \in MainCritical <=> ast_lock = Main
  /\ pc[Monitor] \in {"join", "unlock"} <=> ast_lock = Monitor
  /\ \A t \in Tids : pc[t] \in {"notify_set", "notify_unlock"} <=> ast_lock = t

\* The two loops over the list, and when threads are cancelled.
Loops ==
  /\ pc[Monitor] = "join" \/ pc[Main] \in {"cancel", "destroy_join"} =>
       actor_threads # <<>>
  /\ pc[Main] \in {"destroy_unlock", "done"} => actor_threads = <<>>
  /\ pc[Main] \in Starting => cancelled = {}
  /\ pc[Main] = "add" => tid \in Tids \ TidsOf(actor_threads)

\* The thread has an entry, or main is about to make it.
Owned(t) == t \in TidsOf(actor_threads) \/ (pc[Main] = "add" /\ tid = t)

Life(t) ==
  /\ IF Owned(t)
     THEN joined[t] = 0 /\ pc[t] \in {"init", "serving", "notify", "notify_set",
                                      "notify_unlock", "exited"}
     ELSE \/ pc[t] = "unborn" /\ joined[t] = 0
          \/ pc[t] = "exited" /\ joined[t] = 1
  /\ pc[Main] = "add" /\ tid = t => pc[t] \in {"init", "serving", "notify"}
  /\ pc[t] \in {"unborn", "init", "serving"} => status[t] = DEFAULT_EXIT_STATUS

\* The status of an entry is that of the thread, but while it is being set.
Recorded(t) ==
  \A e \in Entries(actor_threads) :
    e.tid = t /\ pc[t] \notin {"notify", "notify_set"} => e.exitstat = status[t]

\* The monitor has still to look at a thread that has set its status, and has
\* nothing to look at any more when it leaves its loop.
Noticed(t) ==
  t \in TidsOf(actor_threads) =>
    /\ pc[t] \in {"notify_unlock", "exited"} =>
         t \in cancelled \/ actor_exit_notify > 0 \/ pc[Monitor] \in {"lock", "join"}
    /\ pc[Monitor] = "unlock" => pc[t] \in {"init", "serving", "notify"}

IInv ==
  /\ Types /\ Mutex /\ Loops
  /\ \A t \in Tids : Life(t) /\ Recorded(t) /\ Noticed(t)

\* Main, the monitor and the actors are different threads.
LEMMA Names ==
  /\ Main \in Threads /\ Monitor \in Threads /\ Main # Monitor
  /\ NoThread # Main /\ NoThread # Monitor
  /\ \A t \in Tids : t \in Threads /\ t # Main /\ t # Monitor /\ t # NoThread
BY PoolAssumption DEF PoolAssumption, Threads

-----------------------------------------------------------------------------
(* The list.                                                               *)

\* Entries are those of actors.
LEMMA EntryTids ==
  ASSUME NEW s \in Seq(Entry) PROVE \A k \in DOMAIN s : s[k].tid \in Tids
<1>1. \A k \in DOMAIN s : s[k] \in Entry
  BY SMTT(30)
<1> QED  BY <1>1 DEF Entry

\* The first entry is taken out.
LEMMA TailList ==
  ASSUME NEW s \in Seq(Entry), s # <<>>, Distinct(s)
  PROVE  /\ Tail(s) \in Seq(Entry) /\ Distinct(Tail(s))
         /\ Head(s) \in Entries(s) /\ Head(s) \in Entry
         /\ Entries(Tail(s)) \subseteq Entries(s)
         /\ TidsOf(Tail(s)) = TidsOf(s) \ {Head(s).tid}
         /\ Head(s).tid \in TidsOf(s)
         /\ Len(s) > 1 <=> Tail(s) # <<>>
<1>1. /\ Tail(s) \in Seq(Entry) /\ Len(Tail(s)) = Len(s) - 1
      /\ Len(s) \in Nat /\ Len(s) >= 1
      /\ DOMAIN s = 1 .. Len(s) /\ DOMAIN Tail(s) = 1 .. Len(s) - 1
      /\ Head(s) = s[1] /\ Head(s) \in Entry
  BY SMTT(30)
<1>2. \A k \in 1 .. Len(s) - 1 : Tail(s)[k] = s[k + 1]
  BY SMTT(30)
<1>3. 1 \in DOMAIN s /\ \A k \in DOMAIN Tail(s) : k + 1 \in DOMAIN s /\ k + 1 # 1
  BY ONLY <1>1, SMTT(30)
<1>4. \A k \in DOMAIN s : k = 1 \/ (k - 1 \in DOMAIN Tail(s) /\ (k - 1) + 1 = k)
  BY ONLY <1>1, SMTT(30)
<1>5. \A k \in DOMAIN Tail(s) : Tail(s)[k] = s[k + 1]
  BY ONLY <1>1, <1>2
<1>6. Distinct(Tail(s))
  <2> SUFFICES ASSUME NEW j \in DOMAIN Tail(s), NEW k \in DOMAIN Tail(s),
                      Tail(s)[j].tid = Tail(s)[k].tid
               PROVE  j = k
    BY DEF Distinct
  <2>1. j + 1 = k + 1
    BY <1>3, <1>5, SMTT(30) DEF Distinct
  <2>2. j \in Int /\ k \in Int
    BY <1>1, SMTT(30)
  <2> QED  BY ONLY <2>1, <2>2, SMTT(30)
<1>7. Head(s) \in Entries(s) /\ Head(s).tid \in TidsOf(s)
  BY <1>1, <1>3 DEF Entries, TidsOf
<1>8. Entries(Tail(s)) \subseteq Entries(s)
  BY <1>3, <1>5 DEF Entries
<1>9. TidsOf(Tail(s)) = TidsOf(s) \ {Head(s).tid}
  <2>1. ASSUME NEW k \in DOMAIN Tail(s)
        PROVE  Tail(s)[k].tid \in TidsOf(s) /\ Tail(s)[k].tid # Head(s).tid
    BY <1>1, <1>3, <1>5 DEF TidsOf, Distinct
  <2>2. ASSUME NEW k \in DOMAIN s, s[k].tid # Head(s).tid
        PROVE  s[k].tid \in TidsOf(Tail(s))
    <3>1. k # 1
      BY <1>1, <2>2
    <3>2. k - 1 \in DOMAIN Tail(s) /\ (k - 1) + 1 = k
      BY ONLY <3>1, <1>4
    <3>3. Tail(s)[k - 1].tid = s[k].tid
      BY <3>2, <1>5
    <3> QED  BY <3>2, <3>3 DEF TidsOf
  <2> QED  BY <2>1, <2>2 DEF TidsOf
<1>10. Len(s) > 1 <=> Tail(s) # <<>>
  <2> DEFINE q == Tail(s)
  <2>1. q \in Seq(Entry)
    BY <1>1
  <2> HIDE DEF q
  <2>2. q = <<>> <=> Len(q) = 0
    BY <2>1, SMTT(30)
  <2> QED  BY <2>2, <1>1, SMTT(30) DEF q
<1> QED  BY <1>1, <1>6, <1>7, <1>8, <1>9, <1>10

\* An entry for another thread is added at the end.
LEMMA AppendList ==
  ASSUME NEW s \in Seq(Entry), Distinct(s), NEW e \in Entry, e.tid \notin TidsOf(s)
  PROVE  /\ Append(s, e) \in Seq(Entry) /\ Distinct(Append(s, e))
         /\ Append(s, e) # <<>>
         /\ Entries(Append(s, e)) = Entries(s) \cup {e}
         /\ TidsOf(Append(s, e)) = TidsOf(s) \cup {e.tid}
<1> DEFINE a == Append(s, e)
<1>1. /\ a \in Seq(Entry) /\ Len(s) \in Nat
      /\ DOMAIN a = 1 .. Len(s) + 1 /\ DOMAIN s = 1 .. Len(s)
      /\ Append(s, e) # <<>>
  BY SMTT(30)
<1>2. a[Len(s) + 1] = e /\ \A k \in DOMAIN s : a[k] = s[k]
  BY SMTT(30)
<1>3. DOMAIN a = DOMAIN s \cup {Len(s) + 1}
  BY ONLY <1>1, SMTT(30)
<1> HIDE DEF a
<1>4. Distinct(a)
  BY <1>2, <1>3 DEF Distinct, TidsOf
<1>5. Entries(a) = Entries(s) \cup {e}
  BY <1>2, <1>3, SMTT(30) DEF Entries
<1>6. TidsOf(a) = TidsOf(s) \cup {e.tid}
  BY <1>2, <1>3, SMTT(30) DEF TidsOf
<1> QED  BY <1>1, <1>4, <1>5, <1>6 DEF a

\* The status of one thread is set.
StatusSet(s, r, t, st) ==
  /\ r = [k \in DOMAIN r |-> r[k]] /\ DOMAIN r = DOMAIN s
  /\ \A k \in DOMAIN s :
       /\ r[k] \in Entry /\ r[k].tid = s[k].tid
       /\ s[k].tid = t => r[k].exitstat = st
       /\ s[k].tid # t => r[k] = s[k]

LEMMA SetList ==
  ASSUME NEW s \in Seq(Entry), Distinct(s), NEW t, NEW st, NEW r,
         StatusSet(s, r, t, st)
  PROVE  /\ r \in Seq(Entry) /\ Distinct(r) /\ TidsOf(r) = TidsOf(s)
         /\ r = <<>> <=> s = <<>>
         /\ \A e \in Entries(r) : \/ e.tid = t /\ e.exitstat = st
                                  \/ e.tid # t /\ e \in Entries(s)
<1>1. r = [k \in DOMAIN r |-> r[k]]
  BY DEF StatusSet
<1>2. DOMAIN r = DOMAIN s
  BY DEF StatusSet
<1>3. \A k \in DOMAIN s : /\ r[k] \in Entry /\ r[k].tid = s[k].tid
                          /\ s[k].tid = t => r[k].exitstat = st
                          /\ s[k].tid # t => r[k] = s[k]
  BY DEF StatusSet
<1>4. r \in Seq(Entry) /\ Len(r) = Len(s)
  <2>1. r \in [1 .. Len(s) -> Entry]
    <3>1. DOMAIN s = 1 .. Len(s)
      BY SMTT(30)
    <3> QED  BY ONLY <1>1, <1>2, <1>3, <3>1
  <2>2. Len(s) \in Nat
    BY SMTT(30)
  <2> QED  BY <2>1, <2>2, SMTT(30)
<1>5. r = <<>> <=> s = <<>>
  BY <1>4, SMTT(30)
<1>6. Distinct(r)
  BY ONLY <1>2, <1>3, Distinct(s) DEF Distinct
<1>7. TidsOf(r) = TidsOf(s)
  BY <1>2, <1>3 DEF TidsOf
<1>8. \A e \in Entries(r) : \/ e.tid = t /\ e.exitstat = st
                            \/ e.tid # t /\ e \in Entries(s)
  BY <1>2, <1>3 DEF Entries
<1> QED  BY <1>4, <1>5, <1>6, <1>7, <1>8

-----------------------------------------------------------------------------
(* Init and the steps.                                                     *)

\* At the start there are no actors.
LEMMA InitIInv == Init => IInv
<1> SUFFICES ASSUME Init PROVE IInv
  OBVIOUS
<1>1. /\ DOMAIN pc = Threads /\ pc[Main] = "start" /\ pc[Monitor] = "wait"
      /\ \A t \in Tids : pc[t] = "unborn"
  BY Names DEF Init
<1>2. /\ actor_threads = <<>> /\ Entries(actor_threads) = {}
      /\ TidsOf(actor_threads) = {}
      /\ actor_threads \in Seq(Entry) /\ Distinct(actor_threads)
  BY SMTT(30) DEF Init, Entries, TidsOf, Distinct
<1>3. Types
  BY <1>1, <1>2, SMTT(30) DEF Init, Types, Starting, DEFAULT_EXIT_STATUS
<1>4. Mutex
  BY <1>1, Names DEF Init, Mutex, MainCritical
<1>5. Loops
  BY <1>1, <1>2 DEF Init, Loops
<1>6. \A t \in Tids : Life(t) /\ Recorded(t) /\ Noticed(t)
  BY <1>1, <1>2 DEF Init, Life, Owned, Recorded, Noticed
<1> QED  BY <1>3, <1>4, <1>5, <1>6 DEF IInv

\* One thread moves.
Moves(x, to) ==
  /\ DOMAIN pc' = Threads
  /\ pc'[x] = to
  /\ \A u \in Threads \ {x} : pc'[u] = pc[u]

LEMMA GotoMoves ==
  ASSUME Types, NEW x \in Threads, NEW from, NEW to, Goto(x, from, to)
  PROVE  pc[x] = from /\ Moves(x, to)
BY DEF Types, Goto, Moves

\* An actor gets ready, fails, or ends because it was cancelled; it has not
\* touched the mutex yet.
LEMMA ActorStep ==
  ASSUME IInv, NEW x \in Tids,
         \/ ActorServes(x)
         \/ \E st \in ExitStats : ActorFails(x, st)
         \/ Die(x)
  PROVE  IInv'
<1>1. /\ UNCHANGED <<ast_lock, lists, tid, cancelled, joined>>
      /\ pc[x] \in {"init", "serving"}
  BY DEF ActorServes, ActorFails, Die, Goto, history
<1>2. /\ actor_threads' = actor_threads
      /\ actor_exit_notify' = actor_exit_notify
  BY <1>1 DEF lists
<1>3. /\ \/ Moves(x, "serving") /\ status' = status
         \/ Moves(x, "exited") /\ x \in cancelled /\ status' = status
         \/ Moves(x, "notify") /\ \E st \in ExitStats : status' = [status EXCEPT ![x] = st]
  <2>1. CASE ActorServes(x)
    BY <2>1, Names, GotoMoves DEF ActorServes, IInv
  <2>2. CASE \E st \in ExitStats : ActorFails(x, st)
    BY <2>2, Names, GotoMoves DEF ActorFails, IInv
  <2>3. CASE Die(x)
    BY <2>3, Names DEF Die, IInv, Types, Moves
  <2> QED  BY <2>1, <2>2, <2>3
<1>4. /\ DOMAIN pc' = Threads
      /\ \A u \in Threads \ {x} : pc'[u] = pc[u]
      /\ pc'[x] \in {"serving", "notify", "exited"}
      /\ pc'[x] = "exited" => x \in cancelled
  BY <1>3 DEF Moves
<1>5. /\ status' \in [Tids -> Int]
      /\ \A u \in Tids \ {x} : status'[u] = status[u]
      /\ pc'[x] # "notify" => status'[x] = status[x]
  <2>1. ExitStats \subseteq Int
    BY PoolAssumption DEF PoolAssumption
  <2> QED  BY <1>3, <2>1 DEF Moves, IInv, Types
<1>6. pc'[Main] = pc[Main] /\ pc'[Monitor] = pc[Monitor]
  BY <1>4, Names
<1>7. Types'
  BY <1>1, <1>2, <1>4, <1>5, <1>6 DEF IInv, Types
<1>8. Mutex'
  BY <1>1, <1>4, <1>6, Names DEF IInv, Mutex
<1>9. Loops'
  BY <1>1, <1>2, <1>6 DEF IInv, Loops
<1>10. ASSUME NEW t \in Tids, t # x PROVE (Life(t) /\ Recorded(t) /\ Noticed(t))'
  <2>1. pc'[t] = pc[t] /\ status'[t] = status[t]
    BY <1>4, <1>5, <1>10, Names
  <2>2. Life(t) /\ Recorded(t) /\ Noticed(t)
    BY DEF IInv
  <2> QED  BY <1>1, <1>2, <1>6, <2>1, <2>2 DEF Life, Owned, Recorded, Noticed
<1>11. Life(x)'
  <2>1. Life(x) /\ (pc[Main] \in Starting => cancelled = {})
    BY DEF IInv, Loops
  <2>2. pc[Main] = "add" => pc[Main] \in Starting
    BY DEF Starting
  <2> QED  BY <1>1, <1>2, <1>4, <1>5, <1>6, <2>1, <2>2 DEF Life, Owned
<1>12. Recorded(x)'
  BY <1>1, <1>2, <1>4, <1>5 DEF IInv, Recorded
<1>13. Noticed(x)'
  <2>1. pc[Monitor] = "unlock" /\ x \in TidsOf(actor_threads) => cancelled = {}
    <3> SUFFICES ASSUME pc[Monitor] = "unlock", x \in TidsOf(actor_threads)
                 PROVE  cancelled = {}
      OBVIOUS
    <3>1. pc[Main] \notin MainCritical
      BY Names DEF IInv, Mutex
    <3>2. actor_threads # <<>>
      BY SMTT(30) DEF TidsOf
    <3>3. pc[Main] \in Starting
      BY <3>1, <3>2 DEF IInv, Types, Loops
    <3> QED  BY <3>3 DEF IInv, Loops
  <2> QED  BY <1>1, <1>2, <1>4, <1>6, <2>1 DEF IInv, Noticed
<1> QED  BY <1>7, <1>8, <1>9, <1>10, <1>11, <1>12, <1>13 DEF IInv

\* An actor takes the mutex to record its status, or gives it back.
LEMMA NotifyLockStep ==
  ASSUME IInv, NEW x \in Tids, NotifyLock(x) \/ NotifyUnlock(x)
  PROVE  IInv'
<1>1. /\ UNCHANGED <<lists, tid, status, cancelled, joined>>
      /\ actor_threads' = actor_threads
      /\ actor_exit_notify' = actor_exit_notify
  BY DEF NotifyLock, NotifyUnlock, lists, history
<1>2. \/ /\ pc[x] = "notify" /\ Moves(x, "notify_set")
         /\ ast_lock = NoThread /\ ast_lock' = x
      \/ /\ pc[x] = "notify_unlock" /\ Moves(x, "exited")
         /\ ast_lock = x /\ ast_lock' = NoThread
  <2>1. CASE NotifyLock(x)
    BY <2>1, Names, GotoMoves DEF NotifyLock, Lock, IInv
  <2>2. CASE NotifyUnlock(x)
    BY <2>2, Names, GotoMoves DEF NotifyUnlock, Unlock, IInv
  <2> QED  BY <2>1, <2>2
<1>3. /\ DOMAIN pc' = Threads
      /\ \A u \in Threads \ {x} : pc'[u] = pc[u]
      /\ pc'[Main] = pc[Main] /\ pc'[Monitor] = pc[Monitor]
  BY <1>2, Names DEF Moves
<1>4. pc[Main] \notin MainCritical /\ pc[Monitor] \notin {"join", "unlock"}
  BY <1>2, Names DEF IInv, Mutex
<1>5. Types'
  BY <1>1, <1>3 DEF IInv, Types
<1>6. Mutex'
  BY <1>2, <1>3, Names DEF IInv, Mutex, Moves
<1>7. Loops'
  BY <1>1, <1>3 DEF IInv, Loops
<1>8. ASSUME NEW t \in Tids, t # x PROVE (Life(t) /\ Recorded(t) /\ Noticed(t))'
  <2>1. pc'[t] = pc[t]
    BY <1>3, <1>8, Names
  <2>2. Life(t) /\ Recorded(t) /\ Noticed(t)
    BY DEF IInv
  <2> QED  BY <1>1, <1>3, <2>1, <2>2 DEF Life, Owned, Recorded, Noticed
<1>9. Life(x)'
  <2>1. Life(x) /\ pc[Main] # "add"
    BY <1>4 DEF IInv, MainCritical
  <2> QED  BY <1>1, <1>2, <1>3, <2>1 DEF Life, Owned, Moves
<1>10. Recorded(x)'
  BY <1>1, <1>2 DEF IInv, Recorded, Moves
<1>11. Noticed(x)'
  BY <1>1, <1>2, <1>3, <1>4 DEF IInv, Noticed, Moves
<1> QED  BY <1>5, <1>6, <1>7, <1>8, <1>9, <1>10, <1>11 DEF IInv

\* An actor records its status and wakes the monitor.
LEMMA NotifySetStep == ASSUME IInv, NEW x \in Tids, NotifySet(x) PROVE IInv'
<1>1. /\ UNCHANGED <<ast_lock, tid, status, cancelled, joined>>
      /\ actor_exit_notify' = actor_exit_notify + 1
  BY DEF NotifySet, history
<1>2. pc[x] = "notify_set" /\ Moves(x, "notify_unlock")
  BY Names, GotoMoves DEF NotifySet, IInv
<1>3. /\ DOMAIN pc' = Threads
      /\ \A u \in Threads \ {x} : pc'[u] = pc[u]
      /\ pc'[Main] = pc[Main] /\ pc'[Monitor] = pc[Monitor]
  BY <1>2, Names DEF Moves
<1>4. /\ ast_lock = x
      /\ pc[Main] \notin MainCritical /\ pc[Monitor] \notin {"join", "unlock"}
  BY <1>2, Names DEF IInv, Mutex
<1>5. /\ actor_threads' \in Seq(Entry) /\ Distinct(actor_threads')
      /\ TidsOf(actor_threads') = TidsOf(actor_threads)
      /\ actor_threads' = <<>> <=> actor_threads = <<>>
      /\ \A e \in Entries(actor_threads') :
           \/ e.tid = x /\ e.exitstat = status[x]
           \/ e.tid # x /\ e \in Entries(actor_threads)
  <2>1. /\ actor_threads \in Seq(Entry) /\ Distinct(actor_threads)
        /\ status[x] \in Int
    BY DEF IInv, Types
  <2>2. actor_threads' = [k \in DOMAIN actor_threads |->
          IF actor_threads[k].tid = x
          THEN [actor_threads[k] EXCEPT !.exitstat = status[x]]
          ELSE actor_threads[k]]
    BY DEF NotifySet
  <2>3. \A k \in DOMAIN actor_threads : actor_threads[k] \in Entry
    BY <2>1, SMTT(30)
  <2>4. StatusSet(actor_threads, actor_threads', x, status[x])
    BY ONLY <2>1, <2>2, <2>3 DEF StatusSet, Entry
  <2> QED  BY ONLY <2>1, <2>4, SetList, Zenon
<1>6. actor_exit_notify' \in Nat /\ actor_exit_notify' > 0
  BY <1>1, SMTT(30) DEF IInv, Types
<1>7. Types'
  BY <1>1, <1>3, <1>5, <1>6 DEF IInv, Types
<1>8. Mutex'
  BY <1>1, <1>2, <1>3, Names DEF IInv, Mutex, Moves
<1>9. Loops'
  BY <1>1, <1>3, <1>5 DEF IInv, Loops
<1>10. ASSUME NEW t \in Tids PROVE Life(t)'
  <2>1. Life(t) /\ pc[Main] # "add"
    BY <1>4 DEF IInv, MainCritical
  <2>2. t # x => pc'[t] = pc[t]
    BY <1>3, Names
  <2> QED  BY <1>1, <1>2, <1>3, <1>5, <2>1, <2>2 DEF Life, Owned, Moves
<1>11. ASSUME NEW t \in Tids PROVE Recorded(t)'
  <2>1. t # x => pc'[t] = pc[t]
    BY <1>3, Names
  <2> QED  BY <1>1, <1>5, <2>1 DEF IInv, Recorded
<1>12. ASSUME NEW t \in Tids PROVE Noticed(t)'
  BY <1>3, <1>4, <1>6 DEF Noticed
<1> QED  BY <1>7, <1>8, <1>9, <1>10, <1>11, <1>12 DEF IInv

-----------------------------------------------------------------------------
(* Steps of main.                                                          *)

\* Main moves and leaves the list alone: the actors see nothing of it.
LEMMA MainFrame ==
  ASSUME IInv, NEW to, Moves(Main, to), to # "add", pc[Main] # "add",
         UNCHANGED <<lists, status, joined>>, cancelled \subseteq cancelled'
  PROVE  \A t \in Tids : (Life(t) /\ Recorded(t) /\ Noticed(t))'
<1> SUFFICES ASSUME NEW t \in Tids PROVE (Life(t) /\ Recorded(t) /\ Noticed(t))'
  OBVIOUS
<1>1. /\ actor_threads' = actor_threads /\ actor_exit_notify' = actor_exit_notify
      /\ status' = status /\ joined' = joined
  BY DEF lists
<1>2. /\ pc'[t] = pc[t] /\ pc'[Monitor] = pc[Monitor] /\ pc'[Main] # "add"
  BY Names DEF Moves
<1>3. Life(t) /\ Recorded(t) /\ Noticed(t)
  BY DEF IInv
<1>4. Life(t)'
  BY <1>1, <1>2, <1>3 DEF Life, Owned
<1>5. Recorded(t)' /\ Noticed(t)'
  BY <1>1, <1>2, <1>3 DEF Recorded, Noticed
<1> QED  BY <1>4, <1>5

\* The steps of main between its mutex operations and the list.
LEMMA MainLockStep ==
  ASSUME IInv,
         \/ StartLock \/ StartUnlock \/ nfscd_destroy
         \/ DestroyLock \/ DestroyCancel \/ DestroyUnlock
  PROVE  IInv'
<1>1. /\ UNCHANGED <<lists, status, joined, tid>>
      /\ cancelled \subseteq cancelled'
      /\ actor_threads' = actor_threads /\ actor_exit_notify' = actor_exit_notify
  BY DEF StartLock, StartUnlock, nfscd_destroy, DestroyLock, DestroyCancel,
         DestroyUnlock, lists, history
<1> DEFINE Turn(to) ==
      \/ pc[Main] = "start" /\ to = "create"
         /\ ast_lock = NoThread /\ ast_lock' = Main /\ cancelled' = cancelled
      \/ pc[Main] = "start_unlock" /\ to \in {"start", "fuse"}
         /\ ast_lock' = NoThread /\ cancelled' = cancelled
      \/ pc[Main] = "fuse" /\ to = "destroy"
         /\ ast_lock' = ast_lock /\ cancelled' = cancelled
      \/ pc[Main] = "destroy" /\ to = "destroy_unlock" /\ actor_threads = <<>>
         /\ ast_lock = NoThread /\ ast_lock' = Main
      \/ pc[Main] = "destroy" /\ to = "cancel" /\ actor_threads # <<>>
         /\ ast_lock = NoThread /\ ast_lock' = Main
      \/ pc[Main] = "cancel" /\ to = "destroy_join" /\ ast_lock' = ast_lock
      \/ pc[Main] = "destroy_unlock" /\ to = "done" /\ ast_lock' = NoThread
<1>2. \E to : Moves(Main, to) /\ Turn(to)
  <2> USE Names, GotoMoves DEF IInv, Lock, Unlock
  <2>1. CASE StartLock  BY <2>1 DEF StartLock
  <2>2. CASE StartUnlock  BY <2>2 DEF StartUnlock
  <2>3. CASE nfscd_destroy  BY <2>3 DEF nfscd_destroy
  <2>4. CASE DestroyLock  BY <2>4 DEF DestroyLock
  <2>5. CASE DestroyCancel  BY <2>5 DEF DestroyCancel
  <2>6. CASE DestroyUnlock  BY <2>6 DEF DestroyUnlock
  <2> QED  BY <2>1, <2>2, <2>3, <2>4, <2>5, <2>6
<1>3. PICK to : Moves(Main, to) /\ Turn(to)
  BY <1>2
<1>4. /\ DOMAIN pc' = Threads /\ pc'[Main] = to
      /\ pc'[Monitor] = pc[Monitor] /\ \A t \in Tids : pc'[t] = pc[t]
  BY <1>3, Names DEF Moves
<1>5. Types'
  <2>1. pc'[Main] \in Starting \cup MainCritical \cup {"done"}
    BY <1>3, <1>4 DEF Starting, MainCritical
  <2> QED  BY <1>1, <1>4, <2>1 DEF IInv, Types
<1>6. Mutex'
  BY <1>3, <1>4, Names DEF IInv, Mutex, MainCritical
<1>7. Loops'
  BY <1>1, <1>3, <1>4 DEF IInv, Loops, Starting
<1>8. pc[Main] # "add" /\ to # "add"
  BY <1>3
<1> QED  BY <1>1, <1>3, <1>5, <1>6, <1>7, <1>8, MainFrame DEF IInv

\* pthread_create, by main.
LEMMA StartCreateStep == ASSUME IInv, NEW x \in Tids, StartCreate(x) PROVE IInv'
<1>1. /\ UNCHANGED <<ast_lock, lists, status, cancelled, joined>>
      /\ actor_threads' = actor_threads /\ actor_exit_notify' = actor_exit_notify
      /\ tid' = x /\ pc[Main] = "create" /\ pc[x] = "unborn"
  BY DEF StartCreate, lists, history, Unborn
<1>2. /\ DOMAIN pc' = Threads /\ pc'[Main] = "add" /\ pc'[x] = "init"
      /\ \A u \in Threads \ {Main, x} : pc'[u] = pc[u]
      /\ pc'[Monitor] = pc[Monitor]
  BY Names DEF StartCreate, IInv, Types
<1>3. x \notin TidsOf(actor_threads) /\ joined[x] = 0
  BY <1>1 DEF IInv, Life, Owned
<1>4. ast_lock = Main /\ pc[Monitor] \notin {"join", "unlock"}
  BY <1>1, Names DEF IInv, Mutex, MainCritical
<1>5. Types'
  BY <1>1, <1>2 DEF IInv, Types, MainCritical
<1>6. Mutex'
  BY <1>1, <1>2, Names DEF IInv, Mutex, MainCritical
<1>7. Loops'
  BY <1>1, <1>2, <1>3, <1>4 DEF IInv, Loops, Starting
<1>8. ASSUME NEW t \in Tids, t # x PROVE (Life(t) /\ Recorded(t) /\ Noticed(t))'
  <2>1. pc'[t] = pc[t]
    BY <1>2, <1>8, Names
  <2>2. Life(t) /\ Recorded(t) /\ Noticed(t)
    BY DEF IInv
  <2> QED  BY <1>1, <1>2, <1>8, <2>1, <2>2 DEF Life, Owned, Recorded, Noticed
<1>9. Life(x)'
  BY <1>1, <1>2, <1>3 DEF IInv, Life, Owned
<1>10. Recorded(x)' /\ Noticed(x)'
  BY <1>1, <1>2, <1>3 DEF IInv, Recorded, Noticed
<1> QED  BY <1>5, <1>6, <1>7, <1>8, <1>9, <1>10 DEF IInv

\* Main puts the new thread on the list.
LEMMA StartAddStep == ASSUME IInv, StartAdd PROVE IInv'
<1> DEFINE new == [tid |-> tid, exitstat |-> DEFAULT_EXIT_STATUS]
<1>1. /\ UNCHANGED <<ast_lock, actor_exit_notify, tid, status, cancelled, joined>>
      /\ actor_threads' = Append(actor_threads, new)
  BY DEF StartAdd, history
<1>2. pc[Main] = "add" /\ Moves(Main, "start_unlock")
  BY Names, GotoMoves DEF StartAdd, IInv
<1>3. /\ DOMAIN pc' = Threads /\ pc'[Main] = "start_unlock"
      /\ pc'[Monitor] = pc[Monitor] /\ \A t \in Tids : pc'[t] = pc[t]
  BY <1>2, Names DEF Moves
<1>4. /\ tid \in Tids /\ tid \notin TidsOf(actor_threads)
      /\ new \in Entry /\ new.tid = tid /\ new.exitstat = DEFAULT_EXIT_STATUS
  BY <1>2, SMTT(30) DEF IInv, Loops, Entry, DEFAULT_EXIT_STATUS
<1> HIDE DEF new
<1>5. /\ actor_threads' \in Seq(Entry) /\ Distinct(actor_threads')
      /\ actor_threads' # <<>>
      /\ Entries(actor_threads') = Entries(actor_threads) \cup {new}
      /\ TidsOf(actor_threads') = TidsOf(actor_threads) \cup {tid}
  BY <1>1, <1>4, AppendList DEF IInv, Types
<1>6. ast_lock = Main /\ pc[Monitor] \notin {"join", "unlock"}
  BY <1>2, Names DEF IInv, Mutex, MainCritical
<1>7. Types'
  BY <1>1, <1>3, <1>5 DEF IInv, Types, MainCritical
<1>8. Mutex'
  BY <1>1, <1>2, <1>3, Names DEF IInv, Mutex, MainCritical
<1>9. Loops'
  BY <1>1, <1>2, <1>3, <1>5 DEF IInv, Loops, Starting
<1>10. ASSUME NEW t \in Tids PROVE Life(t)'
  BY <1>1, <1>2, <1>3, <1>5 DEF IInv, Life, Owned
<1>11. ASSUME NEW t \in Tids PROVE Recorded(t)'
  <2>1. Life(t) /\ Recorded(t)
    BY DEF IInv
  <2>2. t = tid => pc[t] \in {"init", "serving", "notify"}
    BY <1>2, <2>1 DEF Life
  <2>3. t = tid /\ pc[t] \in {"init", "serving"} => status[t] = DEFAULT_EXIT_STATUS
    BY <2>1 DEF Life
  <2> QED  BY <1>1, <1>3, <1>4, <1>5, <2>1, <2>2, <2>3 DEF Recorded
<1>12. ASSUME NEW t \in Tids PROVE Noticed(t)'
  <2>1. Life(t) /\ Noticed(t)
    BY DEF IInv
  <2>2. t = tid => pc[t] \in {"init", "serving", "notify"}
    BY <1>2, <2>1 DEF Life
  <2> QED  BY <1>1, <1>3, <1>5, <1>6, <2>1, <2>2 DEF Noticed
<1> QED  BY <1>7, <1>8, <1>9, <1>10, <1>11, <1>12 DEF IInv

\* nfscd_destroy joins the first thread of the list.
LEMMA DestroyJoinStep == ASSUME IInv, DestroyJoin PROVE IInv'
<1> DEFINE x == Head(actor_threads).tid
<1>1. /\ UNCHANGED <<ast_lock, actor_exit_notify, tid, status, cancelled>>
      /\ actor_threads' = Tail(actor_threads)
      /\ pc[x] = "exited" /\ Joined(x)
  BY DEF DestroyJoin
<1>2. /\ pc[Main] = "destroy_join"
      /\ Moves(Main, IF Len(actor_threads) > 1 THEN "cancel" ELSE "destroy_unlock")
  BY Names, GotoMoves DEF DestroyJoin, IInv
<1>3. /\ DOMAIN pc' = Threads
      /\ pc'[Main] = IF Len(actor_threads) > 1 THEN "cancel" ELSE "destroy_unlock"
      /\ pc'[Monitor] = pc[Monitor] /\ \A t \in Tids : pc'[t] = pc[t]
  BY <1>2, Names DEF Moves
<1>4. /\ actor_threads' \in Seq(Entry) /\ Distinct(actor_threads')
      /\ Head(actor_threads) \in Entry
      /\ Entries(actor_threads') \subseteq Entries(actor_threads)
      /\ TidsOf(actor_threads') = TidsOf(actor_threads) \ {x}
      /\ x \in TidsOf(actor_threads)
      /\ Len(actor_threads) > 1 <=> actor_threads' # <<>>
  BY <1>1, <1>2, TailList DEF IInv, Types, Loops
<1>5. x \in Tids
  BY <1>4 DEF Entry
<1> HIDE DEF x
<1>6. /\ joined' \in [Tids -> Nat] /\ joined'[x] = joined[x] + 1
      /\ \A t \in Tids \ {x} : joined'[t] = joined[t]
  BY <1>1, <1>5, SMTT(30) DEF IInv, Types, Joined
<1>7. ast_lock = Main /\ pc[Monitor] \notin {"join", "unlock"}
  BY <1>2, Names DEF IInv, Mutex, MainCritical
<1>8. pc'[Main] \in {"cancel", "destroy_unlock"}
  BY <1>3
<1>9. Types'
  <2>1. pc'[Main] \in Starting \cup MainCritical \cup {"done"}
    BY ONLY <1>8 DEF MainCritical
  <2>2. /\ actor_exit_notify' \in Nat /\ status' \in [Tids -> Int]
        /\ pc'[Monitor] \in {"wait", "lock", "join", "unlock"}
    BY <1>1, <1>3 DEF IInv, Types
  <2> QED  BY ONLY <1>3, <1>4, <1>6, <2>1, <2>2, Zenon DEF Types
<1>10. Mutex'
  BY <1>1, <1>3, <1>7, <1>8, Names DEF IInv, Mutex, MainCritical
<1>11. Loops'
  <2>1. pc'[Main] \notin Starting /\ pc'[Main] # "add"
    BY ONLY <1>8 DEF Starting
  <2>2. pc'[Main] = "cancel" => actor_threads' # <<>>
    BY ONLY <1>3, <1>4
  <2>3. pc'[Main] = "destroy_unlock" => actor_threads' = <<>>
    BY ONLY <1>3, <1>4
  <2> QED  BY ONLY <1>3, <1>7, <1>8, <2>1, <2>2, <2>3 DEF Loops
<1>12. ASSUME NEW t \in Tids PROVE Life(t)'
  <2>1. Life(t)
    BY DEF IInv
  <2>2. CASE t = x
    <3>1. pc'[t] = "exited" /\ joined[t] = 0 /\ pc'[Main] # "add"
      BY <1>1, <1>3, <1>4, <1>8, <2>1, <2>2 DEF Life, Owned
    <3>2. joined'[t] = 1
      BY <1>6, <2>2, <3>1, SMTT(30)
    <3>3. ~Owned(t)'
      BY <1>4, <2>2, <3>1 DEF Owned
    <3> QED  BY ONLY <3>1, <3>2, <3>3 DEF Life
  <2>3. CASE t # x
    BY <1>1, <1>2, <1>3, <1>4, <1>6, <1>8, <2>1, <2>3 DEF Life, Owned
  <2> QED  BY <2>2, <2>3
<1>13. ASSUME NEW t \in Tids PROVE Recorded(t)' /\ Noticed(t)'
  <2>1. Recorded(t) /\ Noticed(t)
    BY DEF IInv
  <2>2. /\ status' = status /\ cancelled' = cancelled
        /\ actor_exit_notify' = actor_exit_notify
        /\ pc'[t] = pc[t] /\ pc'[Monitor] = pc[Monitor]
        /\ Entries(actor_threads') \subseteq Entries(actor_threads)
        /\ TidsOf(actor_threads') \subseteq TidsOf(actor_threads)
    BY <1>1, <1>3, <1>4
  <2>3. Recorded(t)'
    BY ONLY <2>1, <2>2, Zenon DEF Recorded
  <2>4. Noticed(t)'
    BY ONLY <2>1, <2>2 DEF Noticed
  <2> QED  BY <2>3, <2>4
<1> QED  BY <1>9, <1>10, <1>11, <1>12, <1>13 DEF IInv

-----------------------------------------------------------------------------
(* Steps of the monitor.                                                   *)

\* The monitor wakes up, takes the mutex and gives it back.
LEMMA MonitorLockStep ==
  ASSUME IInv, MonitorWait \/ MonitorLock \/ MonitorUnlock PROVE IInv'
<1>1. /\ UNCHANGED <<tid, status, cancelled, joined>>
      /\ actor_threads' = actor_threads
  BY DEF MonitorWait, MonitorLock, MonitorUnlock, lists, history
<1> DEFINE Turn(to) ==
      \/ pc[Monitor] = "wait" /\ to = "lock" /\ ast_lock' = ast_lock
         /\ actor_exit_notify > 0 /\ actor_exit_notify' = actor_exit_notify - 1
      \/ pc[Monitor] = "lock" /\ to = "join" /\ actor_threads # <<>>
         /\ ast_lock = NoThread /\ ast_lock' = Monitor
         /\ actor_exit_notify' = actor_exit_notify
      \/ pc[Monitor] = "lock" /\ to = "unlock" /\ actor_threads = <<>>
         /\ ast_lock = NoThread /\ ast_lock' = Monitor
         /\ actor_exit_notify' = actor_exit_notify
      \/ pc[Monitor] = "unlock" /\ to = "wait" /\ ast_lock' = NoThread
         /\ actor_exit_notify' = actor_exit_notify
<1>2. \E to : Moves(Monitor, to) /\ Turn(to)
  <2> USE Names, GotoMoves DEF IInv, Lock, Unlock, lists
  <2>1. CASE MonitorWait  BY <2>1 DEF MonitorWait
  <2>2. CASE MonitorLock  BY <2>2 DEF MonitorLock
  <2>3. CASE MonitorUnlock  BY <2>3 DEF MonitorUnlock
  <2> QED  BY <2>1, <2>2, <2>3
<1>3. PICK to : Moves(Monitor, to) /\ Turn(to)
  BY <1>2
<1>4. /\ DOMAIN pc' = Threads /\ pc'[Monitor] = to
      /\ pc'[Main] = pc[Main] /\ \A t \in Tids : pc'[t] = pc[t]
  BY <1>3, Names DEF Moves
<1>5. Types'
  BY <1>1, <1>3, <1>4, SMTT(30) DEF IInv, Types
<1>6. Mutex'
  BY <1>3, <1>4, Names DEF IInv, Mutex
<1>7. Loops'
  BY <1>1, <1>3, <1>4 DEF IInv, Loops
<1>8. ASSUME NEW t \in Tids PROVE Life(t)' /\ Recorded(t)'
  <2>1. Life(t) /\ Recorded(t)
    BY DEF IInv
  <2> QED  BY ONLY <1>1, <1>4, <2>1, Zenon DEF Life, Owned, Recorded
<1>9. ASSUME NEW t \in Tids PROVE Noticed(t)'
  <2>1. actor_threads = <<>> => t \notin TidsOf(actor_threads)
    BY SMTT(30) DEF TidsOf
  <2>2. Noticed(t) /\ actor_exit_notify \in Nat
    BY DEF IInv, Types
  <2> QED  BY <1>1, <1>3, <1>4, <2>1, <2>2 DEF Noticed
<1> QED  BY <1>5, <1>6, <1>7, <1>8, <1>9 DEF IInv

\* The monitor joins the first thread of the list, and may start another.
LEMMA MonitorReapStep == ASSUME IInv, MonitorReap PROVE IInv'
<1> DEFINE x == Head(actor_threads).tid
           rest == Tail(actor_threads)
<1>1. /\ UNCHANGED <<ast_lock, actor_exit_notify, tid, status, cancelled>>
      /\ pc[Monitor] = "join" /\ pc[x] = "exited" /\ Joined(x)
  BY DEF MonitorReap
<1>2. /\ rest \in Seq(Entry) /\ Distinct(rest)
      /\ Head(actor_threads) \in Entry
      /\ Entries(rest) \subseteq Entries(actor_threads)
      /\ TidsOf(rest) = TidsOf(actor_threads) \ {x}
      /\ x \in TidsOf(actor_threads)
      /\ Len(actor_threads) > 1 <=> rest # <<>>
  BY <1>1, TailList DEF IInv, Types, Loops
<1>3. x \in Tids
  BY <1>2 DEF Entry
<1>4. /\ AfterJoin \in {"join", "unlock"}
      /\ AfterJoin = "join" <=> rest # <<>>
      /\ AfterJoin = "unlock" => TidsOf(rest) = {}
  BY <1>2, SMTT(30) DEF AfterJoin, TidsOf
<1>5. \/ /\ pc' = [pc EXCEPT ![Monitor] = AfterJoin]
         /\ actor_threads' = rest
      \/ \E y \in Unborn :
           /\ pc' = [pc EXCEPT ![Monitor] = AfterJoin, ![y] = "init"]
           /\ actor_threads' =
                Append(rest, [tid |-> y, exitstat |-> DEFAULT_EXIT_STATUS])
  BY DEF MonitorReap
<1> HIDE DEF x, rest
<1>6. /\ joined' \in [Tids -> Nat] /\ joined'[x] = joined[x] + 1
      /\ \A t \in Tids \ {x} : joined'[t] = joined[t]
  BY <1>1, <1>3, SMTT(30) DEF IInv, Types, Joined
<1>7. /\ ast_lock = Monitor /\ pc[Main] \notin MainCritical
      /\ actor_threads # <<>> /\ pc[Main] # "add"
      /\ pc[Main] \notin {"cancel", "destroy_join", "destroy_unlock", "done"}
  BY <1>1, Names DEF IInv, Mutex, Loops, MainCritical
<1>8. CASE /\ pc' = [pc EXCEPT ![Monitor] = AfterJoin]
           /\ actor_threads' = rest
  <2>1. /\ DOMAIN pc' = Threads /\ pc'[Monitor] = AfterJoin
        /\ pc'[Main] = pc[Main] /\ \A t \in Tids : pc'[t] = pc[t]
    BY <1>8, Names DEF IInv, Types
  <2>2. Types'
    BY <1>1, <1>2, <1>4, <1>6, <1>8, <2>1 DEF IInv, Types
  <2>3. Mutex'
    BY <1>1, <1>4, <1>7, <2>1, Names DEF IInv, Mutex
  <2>4. Loops'
    BY <1>1, <1>4, <1>7, <1>8, <2>1 DEF IInv, Loops
  <2>5. ASSUME NEW t \in Tids PROVE Life(t)'
    <3>1. Life(t)
      BY DEF IInv
    <3>2. CASE t = x
      <4>1. pc'[t] = "exited" /\ joined[t] = 0 /\ pc'[Main] # "add"
        BY <1>1, <1>2, <1>7, <2>1, <3>1, <3>2 DEF Life, Owned
      <4>2. joined'[t] = 1
        BY <1>6, <3>2, <4>1, SMTT(30)
      <4>3. ~Owned(t)'
        BY <1>2, <1>8, <3>2, <4>1 DEF Owned
      <4> QED  BY ONLY <4>1, <4>2, <4>3 DEF Life
    <3>3. CASE t # x
      <4>1. /\ pc'[t] = pc[t] /\ pc'[Main] = pc[Main] /\ joined'[t] = joined[t]
            /\ tid' = tid /\ status' = status
        BY <1>1, <1>6, <2>1, <3>3
      <4>2. Owned(t)' <=> Owned(t)
        BY ONLY <1>2, <1>8, <3>3, <4>1 DEF Owned
      <4> QED  BY ONLY <3>1, <4>1, <4>2 DEF Life
    <3> QED  BY <3>2, <3>3
  <2>6. ASSUME NEW t \in Tids PROVE Recorded(t)' /\ Noticed(t)'
    BY <1>1, <1>2, <1>4, <1>8, <2>1 DEF IInv, Recorded, Noticed
  <2> QED  BY <2>2, <2>3, <2>4, <2>5, <2>6 DEF IInv
<1>9. ASSUME NEW y \in Unborn,
             pc' = [pc EXCEPT ![Monitor] = AfterJoin, ![y] = "init"],
             actor_threads' =
               Append(rest, [tid |-> y, exitstat |-> DEFAULT_EXIT_STATUS])
      PROVE  IInv'
  <2> DEFINE new == [tid |-> y, exitstat |-> DEFAULT_EXIT_STATUS]
  <2>1. y \in Tids /\ pc[y] = "unborn"
    BY DEF Unborn
  <2>2. /\ DOMAIN pc' = Threads /\ pc'[Monitor] = AfterJoin /\ pc'[y] = "init"
        /\ pc'[Main] = pc[Main] /\ \A t \in Tids \ {y} : pc'[t] = pc[t]
    BY <1>9, <2>1, Names DEF IInv, Types
  <2>3. /\ y \notin TidsOf(actor_threads) /\ joined[y] = 0 /\ y # x
        /\ status[y] = DEFAULT_EXIT_STATUS
    <3>1. Life(y)
      BY <2>1 DEF IInv
    <3>2. y # x
      BY <1>1, <2>1
    <3> QED  BY ONLY <2>1, <3>1, <3>2 DEF Life, Owned
  <2>4. new \in Entry /\ new.tid = y /\ new.exitstat = DEFAULT_EXIT_STATUS
    BY <2>1, SMTT(30) DEF Entry, DEFAULT_EXIT_STATUS
  <2> HIDE DEF new
  <2>5. /\ actor_threads' \in Seq(Entry) /\ Distinct(actor_threads')
        /\ actor_threads' # <<>>
        /\ Entries(actor_threads') = Entries(rest) \cup {new}
        /\ TidsOf(actor_threads') = TidsOf(rest) \cup {y}
    <3>1. actor_threads' = Append(rest, new)
      BY <1>9 DEF new
    <3> QED  BY <1>2, <2>3, <2>4, <3>1, AppendList
  <2>6. Types'
    BY <1>1, <1>4, <1>6, <2>2, <2>5 DEF IInv, Types
  <2>7. Mutex'
    BY <1>1, <1>4, <1>7, <2>1, <2>2, Names DEF IInv, Mutex
  <2>8. Loops'
    <3>1. pc[Main] \in Starting => cancelled = {}
      BY DEF IInv, Loops
    <3>2. /\ pc'[Main] = pc[Main] /\ cancelled' = cancelled
          /\ actor_threads' # <<>>
      BY <1>1, <2>2, <2>5
    <3> QED  BY ONLY <1>7, <3>1, <3>2 DEF Loops
  <2>9. ASSUME NEW t \in Tids PROVE Life(t)'
    <3>1. Life(t)
      BY DEF IInv
    <3>2. CASE t = x
      <4>1. pc'[x] = "exited" /\ joined[x] = 0
        BY <1>1, <1>2, <1>3, <2>2, <2>3, <3>1, <3>2 DEF Life, Owned
      <4>2. joined'[x] = 1
        BY <1>6, <4>1, SMTT(30)
      <4>3. pc'[Main] # "add"
        BY <1>7, <2>2
      <4>4. ~Owned(t)'
        BY <1>2, <2>3, <2>5, <3>2, <4>3 DEF Owned
      <4> QED  BY <3>2, <4>1, <4>2, <4>3, <4>4 DEF Life
    <3>3. CASE t = y
      BY <1>1, <1>6, <1>7, <2>2, <2>3, <2>5, <3>3 DEF Life, Owned
    <3>4. CASE t # x /\ t # y
      <4>1. pc'[t] = pc[t] /\ joined'[t] = joined[t] /\ status' = status
        BY <1>1, <1>4, <1>6, <2>2, <3>4
      <4>2. pc[Main] # "add" /\ pc'[Main] # "add"
        BY <1>7, <2>2
      <4>3. t \in TidsOf(actor_threads') <=> t \in TidsOf(actor_threads)
        BY <1>2, <2>5, <3>4
      <4> QED  BY ONLY <3>1, <4>1, <4>2, <4>3 DEF Life, Owned
    <3> QED  BY <3>2, <3>3, <3>4
  <2>10. ASSUME NEW t \in Tids PROVE Recorded(t)'
    <3>1. CASE t = y
      <4>1. \A e \in Entries(rest) : e.tid # y
        BY <1>2, <2>3 DEF Entries, TidsOf
      <4> QED  BY <1>1, <2>3, <2>4, <2>5, <3>1, <4>1 DEF Recorded
    <3>2. CASE t # y
      BY <1>1, <1>2, <2>2, <2>4, <2>5, <3>2 DEF IInv, Recorded
    <3> QED  BY <3>1, <3>2
  <2>11. ASSUME NEW t \in Tids PROVE Noticed(t)'
    <3>1. CASE t = y
      BY <2>2, <3>1 DEF Noticed
    <3>2. CASE t # y
      BY <1>1, <1>2, <1>4, <2>2, <2>5, <3>2 DEF IInv, Noticed
    <3> QED  BY <3>1, <3>2
  <2> QED  BY <2>6, <2>7, <2>8, <2>9, <2>10, <2>11 DEF IInv
<1> QED  BY <1>5, <1>8, <1>9

-----------------------------------------------------------------------------
(* The theorems.                                                           *)

\* Every step keeps the invariant.
LEMMA NextIInv == IInv /\ [Next]_vars => IInv'
<1> SUFFICES ASSUME IInv, [Next]_vars PROVE IInv'
  OBVIOUS
<1>1. CASE UNCHANGED vars
  <2>1. UNCHANGED <<ast_lock, actor_exit_notify, actor_threads, pc, tid, status,
                    cancelled, joined>>
    BY <1>1 DEF vars, lists, history
  <2>2. Types' /\ Mutex' /\ Loops'
    BY <2>1 DEF IInv, Types, Mutex, Loops
  <2>3. ASSUME NEW t \in Tids PROVE Life(t)' /\ Recorded(t)' /\ Noticed(t)'
    <3>1. Life(t) /\ Recorded(t) /\ Noticed(t)
      BY DEF IInv
    <3>2. Life(t)'
      BY ONLY <2>1, <3>1 DEF Life, Owned
    <3> QED  BY ONLY <2>1, <3>1, <3>2 DEF Recorded, Noticed
  <2> QED  BY <2>2, <2>3 DEF IInv
<1>2. CASE nfscd_destroy \/ MainStep
  BY <1>2, MainLockStep, StartCreateStep, StartAddStep, DestroyJoinStep
     DEF MainStep
<1>3. CASE MonitorStep
  BY <1>3, MonitorLockStep, MonitorReapStep DEF MonitorStep
<1>4. ASSUME NEW t \in Tids,
             \/ ActorServes(t)
             \/ \E st \in ExitStats : ActorFails(t, st)
             \/ NotifyStep(t)
             \/ Die(t)
      PROVE  IInv'
  BY <1>4, ActorStep, NotifyLockStep, NotifySetStep DEF NotifyStep
<1> QED  BY <1>1, <1>2, <1>3, <1>4 DEF Next

LEMMA IInvHolds == Spec => []IInv
BY InitIInv, NextIInv, PTL DEF Spec

\* Whoever joins an actor reads the status that the actor has passed to
\* nfscd_notify_actor_exit, also when the actor failed before its creator had
\* put it on the list.
THEOREM StatusRecordedCorrect == Spec => []StatusRecorded
<1>1. IInv => StatusRecorded
  <2> SUFFICES ASSUME IInv, NEW k \in DOMAIN actor_threads,
                      pc[actor_threads[k].tid] = "exited"
               PROVE  actor_threads[k].exitstat = status[actor_threads[k].tid]
    BY DEF StatusRecorded
  <2>1. actor_threads[k] \in Entries(actor_threads)
    BY DEF Entries
  <2>2. actor_threads[k].tid \in Tids
    BY EntryTids DEF IInv, Types
  <2> QED  BY <2>1, <2>2 DEF IInv, Recorded
<1> QED  BY <1>1, IInvHolds, PTL

\* The monitor never sleeps through the exit of an actor.
THEOREM NoLostExitCorrect == Spec => []NoLostExit
<1>1. IInv => NoLostExit
  <2>1. Listed = TidsOf(actor_threads)
    BY DEF Listed, TidsOf
  <2>2. IInv => TidsOf(actor_threads) \subseteq Tids
    BY EntryTids DEF IInv, Types, TidsOf
  <2> QED  BY <2>1, <2>2, SMTT(30) DEF IInv, Noticed, NoLostExit
<1> QED  BY <1>1, IInvHolds, PTL

\* The monitor and nfscd_destroy never join the same thread.
THEOREM JoinedOnceCorrect == Spec => []JoinedOnce
<1>1. IInv => JoinedOnce
  <2>1. \A t \in Tids : Life(t) => joined[t] = 0 \/ joined[t] = 1
    BY DEF Life
  <2>2. IInv => \A t \in Tids : Life(t)
    BY DEF IInv
  <2> QED  BY <2>1, <2>2, SMTT(30) DEF JoinedOnce
<1> QED  BY <1>1, IInvHolds, PTL

\* When nfscd_destroy returns, every actor that was ever started has ended.
THEOREM TeardownCompleteCorrect == Spec => []TeardownComplete
<1>1. IInv => TeardownComplete
  <2> SUFFICES ASSUME IInv, pc[Main] = "done"
               PROVE  /\ \A t \in Tids : pc[t] \in {"unborn", "exited"}
                      /\ actor_threads = <<>>
    BY DEF TeardownComplete
  <2>1. actor_threads = <<>>
    BY DEF IInv, Loops
  <2>2. \A t \in Tids : ~Owned(t)
    BY <2>1, SMTT(30) DEF Owned, TidsOf
  <2> QED  BY <2>1, <2>2 DEF IInv, Life
<1> QED  BY <1>1, IInvHolds, PTL

=============================================================================
