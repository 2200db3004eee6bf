------------------------------ MODULE ActorPool -----------------------------
(***************************************************************************)
(* The life of the actor threads of nfsclientd (src/src/nfscd_ops.c and    *)
(* src/src/nfs3actor.c).  The main thread starts threadpool actors and, at   *)
(* unmount, cancels and joins them.  An actor that cannot go on announces  *)
(* it with nfscd_notify_actor_exit.  The monitor thread, woken by the      *)
(* semaphore actor_exit_notify, joins actors, reports an error status and  *)
(* starts a new actor in the place of one that asked for it.  All three    *)
(* work on the list actor_threads under ast_lock.                          *)
(*                                                                         *)
(* glibc's sem_destroy leaves the semaphore as it is, and the monitor is   *)
(* never cancelled: it may go on after nfscd_destroy.                      *)
(***************************************************************************)
EXTENDS Integers, Sequences, FiniteSets

CONSTANTS
  Tids,         \* actor threads that can be created
  Main,         \* the thread that runs nfscd_init and nfscd_destroy
  Monitor,      \* the thread of nfscd_actor_monitor
  NoThread,     \* ast_lock is free
  PoolSizes,    \* the sizes of the pool that can be asked for
  ExitStats     \* what actors pass to nfscd_notify_actor_exit

DEFAULT_EXIT_STATUS == -1

ASSUME PoolAssumption ==
  /\ IsFiniteSet(Tids)
  /\ Main \notin Tids /\ Monitor \notin Tids /\ Main # Monitor
  /\ NoThread \notin Tids \cup {Main, Monitor}
  /\ PoolSizes \subseteq 1 .. Cardinality(Tids)
  /\ ExitStats \subseteq Int \ {DEFAULT_EXIT_STATUS}

VARIABLES
  threadpool,         \* mountopts.threadpool, set once at start-up
  ast_lock,           \* the thread that holds the mutex
  actor_exit_notify,  \* value of the semaphore
  actor_threads,      \* the list of struct actor_status
  threadcount,
  pc,                 \* where each thread is
  i,                  \* loop counter of init_nfsclient_thread_pool
  tid,                \* the thread main has just created
  status,             \* argument of nfscd_notify_actor_exit
  cancelled,          \* threads pthread_cancel was called for
  joined,             \* history: how often pthread_join returned for a thread
  reported,           \* history: threads whose error status was printed
  replaced            \* history: threads in whose place a new one was started

lists == <<actor_exit_notify, actor_threads, threadcount>>
history == <<joined, reported, replaced>>
vars == <<threadpool, ast_lock, lists, pc, i, tid, status, cancelled, history>>

Threads == Tids \cup {Main, Monitor}
Unborn == {t \in Tids : pc[t] = "unborn"}

Goto(t, from, to) ==
  /\ pc[t] = from
  /\ pc' = [pc EXCEPT ![t] = to]

Lock(t) == ast_lock = NoThread /\ ast_lock' = t
Unlock(t) == ast_lock = t /\ ast_lock' = NoThread

\* init_nfsclient_thread_pool up to the loop.
Init ==
  /\ threadpool \in PoolSizes
  /\ ast_lock = NoThread
  /\ actor_exit_notify = 0
  /\ actor_threads = <<>>
  /\ threadcount = 0
  /\ pc = [t \in Threads |-> IF t = Main THEN "start"
                             ELSE IF t = Monitor THEN "wait" ELSE "unborn"]
  /\ i = 0
  /\ tid = NoThread
  /\ status = [t \in Tids |-> DEFAULT_EXIT_STATUS]
  /\ cancelled = {}
  /\ joined = [t \in Tids |-> 0] /\ reported = {} /\ replaced = {}

-----------------------------------------------------------------------------
(* nfscd_startup_actor, called threadpool times by main.                     *)

\* Faulty variant: the actor is started without the mutex.
StartLockFree ==
  /\ Goto(Main, "start", "create")
  /\ UNCHANGED <<ast_lock, lists, i, tid, status, cancelled, history,
                 threadpool>>

StartLock ==
  /\ Goto(Main, "start", "create")
  /\ Lock(Main)
  /\ UNCHANGED <<lists, i, tid, status, cancelled, history, threadpool>>

\* pthread_create: from here on the actor runs.  It is taken to succeed; the code
\* ignores its result, and without a thread would list an identifier never set.
StartCreate(t) ==
  /\ pc[Main] = "create"
  /\ t \in Unborn
  /\ pc' = [pc EXCEPT ![Main] = "add", ![t] = "init"]
  /\ tid' = t
  /\ UNCHANGED <<ast_lock, lists, i, status, cancelled, history, threadpool>>

StartAdd ==
  /\ Goto(Main, "add", "start_unlock")
  /\ threadcount' = threadcount + 1
  /\ actor_threads' = Append(actor_threads,
                             [tid |-> tid, exitstat |-> DEFAULT_EXIT_STATUS])
  /\ UNCHANGED <<ast_lock, actor_exit_notify, i, tid, status, cancelled,
                 history, threadpool>>

StartUnlock ==
  /\ Goto(Main, "start_unlock", IF i + 1 < threadpool THEN "start" ELSE "fuse")
  /\ ast_lock' = NoThread
  /\ i' = i + 1
  /\ UNCHANGED <<lists, tid, status, cancelled, history, threadpool>>

-----------------------------------------------------------------------------
(* nfs3_request_actor.                                                     *)

\* init_nfs3_actor_thread_state succeeds: the actor serves requests for good.
ActorServes(t) ==
  /\ Goto(t, "init", "serving")
  /\ UNCHANGED <<ast_lock, lists, i, tid, status, cancelled, history,
                 threadpool>>

\* Bound: actors that ask for a restart, so that Tids has a thread for each.
MaxRestarts == Cardinality(Tids) - threadpool

\* It fails: the actor calls nfscd_notify_actor_exit.
ActorFails(t, st) ==
  /\ st < DEFAULT_EXIT_STATUS =>
       Cardinality({u \in Tids : status[u] < DEFAULT_EXIT_STATUS}) < MaxRestarts
  /\ Goto(t, "init", "notify")
  /\ status' = [status EXCEPT ![t] = st]
  /\ UNCHANGED <<ast_lock, lists, i, tid, cancelled, history, threadpool>>

NotifyLock(t) ==
  /\ Goto(t, "notify", "notify_set")
  /\ Lock(t)
  /\ UNCHANGED <<lists, i, tid, status, cancelled, history, threadpool>>

\* Faulty variant: the monitor is only woken for a restart.
NotifySetQuiet(t) ==
  /\ Goto(t, "notify_set", "notify_unlock")
  /\ actor_threads' = [k \in DOMAIN actor_threads |->
       IF actor_threads[k].tid = t
       THEN [actor_threads[k] EXCEPT !.exitstat = status[t]]
       ELSE actor_threads[k]]
  /\ actor_exit_notify' = IF status[t] < DEFAULT_EXIT_STATUS
                          THEN actor_exit_notify + 1 ELSE actor_exit_notify
  /\ UNCHANGED <<ast_lock, threadcount, i, tid, status, cancelled, history,
                 threadpool>>

\* Record the status in the entry of this thread and wake the monitor.
NotifySet(t) ==
  /\ Goto(t, "notify_set", "notify_unlock")
  /\ actor_threads' = [k \in DOMAIN actor_threads |->
       IF actor_threads[k].tid = t
       THEN [actor_threads[k] EXCEPT !.exitstat = status[t]]
       ELSE actor_threads[k]]
  /\ actor_exit_notify' = actor_exit_notify + 1
  /\ UNCHANGED <<ast_lock, threadcount, i, tid, status, cancelled, history,
                 threadpool>>

\* ... after which the thread returns.
NotifyUnlock(t) ==
  /\ Goto(t, "notify_unlock", "exited")
  /\ Unlock(t)
  /\ UNCHANGED <<lists, i, tid, status, cancelled, history, threadpool>>

\* A cancelled thread ends at its next cancellation point.  There are such
\* points in the mount calls and in sem_wait; pthread_mutex_lock is none.
Die(t) ==
  /\ t \in cancelled
  /\ pc[t] \in {"init", "serving"}
  /\ pc' = [pc EXCEPT ![t] = "exited"]
  /\ UNCHANGED <<ast_lock, lists, i, tid, status, cancelled, history,
                 threadpool>>

-----------------------------------------------------------------------------
(* nfscd_actor_monitor.                                                    *)

MonitorWait ==
  /\ Goto(Monitor, "wait", "lock")
  /\ actor_exit_notify > 0
  /\ actor_exit_notify' = actor_exit_notify - 1
  /\ UNCHANGED <<ast_lock, actor_threads, threadcount, i, tid, status, cancelled,
                 history, threadpool>>

MonitorLock ==
  /\ Goto(Monitor, "lock", IF actor_threads = <<>> THEN "unlock" ELSE "join")
  /\ Lock(Monitor)
  /\ UNCHANGED <<lists, i, tid, status, cancelled, history, threadpool>>

\* The loop takes the entry that followed when the body began: an actor that
\* is started in the last round is not visited.
AfterJoin == IF Len(actor_threads) > 1 THEN "join" ELSE "unlock"

Joined(t) == joined' = [joined EXCEPT ![t] = @ + 1]

\* Faulty variants: the entry stays in the list; a status of -2 counts as an
\* ordinary exit.
MonitorReapKeep ==
  LET ast == Head(actor_threads) IN
  /\ pc[Monitor] = "join" /\ pc[ast.tid] = "exited"
  /\ Joined(ast.tid)
  /\ pc' = [pc EXCEPT ![Monitor] = "unlock"]
  /\ UNCHANGED <<ast_lock, lists, i, tid, status, cancelled, reported,
                 replaced, threadpool>>

MonitorReapNoRestart ==
  LET ast == Head(actor_threads) IN
  /\ pc[Monitor] = "join" /\ pc[ast.tid] = "exited"
  /\ Joined(ast.tid)
  /\ reported' = IF ast.exitstat > 0 THEN reported \cup {ast.tid} ELSE reported
  /\ pc' = [pc EXCEPT ![Monitor] = AfterJoin]
  /\ actor_threads' = Tail(actor_threads)
  /\ UNCHANGED <<ast_lock, actor_exit_notify, threadcount, i, tid, status,
                 cancelled, replaced, threadpool>>

\* The loop body, once pthread_join returns: unlink the entry, print an error
\* status, start another actor if the status asks for it.
MonitorReap ==
  LET ast == Head(actor_threads) IN
  /\ pc[Monitor] = "join" /\ pc[ast.tid] = "exited"
  /\ Joined(ast.tid)
  /\ reported' = IF ast.exitstat > 0 THEN reported \cup {ast.tid} ELSE reported
  /\ \/ /\ ast.exitstat < DEFAULT_EXIT_STATUS
        /\ \E t \in Unborn :
             /\ pc' = [pc EXCEPT ![Monitor] = AfterJoin, ![t] = "init"]
             /\ actor_threads' =
                  Append(Tail(actor_threads),
                         [tid |-> t, exitstat |-> DEFAULT_EXIT_STATUS])
        /\ threadcount' = threadcount + 1
        /\ replaced' = replaced \cup {ast.tid}
     \/ /\ ast.exitstat >= DEFAULT_EXIT_STATUS
        /\ pc' = [pc EXCEPT ![Monitor] = AfterJoin]
        /\ actor_threads' = Tail(actor_threads)
        /\ UNCHANGED <<threadcount, replaced, threadpool>>
  /\ UNCHANGED <<ast_lock, actor_exit_notify, i, tid, status, cancelled,
                 threadpool>>

MonitorUnlock ==
  /\ Goto(Monitor, "unlock", "wait")
  /\ Unlock(Monitor)
  /\ UNCHANGED <<lists, i, tid, status, cancelled, history, threadpool>>

-----------------------------------------------------------------------------
(* nfscd_destroy, called when the file system is unmounted.                *)

nfscd_destroy ==
  /\ Goto(Main, "fuse", "destroy")
  /\ UNCHANGED <<ast_lock, lists, i, tid, status, cancelled, history,
                 threadpool>>

DestroyLock ==
  /\ Goto(Main, "destroy",
          IF actor_threads = <<>> THEN "destroy_unlock" ELSE "cancel")
  /\ Lock(Main)
  /\ UNCHANGED <<lists, i, tid, status, cancelled, history, threadpool>>

\* Faulty variant: the thread is joined without being cancelled.
DestroyNoCancel ==
  /\ Goto(Main, "cancel", "destroy_join")
  /\ UNCHANGED <<ast_lock, lists, i, tid, status, cancelled, history,
                 threadpool>>

DestroyCancel ==
  /\ Goto(Main, "cancel", "destroy_join")
  /\ cancelled' = cancelled \cup {Head(actor_threads).tid}
  /\ UNCHANGED <<ast_lock, lists, i, tid, status, history, threadpool>>

\* Faulty variant: pthread_cancel is taken for the end of the thread.
DestroyNoJoin ==
  /\ Goto(Main, "destroy_join",
          IF Len(actor_threads) > 1 THEN "cancel" ELSE "destroy_unlock")
  /\ actor_threads' = Tail(actor_threads)
  /\ UNCHANGED <<ast_lock, actor_exit_notify, threadcount, i, tid, status,
                 cancelled, history, threadpool>>

DestroyJoin ==
  LET ast == Head(actor_threads) IN
  /\ Goto(Main, "destroy_join",
          IF Len(actor_threads) > 1 THEN "cancel" ELSE "destroy_unlock")
  /\ pc[ast.tid] = "exited"
  /\ Joined(ast.tid)
  /\ actor_threads' = Tail(actor_threads)
  /\ UNCHANGED <<ast_lock, actor_exit_notify, threadcount, i, tid, status,
                 cancelled, reported, replaced, threadpool>>

\* pthread_mutex_unlock and pthread_mutex_destroy.
DestroyUnlock ==
  /\ Goto(Main, "destroy_unlock", "done")
  /\ Unlock(Main)
  /\ UNCHANGED <<lists, i, tid, status, cancelled, history, threadpool>>

MainStep ==
  \/ StartLock
  \/ \E t \in Tids : StartCreate(t)
  \/ StartAdd
  \/ StartUnlock
  \/ DestroyLock
  \/ DestroyCancel
  \/ DestroyJoin
  \/ DestroyUnlock

NotifyStep(t) == NotifyLock(t) \/ NotifySet(t) \/ NotifyUnlock(t)

MonitorStep == MonitorWait \/ MonitorLock \/ MonitorReap \/ MonitorUnlock

Next ==
  \/ nfscd_destroy
  \/ MainStep
  \/ MonitorStep
  \/ \E t \in Tids :
       \/ ActorServes(t)
       \/ \E st \in ExitStats : ActorFails(t, st)
       \/ NotifyStep(t)
       \/ Die(t)

Spec == Init /\ [][Next]_vars

\* Threads that can run do run, and a thread that finds the mutex free again
\* and again gets it in the end.  Nothing is assumed about when an actor has
\* its file systems mounted, or whether anybody unmounts.
Fairness ==
  /\ WF_vars(MainStep) /\ SF_vars(StartLock) /\ SF_vars(DestroyLock)
  /\ WF_vars(MonitorStep) /\ SF_vars(MonitorLock)
  /\ \A t \in Tids : /\ WF_vars(NotifyStep(t)) /\ SF_vars(NotifyLock(t))
                      /\ WF_vars(Die(t))

FairSpec == Spec /\ Fairness

-----------------------------------------------------------------------------
(* Properties.                                                             *)

Listed == {actor_threads[k].tid : k \in DOMAIN actor_threads}

\* An actor may fail before its creator has put it on the list.  Its status is
\* recorded all the same: whoever joins it reads what the actor passed to
\* nfscd_notify_actor_exit (nfscd_ops.c, 92-99 and 390-399).
StatusRecorded ==
  \A k \in DOMAIN actor_threads :
    pc[actor_threads[k].tid] = "exited" =>
      actor_threads[k].exitstat = status[actor_threads[k].tid]

\* The monitor never sleeps through an exit: when it waits on a semaphore at
\* zero, every listed actor that has ended was cancelled by nfscd_destroy.
NoLostExit ==
  pc[Monitor] = "wait" /\ actor_exit_notify = 0 =>
    \A t \in Listed : pc[t] = "exited" => t \in cancelled

\* No thread is joined twice, by the monitor and nfscd_destroy together.
JoinedOnce == \A t \in Tids : joined[t] <= 1

\* When nfscd_destroy returns no actor is left, whatever the monitor restarted
\* in the meantime: no thread touches the destroyed mutex and list but the
\* monitor, which finds the list empty.
TeardownComplete ==
  pc[Main] = "done" =>
    /\ \A t \in Tids : pc[t] \in {"unborn", "exited"}
    /\ actor_threads = <<>>

Unmounting == pc[Main] \in {"destroy", "cancel", "destroy_join",
                            "destroy_unlock", "done"}

\* What nfsclientd.h, 110-113, promises for the status of an actor.
Handled(t) ==
  /\ status[t] > 0 => t \in reported
  /\ status[t] < DEFAULT_EXIT_STATUS => t \in replaced

\* "greater than zero, to not restart but to print the errno string for this
\* status number" (nfsclientd.h, 112-113), whatever the size of the pool.
ExitReported ==
  \A t \in Tids :
    pc[t] = "notify" /\ status[t] > 0 ~> t \in reported \/ Unmounting

\* The monitor waits in pthread_join for an actor that has not exited.
MonitorStuck ==
  pc[Monitor] = "join" /\ pc[Head(actor_threads).tid] # "exited"

\* In the default pool of one actor (DEFAULT_THREADPOOL_SIZE) an error status is
\* printed, and an actor that asks for it is replaced.  In a larger pool the
\* only obstacle is that the monitor joins actors that have not exited.
ExitHandled ==
  \A t \in Tids :
    pc[t] = "notify" ~>
      Handled(t) \/ Unmounting \/ (threadpool > 1 /\ MonitorStuck)

\* Once nfscd_destroy is called it returns, unless an actor is on its way into
\* nfscd_notify_actor_exit: then it waits for ever for a thread that waits for
\* the mutex it holds.  In a pool of several, the monitor may keep that mutex.
DestroyReturns ==
  pc[Main] = "destroy" ~>
    \/ pc[Main] = "done"
    \/ \E t \in Tids : pc[t] = "notify"
    \/ threadpool > 1 /\ MonitorStuck

=============================================================================
