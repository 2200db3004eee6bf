----------------------------- MODULE NfsContext -----------------------------
(***************************************************************************)
(* NFS contexts and the RPC handles in them (src/src/nfsclient.c; nfs3_call*)
(* and mount3_call in src/src/nfsv3; creation and destruction of handles   *)
(* in src/src/clnt_tcp_nb.c).  Every actor thread has a pool of contexts   *)
(* and uses the first; a context gets a connection for each of the two     *)
(* programs, NFS and MOUNT, when the program is first called.  The threads *)
(* share the descriptors of the process and the server.                    *)
(*                                                                         *)
(* A creation is one step per system call that another thread or the       *)
(* server can observe.  Blocks of memory are counted in a bag, so that one *)
(* that nobody points to any more still shows.                             *)
(***************************************************************************)
EXTENDS Integers, FiniteSets

CONSTANTS
  Threads,
  PoolSize,     \* mountopts.ctxpoolsize
  ConnFlags,    \* the values of nfs_connflags, sets of flags
  Descriptors,  \* the descriptors socket() may return
  Ports,        \* the ports the server may choose
  MaxRestarts,  \* bound: how often a program of the server stops
  MaxFaults,    \* bound: how often an allocation or fcntl() fails
  Other,        \* the rest of the process, which opens descriptors as well
  NULL

RPC_ANYSOCK == -1

Progs == {"NFS", "MOUNT"}

ASSUME ContextAssumption ==
  /\ IsFiniteSet(Threads)
  /\ PoolSize \in Nat \ {0}
  /\ ConnFlags \subseteq SUBSET {"NONBLOCKING", "DISABLE_NAGLE"}
  /\ IsFiniteSet(Descriptors) /\ Descriptors \subseteq Nat
  /\ Ports \subseteq Nat \ {0} /\ Cardinality(Ports) >= Cardinality(Progs)
  /\ MaxRestarts \in Nat /\ MaxFaults \in Nat
  /\ NULL \notin Threads \X Progs /\ Other \notin Threads \X Progs
  /\ NULL \notin [sock : Descriptors, port : Nat]

VARIABLES
  nfs_connflags,
  registered,  \* the port of each program of the server, 0 while it is down
  fds,         \* who opened each descriptor: <<thread, program>>, Other or NULL
  heap,        \* how often each block <<thread, owner, kind>> is allocated
  pc,
  pool,        \* how many contexts each thread has initialised
  prog,        \* the program each thread is calling
  sockp,       \* the local variable sockp of that call
  port,        \* sin_port of nfs_srv and nfs_mnt
  cl,          \* nfs_cl and nfs_mnt_cl: NULL, or the socket and its peer
  restarts, faults

server == <<registered, restarts>>
call == <<pc, prog, sockp>>
vars == <<nfs_connflags, server, fds, heap, call, pool, port, cl, faults>>

Blocks(t, owner, kinds) == {<<t, owner, k>> : k \in kinds}

\* malloc and free of each of the blocks.
Allocated(h, blocks) ==
  [b \in DOMAIN h \cup blocks |->
     (IF b \in DOMAIN h THEN h[b] ELSE 0) + (IF b \in blocks THEN 1 ELSE 0)]

Released(h, blocks) ==
  [b \in {b \in DOMAIN h : b \in blocks => h[b] > 1} |->
     IF b \in blocks THEN h[b] - 1 ELSE h[b]]

ContextKinds == {"ctx", "nfs_srv", "nfs_mnt"}
HandleKinds == {"handle", "ct", "readbuf", "table", "xdrs"}

Init ==
  /\ nfs_connflags \in ConnFlags
  /\ registered = [p \in Progs |-> 0]
  /\ fds = [d \in Descriptors |-> NULL]
  /\ heap = <<>>
  /\ pc = [t \in Threads |-> "start"]
  /\ pool = [t \in Threads |-> 0]
  /\ prog = [t \in Threads |-> NULL]
  /\ sockp = [t \in Threads |-> RPC_ANYSOCK]
  /\ port = [t \in Threads |-> [p \in Progs |-> 0]]
  /\ cl = [t \in Threads |-> [p \in Progs |-> NULL]]
  /\ restarts = 0 /\ faults = 0

Fault == faults < MaxFaults /\ faults' = faults + 1

Goto(t, to) == pc' = [pc EXCEPT ![t] = to]

-----------------------------------------------------------------------------
(* init_per_actor_context_pool, nfs_init, destroy_per_actor_context_pool.  *)

ContextInit(t) ==
  /\ pc[t] = "start"
  /\ pool' = [pool EXCEPT ![t] = @ + 1]
  /\ heap' = Allocated(heap, Blocks(t, "ctx", IF pool[t] = 0 THEN ContextKinds \cup {"pool"}
                                                                ELSE ContextKinds))
  /\ Goto(t, IF pool'[t] = PoolSize THEN "idle" ELSE "start")
  /\ UNCHANGED <<nfs_connflags, server, fds, prog, sockp, port, cl, faults>>

\* The array cannot be had, or a context: nfs_init frees the blocks it has
\* got, but the array and the contexts before this one stay.
ContextInitFails(t) ==
  /\ pc[t] = "start"
  /\ Fault
  /\ \/ UNCHANGED heap
     \/ pool[t] = 0 /\ heap' = Allocated(heap, Blocks(t, "ctx", {"pool"}))
  /\ Goto(t, "exited")
  /\ UNCHANGED <<nfs_connflags, server, fds, prog, sockp, pool, port, cl>>

\* The end of nfs3_request_actor, which its loop never reaches, and of the test
\* programs: nfs_destroy frees a context, and not the handles in it.
DestroyPool(t) ==
  /\ pc[t] = "idle"
  /\ heap' = [b \in {b \in DOMAIN heap : b[1] # t \/ b[2] # "ctx"} |-> heap[b]]
  /\ Goto(t, "exited")
  /\ UNCHANGED <<nfs_connflags, server, fds, prog, sockp, pool, port, cl, faults>>

-----------------------------------------------------------------------------
(* nfs3_call and mount3_call create the handle when there is none, with    *)
(* clnttcp_b_create or clnttcp_nb_create.                                  *)

\* The thread goes on with a creation, or ends it with the handle or NULL; then
\* nfs3_call may call setsockopt, whatever the outcome.
Goon(t, p, d, to) ==
  /\ prog' = [prog EXCEPT ![t] = p]
  /\ sockp' = [sockp EXCEPT ![t] = d]
  /\ Goto(t, to)

Created(t, p, d, handle) ==
  /\ cl' = [cl EXCEPT ![t][p] = handle]
  /\ IF p = "NFS" /\ "DISABLE_NAGLE" \in nfs_connflags
     THEN Goon(t, p, d, "setsockopt") ELSE Goon(t, NULL, RPC_ANYSOCK, "idle")

\* mem_free_return: the handle and its private data are freed.
Failed(t, p, d) ==
  /\ heap' = Released(heap, Blocks(t, p, {"handle", "ct"}))
  /\ Created(t, p, d, NULL)

Close(d) == fds' = [fds EXCEPT ![d] = NULL]

\* Faulty variant: nfs_srv and nfs_mnt are one block.
CachePortBoth(t, p) == port' = [port EXCEPT ![t] = [q \in Progs |-> registered[p]]]

\* raddr->sin_port is set in the address of the context.
CachePort(t, p) == port' = [port EXCEPT ![t][p] = registered[p]]

\* Faulty variant: nfs3_call looks at nfs_mnt_cl.
GetPortWrongHandle(t, p) ==
  /\ pc[t] = "idle"
  /\ cl[t]["MOUNT"] = NULL
  /\ IF port[t][p] = 0 /\ registered[p] = 0
     THEN Created(t, p, RPC_ANYSOCK, NULL) /\ UNCHANGED <<heap, port>>
     ELSE /\ heap' = Allocated(heap, Blocks(t, p, {"handle", "ct"}))
          /\ IF port[t][p] = 0 THEN CachePort(t, p) ELSE UNCHANGED port
          /\ Goon(t, p, RPC_ANYSOCK, "socket")
          /\ UNCHANGED cl
  /\ UNCHANGED <<nfs_connflags, server, fds, pool, faults>>

\* The handle and its private data are allocated; pmap_getport asks the server
\* for the port, if the context has none yet, and may find the program down.
GetPort(t, p) ==
  /\ pc[t] = "idle"
  /\ cl[t][p] = NULL
  /\ IF port[t][p] = 0 /\ registered[p] = 0
     THEN Created(t, p, RPC_ANYSOCK, NULL) /\ UNCHANGED <<heap, port>>
     ELSE /\ heap' = Allocated(heap, Blocks(t, p, {"handle", "ct"}))
          /\ IF port[t][p] = 0 THEN CachePort(t, p) ELSE UNCHANGED port
          /\ Goon(t, p, RPC_ANYSOCK, "socket")
          /\ UNCHANGED cl
  /\ UNCHANGED <<nfs_connflags, server, fds, pool, faults>>

\* No memory for the handle or for its private data.
CreateNoMem(t, p) ==
  /\ pc[t] = "idle"
  /\ cl[t][p] = NULL
  /\ Fault
  /\ Created(t, p, RPC_ANYSOCK, NULL)
  /\ UNCHANGED <<nfs_connflags, server, fds, heap, pool, port>>

Unused == {d \in Descriptors : fds[d] = NULL}

\* socket() returns the lowest descriptor that is not in use, or -1.  Zero
\* counts as a failure and stays open.
Socket(t) ==
  /\ pc[t] = "socket"
  /\ LET p == prog[t] IN
     \/ /\ Unused = {}
        /\ Failed(t, p, -1)
        /\ UNCHANGED fds
     \/ \E d \in Unused :
          /\ \A e \in Unused : d <= e
          /\ fds' = [fds EXCEPT ![d] = <<t, p>>]
          /\ IF d = 0 THEN Failed(t, p, 0)
             ELSE Goon(t, p, d, "connect") /\ UNCHANGED <<heap, cl>>
  /\ UNCHANGED <<nfs_connflags, server, pool, port, faults>>

\* Faulty variants: the socket stays open when connect() fails; the creation
\* goes on after it has closed the socket.
ConnectNotClosed(t) ==
  /\ pc[t] = "connect"
  /\ IF \E q \in Progs : registered[q] = port[t][prog[t]]
     THEN Goon(t, prog[t], sockp[t], "fill") /\ UNCHANGED <<heap, cl>>
     ELSE Failed(t, prog[t], sockp[t])
  /\ UNCHANGED <<nfs_connflags, server, fds, pool, port, faults>>

ConnectGoesOn(t) ==
  /\ pc[t] = "connect"
  /\ IF \E q \in Progs : registered[q] = port[t][prog[t]]
     THEN UNCHANGED fds ELSE Close(sockp[t])
  /\ Goon(t, prog[t], sockp[t], "fill")
  /\ UNCHANGED <<nfs_connflags, server, heap, pool, port, cl, faults>>

\* connect() succeeds where a program listens on the port, whichever it is.
\* When it fails the socket is closed, and sockp keeps its number.
Connect(t) ==
  /\ pc[t] = "connect"
  /\ IF \E q \in Progs : registered[q] = port[t][prog[t]]
     THEN Goon(t, prog[t], sockp[t], "fill") /\ UNCHANGED <<fds, heap, cl>>
     ELSE Close(sockp[t]) /\ Failed(t, prog[t], sockp[t])
  /\ UNCHANGED <<nfs_connflags, server, pool, port, faults>>

\* The read buffer, the table of callbacks and the record stream complete the
\* handle.  That ght_create may fail goes unnoticed.  xdr_callhdr writes 20
\* bytes into a buffer of 24 and succeeds.
Fill(t) ==
  /\ pc[t] = "fill"
  /\ \/ heap' = Allocated(heap, Blocks(t, prog[t], {"readbuf", "table", "xdrs"}))
        /\ UNCHANGED faults
     \/ heap' = Allocated(heap, Blocks(t, prog[t], {"readbuf", "xdrs"})) /\ Fault
  /\ Created(t, prog[t], sockp[t], [sock |-> sockp[t], port |-> port[t][prog[t]]])
  /\ UNCHANGED <<nfs_connflags, server, fds, pool, port>>

\* Without a read buffer the creation returns at once.
FillNoMem(t) ==
  /\ pc[t] = "fill"
  /\ Fault
  /\ Created(t, prog[t], sockp[t], NULL)
  /\ UNCHANGED <<nfs_connflags, server, fds, heap, pool, port>>

\* The socket is closed; the table, the private data and the handle are freed.
\* The read buffer and the record stream, allocated just before, stay behind.
clnttcp_nb_destroy(t, p, d) ==
  /\ Close(d)
  /\ heap' = Allocated(Released(heap, Blocks(t, p, {"handle", "ct"})),
                     Blocks(t, p, {"readbuf", "xdrs"}))

\* The handle is complete, but clnttcp_sock_setflag fails.
SetFlagFails(t) ==
  /\ pc[t] = "fill"
  /\ prog[t] = "MOUNT" \/ "NONBLOCKING" \in nfs_connflags
  /\ Fault
  /\ clnttcp_nb_destroy(t, prog[t], sockp[t])
  /\ Created(t, prog[t], sockp[t], NULL)
  /\ UNCHANGED <<nfs_connflags, server, pool, port>>

\* setsockopt(sockp, IPPROTO_TCP, TCP_NODELAY), also when there is no handle.
SetSockOpt(t) ==
  /\ pc[t] = "setsockopt"
  /\ Goon(t, NULL, RPC_ANYSOCK, "idle")
  /\ UNCHANGED <<nfs_connflags, server, fds, heap, pool, port, cl, faults>>

-----------------------------------------------------------------------------
(* The rest of the process opens descriptors and closes its own.           *)

OtherOpen ==
  /\ \E d \in Unused :
       /\ \A e \in Unused : d <= e
       /\ fds' = [fds EXCEPT ![d] = Other]
  /\ UNCHANGED <<nfs_connflags, server, heap, call, pool, port, cl, faults>>

OtherClose ==
  /\ \E d \in Descriptors : fds[d] = Other /\ Close(d)
  /\ UNCHANGED <<nfs_connflags, server, heap, call, pool, port, cl, faults>>

-----------------------------------------------------------------------------
(* The server: a program stops, and comes back on any port that is free.   *)

ServerStop(p) ==
  /\ restarts < MaxRestarts /\ registered[p] # 0
  /\ registered' = [registered EXCEPT ![p] = 0]
  /\ restarts' = restarts + 1
  /\ UNCHANGED <<nfs_connflags, fds, heap, call, pool, port, cl, faults>>

ServerStart(p) ==
  /\ registered[p] = 0
  /\ \E n \in Ports \ {registered[q] : q \in Progs} :
       registered' = [registered EXCEPT ![p] = n]
  /\ UNCHANGED <<nfs_connflags, restarts, fds, heap, call, pool, port, cl, faults>>

ThreadStep(t) ==
  \/ ContextInit(t)
  \/ Socket(t)
  \/ Connect(t)
  \/ Fill(t)
  \/ SetSockOpt(t)

Next ==
  \/ \E t \in Threads : \/ ThreadStep(t)
                        \/ ContextInitFails(t)
                        \/ FillNoMem(t)
                        \/ SetFlagFails(t)
                        \/ DestroyPool(t)
                        \/ \E p \in Progs : GetPort(t, p) \/ CreateNoMem(t, p)
  \/ OtherOpen \/ OtherClose
  \/ \E p \in Progs : ServerStop(p) \/ ServerStart(p)

Spec == Init /\ [][Next]_vars

\* Threads that can run do run, and as long as a program has no handle, the
\* thread calls it again and again.  Nothing need fail; the server need not
\* stop, nor start.
FairSpec ==
  /\ Spec
  /\ \A t \in Threads :
       /\ WF_vars(ThreadStep(t) /\ faults' = faults)
       /\ \A p \in Progs : SF_vars(GetPort(t, p))

-----------------------------------------------------------------------------
(* Properties.                                                             *)

\* nfs3_call (nfs3.c line 189) is to disable Nagle's algorithm on a socket that
\* the creation did not get or has closed, and whose number may by now be that
\* of a descriptor of another thread.
NagleWithoutHandle(t) == pc[t] = "setsockopt" /\ cl[t]["NFS"] = NULL

\* A thread works on descriptors it has opened itself and not closed yet, while
\* it creates a handle and in every handle of its contexts; so no descriptor is
\* closed twice, though another thread may get its number at once.  The code
\* has one exception, NagleWithoutHandle; it is met only by an application that
\* has asked for NFSC_CFL_DISABLE_NAGLE, which nfsclientd does not.
OwnDescriptor ==
  \A t \in Threads :
    /\ IF NagleWithoutHandle(t) THEN "DISABLE_NAGLE" \in nfs_connflags
       ELSE pc[t] \in {"connect", "fill", "setsockopt"} => fds[sockp[t]] = <<t, prog[t]>>
    /\ \A p \in Progs :
         cl[t][p] # NULL => fds[cl[t][p].sock] = <<t, p>>

Opened(t, p) == {d \in Descriptors : fds[d] = <<t, p>>}

\* A thread outside of a creation has a descriptor and the blocks of a handle
\* for the handles in its context, and nothing else: what the server, the
\* portmapper or a lack of descriptors made fail has left nothing behind.
\* Descriptor zero is lost once, and a lack of memory does lose blocks.
NothingLost ==
  \A t \in Threads, p \in Progs :
    faults = 0 /\ pc[t] \in {"idle", "setsockopt"} =>
      IF cl[t][p] = NULL
      THEN /\ \A k \in HandleKinds : <<t, p, k>> \notin DOMAIN heap
           /\ Opened(t, p) \subseteq {0}
      ELSE /\ \A k \in HandleKinds :
                <<t, p, k>> \in DOMAIN heap /\ heap[<<t, p, k>>] = 1
           /\ Opened(t, p) \ {0} = {cl[t][p].sock}

\* The program a handle is for is the one its connection leads to, for as long
\* as the server has not been restarted: each program has an address, and hence
\* a port, of its own.
RightProgram ==
  restarts = 0 =>
    \A t \in Threads, p \in Progs : cl[t][p] # NULL => cl[t][p].port = registered[p]

\* The port in the context is not, or no longer, that of the program.
Stale(t, p) == port[t][p] \notin {0, registered[p]}

\* A call that fails can be made again: a thread that keeps calling a program
\* gets its handle, whatever happened before, unless the program is down, the
\* port that was cached is stale, or no descriptor is left.
ConnectsInTheEnd ==
  \A t \in Threads, p \in Progs :
    []<>(\/ cl[t][p] # NULL \/ pc[t] = "exited"
         \/ registered[p] = 0 \/ Stale(t, p) \/ Unused = {})

=============================================================================
