-------------------------- MODULE NfsContextProofs --------------------------
(***************************************************************************)
(* Proofs about contexts and handles, for any number of threads, sizes of  *)
(* the pool, descriptors and ports, with any failures.                     *)
(*                                                                         *)
(* OwnDescriptor is not inductive: a thread that closes a socket must not  *)
(* take it from a handle.  Sound adds that a program has no handle yet     *)
(* while one is created for it, and that setsockopt comes with the socket  *)
(* of the handle just made.  RightProgram needs Fresh: while the server    *)
(* has not been restarted, a port that is cached is the right one, and     *)
(* there is one before a socket is opened.                                 *)
(*                                                                         *)
(* NothingLost speaks of threads outside of a creation.  Kept says, at     *)
(* every point of one, which blocks and descriptors are there for it: then *)
(* each way to end it gives back just these, or leaves them to the handle. *)
(***************************************************************************)
EXTENDS NfsContext, TLAPS

\* The default prover; a leaf that takes arithmetic cites the SMT solver.
USE ZenonT(60)

Handle == [sock : Descriptors, port : Nat]
Sockets == Descriptors \cup {RPC_ANYSOCK, 0}

Types ==
  /\ registered \in [Progs -> Nat]
  /\ DOMAIN fds = Descriptors
  /\ DOMAIN pc = Threads
  /\ prog \in [Threads -> Progs \cup {NULL}]
  /\ sockp \in [Threads -> Sockets]
  /\ port \in [Threads -> [Progs -> Nat]]
  /\ cl \in [Threads -> [Progs -> Handle \cup {NULL}]]
  /\ restarts \in Nat

\* The descriptors of a thread: those of its handles, and that of a creation.
Sound(t) ==
  /\ pc[t] \in {"socket", "connect", "fill"} =>
       prog[t] \in Progs /\ cl[t][prog[t]] = NULL
  /\ pc[t] \in {"connect", "fill"} =>
       sockp[t] \in Descriptors /\ fds[sockp[t]] = <<t, prog[t]>>
  /\ pc[t] = "setsockopt" =>
       /\ prog[t] = "NFS"
       /\ cl[t]["NFS"] # NULL => sockp[t] = cl[t]["NFS"].sock
  /\ \A p \in Progs : cl[t][p] # NULL => fds[cl[t][p].sock] = <<t, p>>

\* The ports of a thread: those it has cached, and those of its handles.
Fresh(t) ==
  restarts = 0 =>
    /\ \A p \in Progs :
         /\ port[t][p] # 0 => port[t][p] = registered[p]
         /\ cl[t][p] # NULL => registered[p] # 0 /\ cl[t][p].port = registered[p]
    /\ pc[t] \in {"socket", "connect", "fill"} => port[t][prog[t]] # 0

IInv == Types /\ \A t \in Threads : Sound(t) /\ Fresh(t)

\* At the start there is no handle, and nothing is cached.
LEMMA InitIInv == Init => IInv
BY SMTT(30) DEF Init, IInv, Types, Sound, Fresh, Sockets

\* The owner of a descriptor is told from nobody and from the rest.
LEMMA NotTuples ==
  \A t \in Threads, p \in Progs : <<t, p>> # NULL /\ <<t, p>> # Other
<1>1. \A t \in Threads, p \in Progs : <<t, p>> \in Threads \X Progs
  OBVIOUS
<1> QED  BY <1>1, ContextAssumption DEF ContextAssumption

\* A program of the server stops or comes back.
LEMMA ServerStep ==
  ASSUME IInv, NEW p \in Progs, ServerStop(p) \/ ServerStart(p)
  PROVE  IInv'
<1> USE DEF IInv, Types, call
<1>1. CASE ServerStop(p)
  BY <1>1, SMTT(30) DEF ServerStop, Sound, Fresh
<1>2. CASE ServerStart(p)
  <2>1. PICK n \in Ports : registered' = [registered EXCEPT ![p] = n]
    BY <1>2 DEF ServerStart
  <2>2. n \in Nat /\ n # 0
    BY ContextAssumption DEF ContextAssumption
  <2>3. UNCHANGED <<fds, pc, prog, sockp, port, cl, restarts>> /\ registered[p] = 0
    BY <1>2 DEF ServerStart
  <2>4. registered' \in [Progs -> Nat]
    BY <2>1, <2>2
  <2>5. \A t \in Threads : Fresh(t)'
    BY <2>1, <2>2, <2>3, <2>4, SMTT(30) DEF Fresh
  <2> QED  BY <2>3, <2>4, <2>5 DEF Sound
<1> QED  BY <1>1, <1>2

\* The rest of the process takes free descriptors and gives back its own.
LEMMA OtherStep ==
  ASSUME IInv, OtherOpen \/ OtherClose PROVE IInv'
<1>1. \E d \in Descriptors, v \in {NULL, Other} :
        /\ fds' = [fds EXCEPT ![d] = v]
        /\ fds[d] = NULL \/ fds[d] = Other
  <2>1. CASE OtherOpen  BY <2>1 DEF OtherOpen, Unused
  <2>2. CASE OtherClose  BY <2>2 DEF OtherClose, Close
  <2> QED  BY <2>1, <2>2
<1> PICK d \in Descriptors, v \in {NULL, Other} :
        /\ fds' = [fds EXCEPT ![d] = v]
        /\ fds[d] = NULL \/ fds[d] = Other
  BY <1>1
<1>2. UNCHANGED <<registered, restarts, pc, prog, sockp, port, cl>>
  BY DEF OtherOpen, OtherClose, server, call
<1>3. \A e \in Descriptors, t \in Threads, p \in Progs :
        fds[e] = <<t, p>> => fds'[e] = <<t, p>>
  BY NotTuples DEF IInv, Types
<1>4. \A t \in Threads : Sound(t)'
  BY <1>2, <1>3, SMTT(30) DEF IInv, Types, Sound, Handle
<1> QED
  BY <1>2, <1>4 DEF IInv, Types, Fresh

-----------------------------------------------------------------------------
(* Steps of a thread.                                                      *)

\* The variables of the other threads, and the server, stay as they are.
Alone(t) ==
  /\ UNCHANGED <<registered, restarts>>
  /\ \A u \in Threads \ {t} :
       /\ pc'[u] = pc[u] /\ prog'[u] = prog[u] /\ sockp'[u] = sockp[u]
       /\ port'[u] = port[u] /\ cl'[u] = cl[u]

\* What the others have opened stays open.
Spared(t) ==
  \A e \in Descriptors, u \in Threads \ {t}, p \in Progs :
    fds[e] = <<u, p>> => fds'[e] = <<u, p>>

\* Then the invariant is a matter of the thread that made the step.
LEMMA Framed ==
  ASSUME IInv, NEW t \in Threads, Alone(t), Spared(t), Types',
         Sound(t)', Fresh(t)'
  PROVE  IInv'
<1> SUFFICES ASSUME NEW u \in Threads, u # t PROVE Sound(u)' /\ Fresh(u)'
  BY DEF IInv
<1>1. /\ pc'[u] = pc[u] /\ prog'[u] = prog[u] /\ sockp'[u] = sockp[u]
      /\ port'[u] = port[u] /\ cl'[u] = cl[u]
      /\ registered' = registered /\ restarts' = restarts
  BY DEF Alone
<1>2. Sound(u) /\ Fresh(u)
  BY DEF IInv
<1>3. Sound(u)'
  <2>1. \A p \in Progs : cl[u][p] # NULL => cl[u][p].sock \in Descriptors
    BY SMTT(30) DEF IInv, Types, Handle
  <2>2. \A e \in Descriptors, p \in Progs : fds[e] = <<u, p>> => fds'[e] = <<u, p>>
    BY DEF Spared
  <2>3. \A p \in Progs : cl[u][p] # NULL => fds'[cl[u][p].sock] = <<u, p>>
    BY <1>2, <2>1, <2>2 DEF Sound
  <2>4. pc[u] \in {"connect", "fill"} => fds'[sockp[u]] = <<u, prog[u]>>
    BY <1>2, <2>2 DEF Sound
  <2> QED  BY <1>1, <1>2, <2>3, <2>4 DEF Sound
<1>4. Fresh(u)'
  BY <1>1, <1>2 DEF Fresh
<1> QED  BY <1>3, <1>4

\* The variables of a call after Goon.
LEMMA GoonFacts ==
  ASSUME Types, NEW t \in Threads, NEW p \in Progs \cup {NULL},
         NEW d \in Sockets, NEW to, Goon(t, p, d, to)
  PROVE  /\ DOMAIN pc' = Threads
         /\ prog' \in [Threads -> Progs \cup {NULL}]
         /\ sockp' \in [Threads -> Sockets]
         /\ pc'[t] = to /\ prog'[t] = p /\ sockp'[t] = d
         /\ \A u \in Threads \ {t} :
              pc'[u] = pc[u] /\ prog'[u] = prog[u] /\ sockp'[u] = sockp[u]
BY DEF Types, Goon, Goto

\* A creation that ends, with a handle or without.
LEMMA CreatedFacts ==
  ASSUME Types, NEW t \in Threads, NEW p \in Progs, NEW d \in Sockets,
         NEW h \in Handle \cup {NULL}, Created(t, p, d, h)
  PROVE  /\ DOMAIN pc' = Threads
         /\ prog' \in [Threads -> Progs \cup {NULL}]
         /\ sockp' \in [Threads -> Sockets]
         /\ cl' \in [Threads -> [Progs -> Handle \cup {NULL}]]
         /\ pc'[t] \in {"setsockopt", "idle"}
         /\ pc'[t] = "setsockopt" =>
              p = "NFS" /\ prog'[t] = "NFS" /\ sockp'[t] = d
         /\ cl'[t][p] = h
         /\ \A q \in Progs \ {p} : cl'[t][q] = cl[t][q]
         /\ \A u \in Threads \ {t} :
              /\ pc'[u] = pc[u] /\ prog'[u] = prog[u] /\ sockp'[u] = sockp[u]
              /\ cl'[u] = cl[u]
<1>1. cl' = [cl EXCEPT ![t][p] = h]
  BY DEF Created
<1>2. /\ cl' \in [Threads -> [Progs -> Handle \cup {NULL}]]
      /\ cl'[t][p] = h
      /\ \A q \in Progs \ {p} : cl'[t][q] = cl[t][q]
      /\ \A u \in Threads \ {t} : cl'[u] = cl[u]
  BY <1>1 DEF Types
<1>3. CASE p = "NFS" /\ "DISABLE_NAGLE" \in nfs_connflags
  <2>1. Goon(t, p, d, "setsockopt")
    BY <1>3 DEF Created
  <2> QED  BY <1>2, <1>3, <2>1, GoonFacts, SMTT(30)
<1>4. CASE ~(p = "NFS" /\ "DISABLE_NAGLE" \in nfs_connflags)
  <2>1. Goon(t, NULL, RPC_ANYSOCK, "idle")
    BY <1>4 DEF Created
  <2>2. RPC_ANYSOCK \in Sockets
    BY DEF Sockets
  <2>3. /\ DOMAIN pc' = Threads
        /\ prog' \in [Threads -> Progs \cup {NULL}]
        /\ sockp' \in [Threads -> Sockets]
        /\ pc'[t] = "idle"
        /\ \A u \in Threads \ {t} :
             pc'[u] = pc[u] /\ prog'[u] = prog[u] /\ sockp'[u] = sockp[u]
    BY <2>1, <2>2 DEF Types, Goon, Goto
  <2> QED  BY <1>2, <2>3
<1> QED  BY <1>3, <1>4

\* A thread that has no creation under way, and keeps its handles.
LEMMA AtRest ==
  ASSUME NEW t \in Threads, Sound(t), Fresh(t),
         UNCHANGED <<registered, restarts, fds, port, cl>>,
         pc'[t] \notin {"socket", "connect", "fill", "setsockopt"}
  PROVE  Sound(t)' /\ Fresh(t)'
<1>1. Sound(t)'
  BY DEF Sound
<1>2. Fresh(t)'
  BY DEF Fresh
<1> QED  BY <1>1, <1>2

\* A step that leaves every thread without a creation under way, and the
\* descriptors and handles as they are.
LEMMA QuietStep ==
  ASSUME IInv, NEW t \in Threads, NEW to \in {"start", "idle", "exited"},
         UNCHANGED <<registered, restarts, fds, prog, sockp, port, cl>>,
         Goto(t, to)
  PROVE  IInv'
<1>1. /\ DOMAIN pc' = Threads /\ pc'[t] = to
      /\ \A u \in Threads \ {t} : pc'[u] = pc[u]
  BY DEF IInv, Types, Goto
<1>2. Alone(t) /\ Spared(t) /\ Types'
  BY <1>1 DEF Alone, Spared, IInv, Types
<1>3. to \notin {"socket", "connect", "fill", "setsockopt"}
  OBVIOUS
<1>4. Sound(t)' /\ Fresh(t)'
  <2>1. Sound(t) /\ Fresh(t)
    BY DEF IInv
  <2> QED  BY <1>1, <1>3, <2>1, AtRest
<1> QED  BY <1>2, <1>4, Framed

\* A creation ends and the socket, if it had one, is closed or of no concern:
\* the other handles of the thread keep theirs.
LEMMA EndStep ==
  ASSUME IInv, NEW t \in Threads, NEW p \in Progs, NEW d \in Sockets,
         NEW h \in Handle \cup {NULL}, Created(t, p, d, h),
         UNCHANGED <<registered, restarts, port>>, DOMAIN fds' = Descriptors,
         cl[t][p] = NULL,
         \A e \in Descriptors, u \in Threads, q \in Progs :
           fds[e] = <<u, q>> /\ <<u, q>> # <<t, p>> => fds'[e] = <<u, q>>,
         h # NULL => /\ h.sock = d /\ fds'[d] = <<t, p>>
                     /\ restarts = 0 => registered[p] # 0 /\ h.port = registered[p]
  PROVE  IInv'
<1>1. /\ DOMAIN pc' = Threads
      /\ prog' \in [Threads -> Progs \cup {NULL}]
      /\ sockp' \in [Threads -> Sockets]
      /\ cl' \in [Threads -> [Progs -> Handle \cup {NULL}]]
      /\ pc'[t] \in {"setsockopt", "idle"}
      /\ pc'[t] = "setsockopt" =>
           p = "NFS" /\ prog'[t] = "NFS" /\ sockp'[t] = d
      /\ cl'[t][p] = h
      /\ \A q \in Progs \ {p} : cl'[t][q] = cl[t][q]
      /\ \A u \in Threads \ {t} :
           /\ pc'[u] = pc[u] /\ prog'[u] = prog[u] /\ sockp'[u] = sockp[u]
           /\ cl'[u] = cl[u]
  BY CreatedFacts DEF IInv
<1>2. Types'
  BY <1>1 DEF IInv, Types
<1>3. Alone(t)
  BY <1>1 DEF Alone
<1>4. Spared(t)
  BY DEF Spared
<1>5. Sound(t)'
  <2>1. ASSUME NEW q \in Progs, q # p, cl[t][q] # NULL
        PROVE  fds'[cl[t][q].sock] = <<t, q>>
    <3>1. cl[t][q].sock \in Descriptors /\ fds[cl[t][q].sock] = <<t, q>>
      <4>1. Sound(t) /\ cl[t][q] \in Handle \cup {NULL}
        BY DEF IInv, Types
      <4>2. fds[cl[t][q].sock] = <<t, q>>
        BY ONLY <2>1, <4>1 DEF Sound
      <4>3. cl[t][q].sock \in Descriptors
        BY ONLY <2>1, <4>1 DEF Handle
      <4> QED  BY <4>2, <4>3
    <3>2. <<t, q>> # <<t, p>>
      BY <2>1
    <3> QED  BY <3>1, <3>2
  <2>2. \A q \in Progs : cl'[t][q] # NULL => fds'[cl'[t][q].sock] = <<t, q>>
    <3> SUFFICES ASSUME NEW q \in Progs, cl'[t][q] # NULL
                 PROVE  fds'[cl'[t][q].sock] = <<t, q>>
      OBVIOUS
    <3>1. CASE q = p
      <4>1. cl'[t][q] = h /\ h # NULL
        BY <1>1, <3>1
      <4> QED  BY <3>1, <4>1
    <3>2. CASE q # p
      <4>1. cl'[t][q] = cl[t][q]
        BY <1>1, <3>2
      <4> QED  BY <2>1, <3>2, <4>1
    <3> QED  BY <3>1, <3>2
  <2>3. pc'[t] \notin {"socket", "connect", "fill"}
    BY <1>1
  <2>4. pc'[t] = "setsockopt" =>
          prog'[t] = "NFS" /\ (cl'[t]["NFS"] # NULL => sockp'[t] = cl'[t]["NFS"].sock)
    BY <1>1
  <2> QED  BY <2>2, <2>3, <2>4 DEF Sound
<1>6. Fresh(t)'
  <2>1. pc'[t] \notin {"socket", "connect", "fill"}
    BY <1>1
  <2> QED  BY <1>1, <2>1, SMTT(30) DEF IInv, Fresh
<1> QED  BY <1>2, <1>3, <1>4, <1>5, <1>6, Framed

\* A creation that fails.
LEMMA FailStep ==
  ASSUME IInv, NEW t \in Threads, NEW p \in Progs, NEW d \in Sockets,
         Created(t, p, d, NULL), cl[t][p] = NULL,
         UNCHANGED <<registered, restarts, port>>, DOMAIN fds' = Descriptors,
         \A e \in Descriptors, u \in Threads, q \in Progs :
           fds[e] = <<u, q>> /\ <<u, q>> # <<t, p>> => fds'[e] = <<u, q>>
  PROVE  IInv'
<1> DEFINE h == NULL
<1>1. h \in Handle \cup {NULL} /\ h = NULL
  OBVIOUS
<1>2. Created(t, p, d, h)
  OBVIOUS
<1> HIDE DEF h
<1> QED  BY <1>1, <1>2, EndStep, SMTT(30)

\* GetPort and CreateNoMem: nothing is open yet.
LEMMA GetPortStep ==
  ASSUME IInv, NEW t \in Threads, NEW p \in Progs, GetPort(t, p) \/ CreateNoMem(t, p)
  PROVE  IInv'
<1>1. /\ UNCHANGED <<registered, restarts, fds>> /\ pc[t] = "idle"
      /\ cl[t][p] = NULL
  BY DEF GetPort, CreateNoMem, server
<1>2. RPC_ANYSOCK \in Sockets
  BY DEF Sockets
<1>3. CASE Created(t, p, RPC_ANYSOCK, NULL) /\ port' = port
  <2>1. DOMAIN fds' = Descriptors
    BY <1>1 DEF IInv, Types
  <2> QED  BY <1>1, <1>2, <1>3, <2>1, FailStep
<1>4. CASE /\ Goon(t, p, RPC_ANYSOCK, "socket") /\ UNCHANGED cl
           /\ ~(port[t][p] = 0 /\ registered[p] = 0)
           /\ IF port[t][p] = 0 THEN CachePort(t, p) ELSE UNCHANGED port
  <2>1. /\ DOMAIN pc' = Threads
        /\ prog' \in [Threads -> Progs \cup {NULL}]
        /\ sockp' \in [Threads -> Sockets]
        /\ pc'[t] = "socket" /\ prog'[t] = p
        /\ \A u \in Threads \ {t} :
             pc'[u] = pc[u] /\ prog'[u] = prog[u] /\ sockp'[u] = sockp[u]
    BY <1>2, <1>4 DEF IInv, Types, Goon, Goto
  <2>2. /\ port' \in [Threads -> [Progs -> Nat]]
        /\ \A u \in Threads \ {t} : port'[u] = port[u]
        /\ \A q \in Progs \ {p} : port'[t][q] = port[t][q]
        /\ port'[t][p] = IF port[t][p] = 0 THEN registered[p] ELSE port[t][p]
    <3>1. port \in [Threads -> [Progs -> Nat]] /\ registered \in [Progs -> Nat]
      BY DEF IInv, Types
    <3>2. CASE port[t][p] = 0
      <4>1. port' = [port EXCEPT ![t][p] = registered[p]]
        BY <1>4, <3>2 DEF CachePort
      <4> QED  BY <3>1, <3>2, <4>1
    <3>3. CASE port[t][p] # 0
      <4>1. port' = port
        BY <1>4, <3>3
      <4> QED  BY <3>1, <3>3, <4>1
    <3> QED  BY <3>2, <3>3
  <2>3. Alone(t) /\ Spared(t) /\ Types'
    BY <1>1, <1>4, <2>1, <2>2 DEF Alone, Spared, IInv, Types
  <2>4. Sound(t)'
    <3>1. Sound(t) /\ fds' = fds /\ cl' = cl
      BY <1>1, <1>4 DEF IInv
    <3> QED  BY ONLY <1>1, <2>1, <3>1 DEF Sound
  <2>5. port'[t][p] # 0
    BY <1>4, <2>2
  <2>6. Fresh(t)'
    <3> SUFFICES ASSUME restarts = 0
                 PROVE  /\ \A q \in Progs : port'[t][q] # 0 => port'[t][q] = registered[q]
                        /\ \A q \in Progs : cl[t][q] # NULL =>
                             registered[q] # 0 /\ cl[t][q].port = registered[q]
      BY <1>1, <1>4, <2>1, <2>5 DEF Fresh
    <3>1. \A q \in Progs :
            /\ port[t][q] # 0 => port[t][q] = registered[q]
            /\ cl[t][q] # NULL => registered[q] # 0 /\ cl[t][q].port = registered[q]
      BY DEF IInv, Fresh
    <3>2. ASSUME NEW q \in Progs, port'[t][q] # 0 PROVE port'[t][q] = registered[q]
      <4>1. CASE q = p  BY <2>2, <3>1, <4>1
      <4>2. CASE q # p  BY <2>2, <3>1, <3>2, <4>2
      <4> QED  BY <4>1, <4>2
    <3> QED  BY <3>1, <3>2
  <2> QED  BY <2>3, <2>4, <2>6, Framed
<1> QED  BY <1>3, <1>4 DEF GetPort, CreateNoMem

\* socket() gives a descriptor that nobody has.
LEMMA SocketStep == ASSUME IInv, NEW t \in Threads, Socket(t) PROVE IInv'
<1> DEFINE p == prog[t]
<1>1. /\ UNCHANGED <<registered, restarts, port>> /\ pc[t] = "socket"
      /\ p \in Progs /\ cl[t][p] = NULL
  BY DEF Socket, server, IInv, Sound
<1>2. -1 \in Sockets
  BY DEF Sockets, RPC_ANYSOCK
<1>3. CASE Failed(t, p, -1) /\ UNCHANGED fds
  <2>1. Created(t, p, -1, NULL) /\ DOMAIN fds' = Descriptors
    BY <1>3 DEF Failed, IInv, Types
  <2> QED  BY <1>1, <1>2, <1>3, <2>1, FailStep
<1>4. CASE \E d \in Unused :
             /\ fds' = [fds EXCEPT ![d] = <<t, p>>]
             /\ IF d = 0 THEN Failed(t, p, 0)
                ELSE Goon(t, p, d, "connect") /\ UNCHANGED <<heap, cl>>
  <2>1. PICK d \in Unused :
             /\ fds' = [fds EXCEPT ![d] = <<t, p>>]
             /\ IF d = 0 THEN Failed(t, p, 0)
                ELSE Goon(t, p, d, "connect") /\ UNCHANGED <<heap, cl>>
    BY <1>4
  <2>2. d \in Descriptors /\ fds[d] = NULL /\ d \in Sockets
    BY DEF Unused, Sockets
  <2>3. /\ DOMAIN fds' = Descriptors /\ fds'[d] = <<t, p>>
        /\ \A e \in Descriptors \ {d} : fds'[e] = fds[e]
    BY <2>1, <2>2 DEF IInv, Types
  <2>4. \A e \in Descriptors, u \in Threads, q \in Progs :
          fds[e] = <<u, q>> => fds'[e] = <<u, q>>
    BY <2>2, <2>3, NotTuples
  <2>5. CASE d = 0
    <3>1. Created(t, p, d, NULL)
      BY <2>1, <2>5 DEF Failed
    <3>2. \A e \in Descriptors, u \in Threads, q \in Progs :
            fds[e] = <<u, q>> /\ <<u, q>> # <<t, p>> => fds'[e] = <<u, q>>
      BY ONLY <2>4
    <3> HIDE DEF p
    <3> QED  BY <1>1, <2>2, <2>3, <3>1, <3>2, FailStep, SMTT(30)
  <2>6. CASE d # 0
    <3>1. cl' = cl /\ Goon(t, p, d, "connect")
      BY <2>1, <2>6
    <3>2. /\ DOMAIN pc' = Threads
          /\ prog' \in [Threads -> Progs \cup {NULL}]
          /\ sockp' \in [Threads -> Sockets]
          /\ pc'[t] = "connect" /\ prog'[t] = p /\ sockp'[t] = d
          /\ \A u \in Threads \ {t} :
               pc'[u] = pc[u] /\ prog'[u] = prog[u] /\ sockp'[u] = sockp[u]
      BY <1>1, <2>2, <3>1 DEF IInv, Types, Goon, Goto
    <3>3. Alone(t) /\ Spared(t) /\ Types'
      BY <1>1, <2>3, <2>4, <3>1, <3>2, SMTT(30) DEF Alone, Spared, IInv, Types
    <3>4. \A q \in Progs : cl'[t][q] # NULL => fds'[cl'[t][q].sock] = <<t, q>>
      BY <2>4, <3>1, SMTT(30) DEF IInv, Types, Handle, Sound
    <3>5. Sound(t)'
      BY <1>1, <2>2, <2>3, <3>1, <3>2, <3>4, SMTT(30) DEF Sound
    <3>6. Fresh(t)'
      BY <1>1, <3>1, <3>2 DEF IInv, Fresh
    <3> QED  BY <3>3, <3>5, <3>6, Framed
  <2> QED  BY <2>5, <2>6
<1> QED  BY <1>3, <1>4 DEF Socket

\* Connect, Fill, FillNoMem and SetFlagFails: the socket is that of the
\* creation, and is closed or goes into the handle.
LEMMA CreationStep ==
  ASSUME IInv, NEW t \in Threads,
         Connect(t) \/ Fill(t) \/ FillNoMem(t) \/ SetFlagFails(t)
  PROVE  IInv'
<1> DEFINE p == prog[t]
           d == sockp[t]
<1>1. /\ UNCHANGED <<registered, restarts, port>>
      /\ pc[t] \in {"connect", "fill"}
  BY DEF Connect, Fill, FillNoMem, SetFlagFails, server
<1>2. /\ p \in Progs /\ cl[t][p] = NULL
      /\ d \in Descriptors /\ fds[d] = <<t, p>> /\ d \in Sockets
  BY <1>1 DEF IInv, Sound, Sockets
<1>3. CASE Created(t, p, d, NULL) /\ (fds' = fds \/ Close(d))
  <2>1. /\ DOMAIN fds' = Descriptors
        /\ \A e \in Descriptors \ {d} : fds'[e] = fds[e]
    BY <1>3 DEF IInv, Types, Close
  <2>2. \A e \in Descriptors, u \in Threads, q \in Progs :
          fds[e] = <<u, q>> /\ <<u, q>> # <<t, p>> => fds'[e] = <<u, q>>
    BY <1>2, <2>1
  <2> QED  BY <1>1, <1>2, <1>3, <2>1, <2>2, FailStep
<1>4. CASE Goon(t, p, d, "fill") /\ UNCHANGED <<fds, cl>>
  <2>1. /\ DOMAIN pc' = Threads
        /\ prog' \in [Threads -> Progs \cup {NULL}]
        /\ sockp' \in [Threads -> Sockets]
        /\ pc'[t] = "fill" /\ prog'[t] = p /\ sockp'[t] = d
        /\ \A u \in Threads \ {t} :
             pc'[u] = pc[u] /\ prog'[u] = prog[u] /\ sockp'[u] = sockp[u]
    BY <1>2, <1>4 DEF IInv, Types, Goon, Goto
  <2>2. Alone(t) /\ Spared(t) /\ Types'
    BY <1>1, <1>4, <2>1 DEF Alone, Spared, IInv, Types
  <2>3. Sound(t)'
    BY <1>2, <1>4, <2>1 DEF IInv, Sound
  <2>4. Fresh(t)'
    BY <1>1, <1>4, <2>1 DEF IInv, Fresh
  <2> QED  BY <2>2, <2>3, <2>4, Framed
<1>5. CASE Fill(t)
  <2> DEFINE h == [sock |-> d, port |-> port[t][p]]
  <2>1. Created(t, p, d, h) /\ fds' = fds
    BY <1>5 DEF Fill
  <2>2. port[t][p] \in Nat
    BY <1>2 DEF IInv, Types
  <2>3. h \in Handle /\ h.sock = d /\ h.port = port[t][p]
    BY <1>2, <2>2 DEF Handle
  <2>4. restarts = 0 => registered[p] # 0 /\ h.port = registered[p]
    BY <1>1, <1>2, <2>3 DEF IInv, Fresh
  <2>5. DOMAIN fds' = Descriptors /\ fds'[d] = <<t, p>>
    BY <1>2, <2>1 DEF IInv, Types
  <2> HIDE DEF h
  <2> QED  BY <1>1, <1>2, <2>1, <2>3, <2>4, <2>5, EndStep
<1>6. CASE Connect(t)
  BY <1>3, <1>4, <1>6 DEF Connect, Failed
<1>7. CASE FillNoMem(t)
  BY <1>3, <1>7 DEF FillNoMem
<1>8. CASE SetFlagFails(t)
  BY <1>3, <1>8 DEF SetFlagFails, clnttcp_nb_destroy
<1> QED  BY <1>5, <1>6, <1>7, <1>8

\* setsockopt is the end of a call.
LEMMA SetSockOptStep == ASSUME IInv, NEW t \in Threads, SetSockOpt(t) PROVE IInv'
<1>1. /\ UNCHANGED <<registered, restarts, fds, port, cl>>
      /\ Goon(t, NULL, RPC_ANYSOCK, "idle")
  BY DEF SetSockOpt, server
<1>2. RPC_ANYSOCK \in Sockets
  BY DEF Sockets
<1>3. /\ DOMAIN pc' = Threads
      /\ prog' \in [Threads -> Progs \cup {NULL}]
      /\ sockp' \in [Threads -> Sockets]
      /\ pc'[t] = "idle"
      /\ \A u \in Threads \ {t} :
           pc'[u] = pc[u] /\ prog'[u] = prog[u] /\ sockp'[u] = sockp[u]
  BY <1>1, <1>2 DEF IInv, Types, Goon, Goto
<1>4. Alone(t) /\ Spared(t) /\ Types'
  BY <1>1, <1>3 DEF Alone, Spared, IInv, Types
<1>5. Sound(t)' /\ Fresh(t)'
  <2>1. Sound(t) /\ Fresh(t)
    BY DEF IInv
  <2> QED  BY ONLY <1>1, <1>3, <2>1, AtRest
<1> QED  BY <1>4, <1>5, Framed

\* The pool of a thread is made and destroyed outside of any call.
LEMMA PoolStep ==
  ASSUME IInv, NEW t \in Threads,
         ContextInit(t) \/ ContextInitFails(t) \/ DestroyPool(t)
  PROVE  IInv'
<1>1. UNCHANGED <<registered, restarts, fds, prog, sockp, port, cl>>
  BY DEF ContextInit, ContextInitFails, DestroyPool, server
<1>2. \E to \in {"start", "idle", "exited"} : Goto(t, to)
  BY DEF ContextInit, ContextInitFails, DestroyPool
<1> QED  BY <1>1, <1>2, QuietStep

\* Every step keeps the invariant.
LEMMA NextIInv == IInv /\ [Next]_vars => IInv'
<1> SUFFICES ASSUME IInv, [Next]_vars PROVE IInv'
  OBVIOUS
<1>1. CASE UNCHANGED vars
  <2>1. Types'
    BY <1>1 DEF vars, server, call, IInv, Types
  <2>2. ASSUME NEW t \in Threads, Sound(t) PROVE Sound(t)'
    BY <1>1, <2>2 DEF vars, server, call, Sound
  <2> QED  BY <1>1, <2>1, <2>2 DEF vars, server, call, IInv, Fresh
<1>2. ASSUME NEW t \in Threads, ThreadStep(t) PROVE IInv'
  BY <1>2, PoolStep, SocketStep, CreationStep, SetSockOptStep DEF ThreadStep
<1>3. ASSUME NEW t \in Threads,
             ContextInitFails(t) \/ FillNoMem(t) \/ SetFlagFails(t) \/ DestroyPool(t)
      PROVE  IInv'
  BY <1>3, PoolStep, CreationStep
<1>4. ASSUME NEW t \in Threads, NEW p \in Progs, GetPort(t, p) \/ CreateNoMem(t, p)
      PROVE  IInv'
  BY <1>4, GetPortStep
<1>5. ASSUME NEW p \in Progs, ServerStop(p) \/ ServerStart(p) PROVE IInv'
  BY <1>5, ServerStep
<1> QED  BY <1>1, <1>2, <1>3, <1>4, <1>5, OtherStep DEF Next

LEMMA IInvHolds == Spec => []IInv
BY InitIInv, NextIInv, PTL DEF Spec

\* nfs3_call comes to setsockopt only if the context's flags say so.
Nagle ==
  /\ nfs_connflags \in ConnFlags
  /\ \A t \in Threads : pc[t] = "setsockopt" => "DISABLE_NAGLE" \in nfs_connflags

\* A step of a thread takes that thread alone there, and with the flag.
LEMMA NagleKept ==
  ASSUME IInv, Nagle, nfs_connflags' = nfs_connflags, NEW t \in Threads, NEW to,
         Goto(t, to), to = "setsockopt" => "DISABLE_NAGLE" \in nfs_connflags
  PROVE  Nagle'
<1>1. \A u \in Threads : pc'[u] = IF u = t THEN to ELSE pc[u]
  BY DEF IInv, Types, Goto
<1> QED  BY <1>1 DEF Nagle

\* This holds in every state.
LEMMA NagleHolds == Spec => []Nagle
<1>1. Init => Nagle
  BY DEF Init, Nagle
<1>2. ASSUME IInv, Nagle, [Next]_vars PROVE Nagle'
  <2>1. ASSUME NEW t \in Threads, NEW p, NEW d, NEW handle, Created(t, p, d, handle),
               nfs_connflags' = nfs_connflags
        PROVE  Nagle'
    <3>1. CASE p = "NFS" /\ "DISABLE_NAGLE" \in nfs_connflags
      BY <1>2, <2>1, <3>1, NagleKept DEF Created, Goon
    <3>2. CASE ~(p = "NFS" /\ "DISABLE_NAGLE" \in nfs_connflags)
      <4>1. Goto(t, "idle")
        BY <2>1, <3>2 DEF Created, Goon
      <4> QED  BY <1>2, <2>1, <4>1, NagleKept
    <3> QED  BY <3>1, <3>2
  <2>2. ASSUME NEW t \in Threads, NEW p, NEW d, NEW to, Goon(t, p, d, to), to # "setsockopt",
               nfs_connflags' = nfs_connflags
        PROVE  Nagle'
    BY <1>2, <2>2, NagleKept DEF Goon
  <2>3. CASE UNCHANGED <<nfs_connflags, pc>>
    BY <1>2, <2>3 DEF Nagle
  <2>4. CASE \E t \in Threads : Socket(t) \/ Connect(t) \/ Fill(t) \/ SetSockOpt(t)
    BY <2>1, <2>2, <2>4 DEF Socket, Connect, Fill, SetSockOpt, Failed
  <2>5. CASE \E t \in Threads : FillNoMem(t) \/ SetFlagFails(t)
    BY <2>1, <2>5 DEF FillNoMem, SetFlagFails
  <2>6. CASE \E t \in Threads, p \in Progs : GetPort(t, p) \/ CreateNoMem(t, p)
    BY <2>1, <2>2, <2>6 DEF GetPort, CreateNoMem
  <2>7. CASE \E t \in Threads : ContextInit(t) \/ ContextInitFails(t) \/ DestroyPool(t)
    <3>1. PICK t \in Threads : ContextInit(t) \/ ContextInitFails(t) \/ DestroyPool(t)
      BY <2>7
    <3>2. nfs_connflags' = nfs_connflags /\ \E to \in {"idle", "start", "exited"} : Goto(t, to)
      BY <3>1 DEF ContextInit, ContextInitFails, DestroyPool
    <3> QED  BY <1>2, <3>2, NagleKept
  <2>8. CASE OtherOpen \/ OtherClose \/ \E p \in Progs : ServerStop(p) \/ ServerStart(p)
    BY <2>3, <2>8 DEF OtherOpen, OtherClose, ServerStop, ServerStart, call
  <2>9. CASE UNCHANGED vars
    BY <2>3, <2>9 DEF vars, call
  <2> QED  BY <1>2, <2>4, <2>5, <2>6, <2>7, <2>8, <2>9 DEF Next, ThreadStep
<1> QED  BY <1>1, <1>2, IInvHolds, PTL DEF Spec

\* Threads that create and destroy handles side by side, each of them with
\* any failures, use and close descriptors of their own for the program at hand.
\* The exception that OwnDescriptor states, setsockopt after a creation that
\* failed, is met only with NFSC_CFL_DISABLE_NAGLE.
THEOREM OwnDescriptorCorrect == Spec => []OwnDescriptor
<1>1. ASSUME IInv, Nagle PROVE OwnDescriptor
  <2> SUFFICES ASSUME NEW t \in Threads
               PROVE  /\ IF NagleWithoutHandle(t) THEN "DISABLE_NAGLE" \in nfs_connflags
                         ELSE pc[t] \in {"connect", "fill", "setsockopt"} =>
                                fds[sockp[t]] = <<t, prog[t]>>
                      /\ \A p \in Progs :
                           cl[t][p] # NULL => fds[cl[t][p].sock] = <<t, p>>
    BY DEF OwnDescriptor
  <2>1. Sound(t)
    BY <1>1 DEF IInv
  <2>2. "NFS" \in Progs
    BY DEF Progs
  <2> QED  BY <1>1, <2>1, <2>2 DEF Sound, Nagle, NagleWithoutHandle
<1> QED  BY <1>1, IInvHolds, NagleHolds, PTL

\* Every system call on a socket is on one the thread has opened and not closed.
AlwaysOwn ==
  \A t \in Threads :
    pc[t] \in {"connect", "fill", "setsockopt"} => fds[sockp[t]] = <<t, prog[t]>>

\* Without NFSC_CFL_DISABLE_NAGLE, as in nfsclientd (nfscd_ops.c line 60) and in
\* the test programs, there is no exception.
THEOREM AlwaysOwnCorrect ==
  ASSUME \A flags \in ConnFlags : "DISABLE_NAGLE" \notin flags
  PROVE  Spec => []AlwaysOwn
<1>1. ASSUME OwnDescriptor, Nagle PROVE AlwaysOwn
  BY <1>1 DEF OwnDescriptor, Nagle, NagleWithoutHandle, AlwaysOwn
<1> QED  BY <1>1, OwnDescriptorCorrect, NagleHolds, PTL

\* As long as the server has not been restarted, the connection of a handle
\* leads to the program the handle is for.
THEOREM RightProgramCorrect == Spec => []RightProgram
<1>1. IInv => RightProgram
  BY DEF IInv, Fresh, RightProgram
<1> QED  BY <1>1, IInvHolds, PTL


-----------------------------------------------------------------------------
(* What a creation that ends leaves behind, as long as memory suffices.    *)

\* A block that is allocated once.
Has(b) == b \in DOMAIN heap /\ heap[b] = 1

\* The handle of a program is being created, and has a socket already.
Creating(t, p) == pc[t] \in {"socket", "connect", "fill"} /\ prog[t] = p
Opening(t, p) == pc[t] \in {"connect", "fill"} /\ prog[t] = p

\* The blocks for a program of a thread are there once, and no others; its
\* descriptors are in its handle or in its creation.
Kept(t, p) ==
  /\ \A k \in HandleKinds :
       IF cl[t][p] # NULL \/ (Creating(t, p) /\ k \in {"handle", "ct"})
       THEN Has(<<t, p, k>>) ELSE <<t, p, k>> \notin DOMAIN heap
  /\ \A d \in Descriptors \ {0} :
       fds[d] = <<t, p>> => \/ cl[t][p] # NULL /\ d = cl[t][p].sock
                            \/ Opening(t, p) /\ d = sockp[t]
  /\ cl[t][p] # NULL => cl[t][p].sock # 0
  /\ Opening(t, p) => sockp[t] # 0

\* The invariant for NothingLost.
KInv == faults \in Nat /\ (faults = 0 => \A t \in Threads, p \in Progs : Kept(t, p))

\* A block is as it was.
Same(b) == (Has(b) => Has(b)') /\ (b \notin DOMAIN heap => b \notin DOMAIN heap')

\* What is allocated is there, the rest is as it was.
LEMMA MallocFacts ==
  ASSUME NEW B, NEW S, NEW e
  PROVE  LET C == Allocated(B, S) IN
         /\ e \notin S => /\ e \in DOMAIN B /\ B[e] = 1 => e \in DOMAIN C /\ C[e] = 1
                          /\ e \notin DOMAIN B => e \notin DOMAIN C
         /\ e \in S /\ e \notin DOMAIN B => e \in DOMAIN C /\ C[e] = 1
BY SMTT(30) DEF Allocated

\* What was there once is gone when it is freed, the rest is as it was.
LEMMA FreeFacts ==
  ASSUME NEW B, NEW S, NEW e
  PROVE  LET C == Released(B, S) IN
         /\ e \notin S => /\ e \in DOMAIN B /\ B[e] = 1 => e \in DOMAIN C /\ C[e] = 1
                          /\ e \notin DOMAIN B => e \notin DOMAIN C
         /\ e \in S /\ e \in DOMAIN B /\ B[e] = 1 => e \notin DOMAIN C
BY SMTT(30) DEF Released

\* Blocks are allocated for an owner: those of the others are as they were.
LEMMA BlocksAdded ==
  ASSUME NEW t, NEW o, NEW K, heap' = Allocated(heap, Blocks(t, o, K))
  PROVE  /\ \A u, q, k : <<u, q>> # <<t, o>> \/ k \notin K => Same(<<u, q, k>>)
         /\ \A k \in K : <<t, o, k>> \notin DOMAIN heap => Has(<<t, o, k>>)'
<1> DEFINE S == {<<t, o, k>> : k \in K}
<1>1. heap' = Allocated(heap, S)
  BY DEF Blocks
<1>2. \A u, q, k : <<u, q>> # <<t, o>> \/ k \notin K => <<u, q, k>> \notin S
  OBVIOUS
<1>3. \A k \in K : <<t, o, k>> \in S
  OBVIOUS
<1> HIDE DEF S
<1> QED  BY <1>1, <1>2, <1>3, MallocFacts, SMTT(30) DEF Same, Has

\* Blocks of an owner are freed.
LEMMA BlocksRemoved ==
  ASSUME NEW t, NEW o, NEW K, heap' = Released(heap, Blocks(t, o, K))
  PROVE  /\ \A u, q, k : <<u, q>> # <<t, o>> \/ k \notin K => Same(<<u, q, k>>)
         /\ \A k \in K : Has(<<t, o, k>>) => <<t, o, k>> \notin DOMAIN heap'
<1> DEFINE S == {<<t, o, k>> : k \in K}
<1>1. heap' = Released(heap, S)
  BY DEF Blocks
<1>2. \A u, q, k : <<u, q>> # <<t, o>> \/ k \notin K => <<u, q, k>> \notin S
  OBVIOUS
<1>3. \A k \in K : <<t, o, k>> \in S
  OBVIOUS
<1> HIDE DEF S
<1> QED  BY <1>1, <1>2, <1>3, FreeFacts, SMTT(30) DEF Same, Has

\* Nothing about a program of a thread changes, and no descriptor is gained.
Untouched(t, p) ==
  /\ cl'[t][p] = cl[t][p]
  /\ Creating(t, p)' <=> Creating(t, p)
  /\ Opening(t, p)' <=> Opening(t, p)
  /\ Opening(t, p) => sockp'[t] = sockp[t]
  /\ \A k \in HandleKinds : Same(<<t, p, k>>)
  /\ \A d \in Descriptors : fds'[d] = <<t, p>> => fds[d] = <<t, p>>

LEMMA UntouchedKept ==
  ASSUME NEW t, NEW p, Untouched(t, p), Kept(t, p)
  PROVE  Kept(t, p)'
BY DEF Untouched, Kept, Same

\* At the start there is no block and no descriptor.
LEMMA InitKInv == Init => KInv
<1> SUFFICES ASSUME Init PROVE KInv
  OBVIOUS
<1>1. DOMAIN heap = {}
  BY SMTT(30) DEF Init
<1>2. \A t \in Threads, p \in Progs :
        /\ cl[t][p] = NULL /\ ~Creating(t, p) /\ ~Opening(t, p)
        /\ \A d \in Descriptors : fds[d] # <<t, p>>
  BY NotTuples DEF Init, Creating, Opening
<1>3. \A t \in Threads, p \in Progs : Kept(t, p)
  BY <1>1, <1>2 DEF Kept
<1> QED  BY <1>3 DEF Init, KInv

\* A failure ends what the invariant says.
LEMMA FaultKept ==
  ASSUME KInv, Fault PROVE KInv'
BY SMTT(30) DEF KInv, Fault

\* A step that concerns one program of one thread.
LEMMA StepKept ==
  ASSUME KInv, faults' = faults, NEW t \in Threads, NEW p \in Progs,
         \A u \in Threads, q \in Progs : <<u, q>> # <<t, p>> => Untouched(u, q),
         Kept(t, p) => Kept(t, p)'
  PROVE  KInv'
<1> SUFFICES ASSUME faults = 0, NEW u \in Threads, NEW q \in Progs PROVE Kept(u, q)'
  BY DEF KInv
<1>1. Kept(u, q) /\ Kept(t, p)
  BY DEF KInv
<1>2. CASE <<u, q>> = <<t, p>>
  <2>1. u = t /\ q = p
    BY <1>2
  <2> QED  BY <1>1, <2>1
<1>3. CASE <<u, q>> # <<t, p>>
  <2>1. Untouched(u, q)
    BY <1>3
  <2> QED  BY <1>1, <2>1, UntouchedKept
<1> QED  BY <1>2, <1>3

\* A step that concerns none.
LEMMA OtherKept ==
  ASSUME KInv, faults' = faults,
         \A u \in Threads, q \in Progs : Untouched(u, q)
  PROVE  KInv'
<1> SUFFICES ASSUME faults = 0, NEW u \in Threads, NEW q \in Progs PROVE Kept(u, q)'
  BY DEF KInv
<1>1. Kept(u, q)
  BY DEF KInv
<1> QED  BY <1>1, UntouchedKept

\* The server and the rest of the process.
LEMMA OutsideKept ==
  ASSUME IInv, KInv,
         \/ OtherOpen \/ OtherClose
         \/ \E p \in Progs : ServerStop(p) \/ ServerStart(p)
  PROVE  KInv'
<1>1. UNCHANGED <<heap, pc, prog, sockp, cl, faults>>
  BY DEF OtherOpen, OtherClose, ServerStop, ServerStart, call
<1>2. \A d \in Descriptors : fds'[d] \in {fds[d], NULL, Other}
  <2>1. CASE \E p \in Progs : ServerStop(p) \/ ServerStart(p)
    BY <2>1 DEF ServerStop, ServerStart
  <2>2. CASE OtherOpen
    <3>1. PICK e \in Descriptors : fds' = [fds EXCEPT ![e] = Other]
      BY <2>2 DEF OtherOpen, Unused
    <3> QED  BY <3>1 DEF IInv, Types
  <2>3. CASE OtherClose
    <3>1. PICK e \in Descriptors : fds' = [fds EXCEPT ![e] = NULL]
      BY <2>3 DEF OtherClose, Close
    <3> QED  BY <3>1 DEF IInv, Types
  <2> QED  BY <2>1, <2>2, <2>3
<1>3. ASSUME NEW u \in Threads, NEW q \in Progs PROVE Untouched(u, q)
  <2>1. \A d \in Descriptors : fds'[d] = <<u, q>> => fds[d] = <<u, q>>
    BY <1>2, NotTuples
  <2> QED  BY <1>1, <2>1 DEF Untouched, Creating, Opening, Same, Has
<1> QED  BY <1>1, <1>3, OtherKept

\* The pool of a thread: its blocks are not those of a handle.
LEMMA PoolKept ==
  ASSUME IInv, KInv, NEW t \in Threads, ContextInit(t) \/ DestroyPool(t)
  PROVE  KInv'
<1>1. UNCHANGED <<fds, prog, sockp, cl, faults>>
  BY DEF ContextInit, DestroyPool
<1>2. \A u \in Threads, q \in Progs : (Creating(u, q)' <=> Creating(u, q))
                                       /\ (Opening(u, q)' <=> Opening(u, q))
  <2>1. PICK to \in {"start", "idle", "exited"} : Goto(t, to) /\ pc[t] \in {"start", "idle"}
    BY DEF ContextInit, DestroyPool
  <2>2. pc'[t] = to /\ \A u \in Threads \ {t} : pc'[u] = pc[u]
    BY <2>1 DEF IInv, Types, Goto
  <2>3. ASSUME NEW u \in Threads, NEW q \in Progs
        PROVE  (Creating(u, q)' <=> Creating(u, q)) /\ (Opening(u, q)' <=> Opening(u, q))
    <3>1. CASE u = t
      BY <1>1, <2>1, <2>2, <3>1 DEF Creating, Opening
    <3>2. CASE u # t
      BY <1>1, <2>2, <3>2 DEF Creating, Opening
    <3> QED  BY <3>1, <3>2
  <2> QED  BY <2>3
<1>3. ASSUME NEW u \in Threads, NEW q \in Progs, NEW k \in HandleKinds
      PROVE  Same(<<u, q, k>>)
  <2>1. q # "ctx"
    BY DEF Progs
  <2>2. CASE ContextInit(t)
    <3>1. \E K : heap' = Allocated(heap, Blocks(t, "ctx", K))
      BY <2>2 DEF ContextInit
    <3> QED  BY <2>1, <3>1, BlocksAdded
  <2>3. CASE DestroyPool(t)
    <3>1. heap' = [b \in {b \in DOMAIN heap : b[1] # t \/ b[2] # "ctx"} |-> heap[b]]
      BY <2>3 DEF DestroyPool
    <3>2. <<u, q, k>>[2] # "ctx"
      BY <2>1
    <3> QED  BY <3>1, <3>2 DEF Same, Has
  <2> QED  BY <2>2, <2>3
<1>4. \A u \in Threads, q \in Progs : Untouched(u, q)
  BY <1>1, <1>2, <1>3 DEF Untouched
<1> QED  BY <1>1, <1>4, OtherKept

\* A thread that creates the handle of a program creates no other, and the
\* calls of the other threads go on.
LEMMA OthersUntouched ==
  ASSUME NEW t \in Threads, NEW p \in Progs,
         pc[t] \in {"idle", "setsockopt"} \/ prog[t] = p,
         pc'[t] \in {"idle", "setsockopt"} \/ prog'[t] = p,
         \A u \in Threads \ {t} :
           /\ pc'[u] = pc[u] /\ prog'[u] = prog[u] /\ sockp'[u] = sockp[u]
           /\ cl'[u] = cl[u],
         \A q \in Progs \ {p} : cl'[t][q] = cl[t][q],
         \A u \in Threads, q \in Progs, k \in HandleKinds :
           <<u, q>> # <<t, p>> => Same(<<u, q, k>>),
         \A d \in Descriptors : fds'[d] \in {fds[d], NULL, <<t, p>>}
  PROVE  \A u \in Threads, q \in Progs : <<u, q>> # <<t, p>> => Untouched(u, q)
<1> SUFFICES ASSUME NEW u \in Threads, NEW q \in Progs, <<u, q>> # <<t, p>>
             PROVE  Untouched(u, q)
  OBVIOUS
<1>1. \A k \in HandleKinds : Same(<<u, q, k>>)
  OBVIOUS
<1>2. \A d \in Descriptors : fds'[d] = <<u, q>> => fds[d] = <<u, q>>
  BY NotTuples
<1>3. CASE u # t
  BY <1>1, <1>2, <1>3 DEF Untouched, Creating, Opening
<1>4. CASE u = t
  <2>1. q # p
    BY <1>4
  <2>2. ~Creating(t, q) /\ ~Creating(t, q)' /\ ~Opening(t, q) /\ ~Opening(t, q)'
    BY <2>1 DEF Creating, Opening
  <2>3. cl'[t][q] = cl[t][q]
    BY <2>1
  <2> QED  BY <1>1, <1>2, <1>4, <2>2, <2>3 DEF Untouched
<1> QED  BY <1>3, <1>4

\* A creation ends without a handle and without its blocks; a socket that it
\* had is closed.
LEMMA FailKept ==
  ASSUME IInv, KInv, faults' = faults, NEW t \in Threads, NEW p \in Progs,
         NEW d \in Sockets, Creating(t, p), cl[t][p] = NULL, Failed(t, p, d),
         \A e \in Descriptors : fds'[e] \in {fds[e], NULL, <<t, p>>},
         \A e \in Descriptors \ {0} : fds'[e] = <<t, p>> =>
           fds[e] = <<t, p>> /\ ~(Opening(t, p) /\ e = sockp[t])
  PROVE  KInv'
<1>1. heap' = Released(heap, Blocks(t, p, {"handle", "ct"})) /\ Created(t, p, d, NULL)
  BY DEF Failed
<1>2. /\ pc'[t] \in {"setsockopt", "idle"} /\ cl'[t][p] = NULL
      /\ \A q \in Progs \ {p} : cl'[t][q] = cl[t][q]
      /\ \A u \in Threads \ {t} :
           /\ pc'[u] = pc[u] /\ prog'[u] = prog[u] /\ sockp'[u] = sockp[u]
           /\ cl'[u] = cl[u]
  <2> DEFINE h == NULL
  <2>1. h \in Handle \cup {NULL} /\ Created(t, p, d, h) /\ h = NULL
    BY <1>1
  <2>2. Types
    BY DEF IInv
  <2> HIDE DEF h
  <2> QED  BY <2>1, <2>2, CreatedFacts, SMTT(30)
<1>3. /\ \A u, q, k : <<u, q>> # <<t, p>> \/ k \notin {"handle", "ct"} => Same(<<u, q, k>>)
      /\ \A k \in {"handle", "ct"} : Has(<<t, p, k>>) => <<t, p, k>> \notin DOMAIN heap'
  BY ONLY <1>1, BlocksRemoved
<1>4. \A u \in Threads, q \in Progs : <<u, q>> # <<t, p>> => Untouched(u, q)
  <2>1. prog[t] = p
    BY DEF Creating
  <2>2. \A u \in Threads, q \in Progs, k \in HandleKinds :
          <<u, q>> # <<t, p>> => Same(<<u, q, k>>)
    BY ONLY <1>3
  <2>3. pc'[t] \in {"idle", "setsockopt"}
    BY ONLY <1>2
  <2> QED
    BY ONLY t \in Threads, p \in Progs, <1>2, <2>1, <2>2, <2>3, OthersUntouched,
            \A e \in Descriptors : fds'[e] \in {fds[e], NULL, <<t, p>>}
<1>5. ASSUME Kept(t, p) PROVE Kept(t, p)'
  <2>1. ~Creating(t, p)' /\ ~Opening(t, p)'
    BY <1>2 DEF Creating, Opening
  <2>2. \A k \in HandleKinds : <<t, p, k>> \notin DOMAIN heap'
    <3> SUFFICES ASSUME NEW k \in HandleKinds PROVE <<t, p, k>> \notin DOMAIN heap'
      OBVIOUS
    <3>1. CASE k \in {"handle", "ct"}
      BY <1>3, <1>5, <3>1 DEF Kept
    <3>2. CASE k \notin {"handle", "ct"}
      BY <1>3, <1>5, <3>2 DEF Kept, Same
    <3> QED  BY <3>1, <3>2
  <2>3. \A e \in Descriptors \ {0} : fds'[e] # <<t, p>>
    BY <1>5 DEF Kept
  <2> QED  BY <1>2, <2>1, <2>2, <2>3 DEF Kept
<1> QED  BY <1>4, <1>5, StepKept

\* The handle and its private data are allocated.
LEMMA GetPortKept ==
  ASSUME IInv, KInv, NEW t \in Threads, NEW p \in Progs, GetPort(t, p)
  PROVE  KInv'
<1>1. pc[t] = "idle" /\ cl[t][p] = NULL /\ UNCHANGED <<fds, faults>>
  BY DEF GetPort
<1>2. CASE Created(t, p, RPC_ANYSOCK, NULL) /\ heap' = heap
  <2>1. /\ pc'[t] \in {"setsockopt", "idle"} /\ cl'[t][p] = NULL
        /\ \A q \in Progs \ {p} : cl'[t][q] = cl[t][q]
        /\ \A u \in Threads \ {t} :
             /\ pc'[u] = pc[u] /\ prog'[u] = prog[u] /\ sockp'[u] = sockp[u]
             /\ cl'[u] = cl[u]
    <3> DEFINE h == NULL
               d == RPC_ANYSOCK
    <3>1. h \in Handle \cup {NULL} /\ Created(t, p, d, h) /\ h = NULL /\ d \in Sockets
      BY <1>2 DEF Sockets
    <3>2. Types
      BY DEF IInv
    <3> HIDE DEF h, d
    <3> QED  BY <3>1, <3>2, CreatedFacts, SMTT(30)
  <2>2. \A b : Same(b)
    BY <1>2 DEF Same, Has
  <2>3. \A u \in Threads, q \in Progs : <<u, q>> # <<t, p>> => Untouched(u, q)
    BY <1>1, <2>1, <2>2, OthersUntouched
  <2>4. Untouched(t, p)
    BY <1>1, <2>1, <2>2 DEF Untouched, Creating, Opening
  <2>5. Kept(t, p) => Kept(t, p)'
    BY <2>4, UntouchedKept
  <2> QED  BY <1>1, <2>3, <2>5, StepKept
<1>3. CASE /\ heap' = Allocated(heap, Blocks(t, p, {"handle", "ct"}))
           /\ Goon(t, p, RPC_ANYSOCK, "socket") /\ UNCHANGED cl
  <2>1. /\ pc'[t] = "socket" /\ prog'[t] = p
        /\ \A u \in Threads \ {t} :
             pc'[u] = pc[u] /\ prog'[u] = prog[u] /\ sockp'[u] = sockp[u]
    BY <1>3 DEF IInv, Types, Goon, Goto
  <2>2. /\ \A u, q, k : <<u, q>> # <<t, p>> \/ k \notin {"handle", "ct"} => Same(<<u, q, k>>)
        /\ \A k \in {"handle", "ct"} : <<t, p, k>> \notin DOMAIN heap => Has(<<t, p, k>>)'
    BY ONLY <1>3, BlocksAdded
  <2>3. \A u \in Threads, q \in Progs : <<u, q>> # <<t, p>> => Untouched(u, q)
    <3>1. pc[t] \in {"idle", "setsockopt"} \/ prog[t] = p
      BY <1>1
    <3>2. pc'[t] \in {"idle", "setsockopt"} \/ prog'[t] = p
      BY ONLY <2>1
    <3>3. \A u \in Threads \ {t} :
           /\ pc'[u] = pc[u] /\ prog'[u] = prog[u] /\ sockp'[u] = sockp[u]
           /\ cl'[u] = cl[u]
      BY <1>3, <2>1
    <3>4. \A q \in Progs \ {p} : cl'[t][q] = cl[t][q]
      BY <1>3
    <3>5. \A u \in Threads, q \in Progs, k \in HandleKinds :
           <<u, q>> # <<t, p>> => Same(<<u, q, k>>)
      BY ONLY <2>2
    <3>6. \A d \in Descriptors : fds'[d] \in {fds[d], NULL, <<t, p>>}
      BY <1>1, <1>3
    <3> QED  BY ONLY <3>1, <3>2, <3>3, <3>4, <3>5, <3>6, OthersUntouched
  <2>4. ASSUME Kept(t, p) PROVE Kept(t, p)'
    <3>1. ~Creating(t, p) /\ ~Opening(t, p) /\ Creating(t, p)' /\ ~Opening(t, p)'
      BY <1>1, <2>1 DEF Creating, Opening
    <3>2. \A k \in HandleKinds :
            IF k \in {"handle", "ct"} THEN Has(<<t, p, k>>)' ELSE <<t, p, k>> \notin DOMAIN heap'
      BY <1>1, <2>2, <2>4, <3>1 DEF Kept, Same
    <3> QED  BY <1>1, <1>3, <2>4, <3>1, <3>2 DEF Kept
  <2> QED  BY <1>1, <2>3, <2>4, StepKept
<1> QED  BY <1>2, <1>3 DEF GetPort

\* socket() gives a descriptor, or zero, or none.
LEMMA SocketKept ==
  ASSUME IInv, KInv, NEW t \in Threads, Socket(t)
  PROVE  KInv'
<1>1. PICK p \in Progs : p = prog[t] /\ cl[t][p] = NULL /\ Creating(t, p) /\ ~Opening(t, p)
  BY DEF Socket, IInv, Sound, Creating, Opening
<1>2. faults' = faults /\ pc[t] = "socket" /\ DOMAIN fds = Descriptors
  BY DEF Socket, IInv, Types
<1>3. -1 \in Sockets /\ 0 \in Sockets
  BY DEF Sockets, RPC_ANYSOCK
<1>4. CASE Failed(t, p, -1) /\ UNCHANGED fds
  <2> DEFINE d == -1
  <2>1. d \in Sockets /\ Failed(t, p, d)
    BY <1>3, <1>4
  <2> HIDE DEF d
  <2> QED  BY <1>1, <1>2, <1>4, <2>1, FailKept
<1>5. ASSUME NEW d \in Unused, fds' = [fds EXCEPT ![d] = <<t, p>>],
             IF d = 0 THEN Failed(t, p, 0)
             ELSE Goon(t, p, d, "connect") /\ UNCHANGED <<heap, cl>>
      PROVE  KInv'
  <2>1. d \in Descriptors /\ d \in Sockets
    BY DEF Unused, Sockets
  <2>2. fds'[d] = <<t, p>> /\ \A e \in Descriptors \ {d} : fds'[e] = fds[e]
    BY <1>2, <1>5, <2>1
  <2>3. \A e \in Descriptors : fds'[e] \in {fds[e], NULL, <<t, p>>}
    BY <2>2
  <2>4. CASE d = 0
    <3>1. Failed(t, p, d)
      BY <1>5, <2>4
    <3>2. \A e \in Descriptors \ {0} : fds'[e] = <<t, p>> =>
            fds[e] = <<t, p>> /\ ~(Opening(t, p) /\ e = sockp[t])
      BY <1>1, <2>2, <2>4
    <3> QED  BY <1>1, <1>2, <2>1, <2>3, <3>1, <3>2, FailKept
  <2>5. CASE d # 0
    <3>1. Goon(t, p, d, "connect") /\ UNCHANGED <<heap, cl>>
      BY <1>5, <2>5
    <3>2. /\ pc'[t] = "connect" /\ prog'[t] = p /\ sockp'[t] = d
          /\ \A u \in Threads \ {t} :
               pc'[u] = pc[u] /\ prog'[u] = prog[u] /\ sockp'[u] = sockp[u]
      BY <3>1 DEF IInv, Types, Goon, Goto
    <3>3. \A b : Same(b)
      BY <3>1 DEF Same, Has
    <3>4. \A u \in Threads, q \in Progs : <<u, q>> # <<t, p>> => Untouched(u, q)
      BY <1>1, <2>3, <3>1, <3>2, <3>3, OthersUntouched
    <3>5. ASSUME Kept(t, p) PROVE Kept(t, p)'
      <4>1. Creating(t, p)' /\ Opening(t, p)'
        BY <3>2 DEF Creating, Opening
      <4>2. \A k \in HandleKinds :
              IF k \in {"handle", "ct"} THEN Has(<<t, p, k>>)'
              ELSE <<t, p, k>> \notin DOMAIN heap'
        BY <1>1, <3>3, <3>5 DEF Kept, Same
      <4>3. \A e \in Descriptors \ {0} : fds'[e] = <<t, p>> => e = d
        BY <1>1, <2>2, <3>5 DEF Kept
      <4> QED  BY <1>1, <2>5, <3>1, <3>2, <4>1, <4>2, <4>3 DEF Kept
    <3> QED  BY <1>2, <3>4, <3>5, StepKept
  <2> QED  BY <2>4, <2>5
<1> QED  BY <1>1, <1>4, <1>5 DEF Socket

\* connect() succeeds, or the socket is closed and the creation fails.
LEMMA ConnectKept ==
  ASSUME IInv, KInv, NEW t \in Threads, Connect(t)
  PROVE  KInv'
<1>1. pc[t] = "connect" /\ faults' = faults /\ DOMAIN fds = Descriptors
  BY DEF Connect, IInv, Types
<1>2. PICK p \in Progs : p = prog[t] /\ cl[t][p] = NULL /\ Creating(t, p) /\ Opening(t, p)
  BY <1>1 DEF IInv, Sound, Creating, Opening
<1>3. PICK d \in Descriptors : d = sockp[t] /\ d \in Sockets
  BY <1>1 DEF IInv, Sound, Sockets
<1>4. CASE Close(d) /\ Failed(t, p, d)
  <2>1. fds'[d] = NULL /\ \A e \in Descriptors \ {d} : fds'[e] = fds[e]
    BY <1>1, <1>4 DEF Close
  <2>2. \A e \in Descriptors : fds'[e] \in {fds[e], NULL, <<t, p>>}
    BY <2>1
  <2>3. \A e \in Descriptors \ {0} : fds'[e] = <<t, p>> =>
          fds[e] = <<t, p>> /\ ~(Opening(t, p) /\ e = sockp[t])
    BY <1>3, <2>1, NotTuples
  <2> QED  BY <1>1, <1>2, <1>3, <1>4, <2>2, <2>3, FailKept, SMTT(30)
<1>5. CASE Goon(t, p, d, "fill") /\ UNCHANGED <<fds, heap, cl>>
  <2>1. /\ pc'[t] = "fill" /\ prog'[t] = p /\ sockp'[t] = d
        /\ \A u \in Threads \ {t} :
             pc'[u] = pc[u] /\ prog'[u] = prog[u] /\ sockp'[u] = sockp[u]
    BY <1>5 DEF IInv, Types, Goon, Goto
  <2>2. \A b : Same(b)
    BY <1>5 DEF Same, Has
  <2>3. \A u \in Threads, q \in Progs : <<u, q>> # <<t, p>> => Untouched(u, q)
    BY <1>2, <1>5, <2>1, <2>2, OthersUntouched, SMTT(30)
  <2>4. Untouched(t, p)
    BY <1>2, <1>3, <1>5, <2>1, <2>2 DEF Untouched, Creating, Opening
  <2>5. Kept(t, p) => Kept(t, p)'
    BY <2>4, UntouchedKept
  <2> QED  BY <1>1, <2>3, <2>5, StepKept
<1> QED  BY <1>2, <1>3, <1>4, <1>5 DEF Connect

\* The handle is completed.
LEMMA FillKept ==
  ASSUME IInv, KInv, NEW t \in Threads, Fill(t)
  PROVE  KInv'
<1>1. CASE Fault
  BY <1>1, FaultKept
<1>2. CASE ~Fault
  <2>1. PICK p \in Progs : p = prog[t] /\ cl[t][p] = NULL /\ Creating(t, p) /\ Opening(t, p)
    BY DEF Fill, IInv, Sound, Creating, Opening
  <2>2. PICK d \in Descriptors : d = sockp[t] /\ d \in Sockets
    BY DEF Fill, IInv, Sound, Sockets
  <2>3. /\ heap' = Allocated(heap, Blocks(t, p, {"readbuf", "table", "xdrs"}))
        /\ faults' = faults /\ fds' = fds
        /\ Created(t, p, d, [sock |-> d, port |-> port[t][p]])
    BY <1>2, <2>1, <2>2 DEF Fill
  <2> DEFINE h == [sock |-> d, port |-> port[t][p]]
  <2>4. h \in Handle /\ h.sock = d
    BY DEF IInv, Types, Handle
  <2>5. h # NULL
    <3>1. NULL \notin Handle
      BY ContextAssumption DEF ContextAssumption, Handle
    <3> QED  BY <2>4, <3>1
  <2>6. /\ pc'[t] \in {"setsockopt", "idle"} /\ cl'[t][p] = h
        /\ \A q \in Progs \ {p} : cl'[t][q] = cl[t][q]
        /\ \A u \in Threads \ {t} :
             /\ pc'[u] = pc[u] /\ prog'[u] = prog[u] /\ sockp'[u] = sockp[u]
             /\ cl'[u] = cl[u]
    <3>1. h \in Handle \cup {NULL} /\ Created(t, p, d, h)
      BY <2>3, <2>4
    <3>2. Types
      BY DEF IInv
    <3> HIDE DEF h
    <3> QED  BY <2>2, <3>1, <3>2, CreatedFacts, SMTT(30)
  <2>7. /\ \A u, q, k : <<u, q>> # <<t, p>> \/ k \notin {"readbuf", "table", "xdrs"} =>
             Same(<<u, q, k>>)
        /\ \A k \in {"readbuf", "table", "xdrs"} :
             <<t, p, k>> \notin DOMAIN heap => Has(<<t, p, k>>)'
    BY ONLY <2>3, BlocksAdded
  <2> HIDE DEF h
  <2>8. \A u \in Threads, q \in Progs : <<u, q>> # <<t, p>> => Untouched(u, q)
    <3>1. pc[t] \in {"idle", "setsockopt"} \/ prog[t] = p
      BY <2>1
    <3>2. pc'[t] \in {"idle", "setsockopt"} \/ prog'[t] = p
      BY ONLY <2>6
    <3>3. \A u \in Threads \ {t} :
           /\ pc'[u] = pc[u] /\ prog'[u] = prog[u] /\ sockp'[u] = sockp[u]
           /\ cl'[u] = cl[u]
      BY ONLY <2>6
    <3>4. \A q \in Progs \ {p} : cl'[t][q] = cl[t][q]
      BY ONLY <2>6
    <3>5. \A u \in Threads, q \in Progs, k \in HandleKinds :
           <<u, q>> # <<t, p>> => Same(<<u, q, k>>)
      BY ONLY <2>7
    <3>6. \A e \in Descriptors : fds'[e] \in {fds[e], NULL, <<t, p>>}
      BY <2>3
    <3> QED  BY ONLY <3>1, <3>2, <3>3, <3>4, <3>5, <3>6, OthersUntouched
  <2>9. ASSUME Kept(t, p) PROVE Kept(t, p)'
    <3>1. ~Creating(t, p)' /\ ~Opening(t, p)'
      BY <2>6 DEF Creating, Opening
    <3>2. ASSUME NEW k \in HandleKinds PROVE Has(<<t, p, k>>)'
      <4>1. CASE k \in {"handle", "ct"}
        BY <2>1, <2>7, <2>9, <4>1 DEF Kept, Same
      <4>2. CASE k \notin {"handle", "ct"}
        <5>1. k \in {"readbuf", "table", "xdrs"}
          BY <4>2 DEF HandleKinds
        <5> QED  BY <2>1, <2>7, <2>9, <4>2, <5>1 DEF Kept
      <4> QED  BY <4>1, <4>2
    <3>3. \A e \in Descriptors \ {0} : fds'[e] = <<t, p>> => e = d
      BY <2>1, <2>2, <2>3, <2>9 DEF Kept
    <3>4. d # 0
      BY <2>1, <2>2, <2>9 DEF Kept
    <3> QED  BY <2>4, <2>5, <2>6, <3>1, <3>2, <3>3, <3>4 DEF Kept
  <2> QED  BY <2>3, <2>8, <2>9, StepKept
<1> QED  BY <1>1, <1>2

\* The end of a call.
LEMMA SetSockOptKept ==
  ASSUME IInv, KInv, NEW t \in Threads, SetSockOpt(t)
  PROVE  KInv'
<1>1. UNCHANGED <<fds, heap, cl, faults>> /\ pc[t] = "setsockopt"
  BY DEF SetSockOpt
<1>2. /\ pc'[t] = "idle"
      /\ \A u \in Threads \ {t} :
           pc'[u] = pc[u] /\ prog'[u] = prog[u] /\ sockp'[u] = sockp[u]
  BY DEF SetSockOpt, IInv, Types, Goon, Goto
<1>3. ASSUME NEW u \in Threads, NEW q \in Progs PROVE Untouched(u, q)
  <2>1. CASE u = t
    BY <1>1, <1>2, <2>1 DEF Untouched, Creating, Opening, Same, Has
  <2>2. CASE u # t
    BY <1>1, <1>2, <2>2 DEF Untouched, Creating, Opening, Same, Has
  <2> QED  BY <2>1, <2>2
<1> QED  BY <1>1, <1>3, OtherKept

\* Every step keeps the invariant.
LEMMA NextKInv == IInv /\ KInv /\ [Next]_vars => KInv'
<1> SUFFICES ASSUME IInv, KInv, [Next]_vars PROVE KInv'
  OBVIOUS
<1>1. CASE UNCHANGED vars
  <2>1. UNCHANGED <<fds, heap, pc, prog, sockp, cl, faults>>
    BY <1>1 DEF vars, call
  <2>2. \A u \in Threads, q \in Progs : Untouched(u, q)
    BY ONLY <2>1 DEF Untouched, Creating, Opening, Same, Has
  <2> QED  BY <2>1, <2>2, OtherKept
<1>2. ASSUME NEW t \in Threads, ThreadStep(t) PROVE KInv'
  BY <1>2, PoolKept, SocketKept, ConnectKept, FillKept, SetSockOptKept DEF ThreadStep
<1>3. ASSUME NEW t \in Threads, ContextInitFails(t) \/ FillNoMem(t) \/ SetFlagFails(t)
      PROVE  KInv'
  BY <1>3, FaultKept DEF ContextInitFails, FillNoMem, SetFlagFails
<1>4. ASSUME NEW t \in Threads, DestroyPool(t) PROVE KInv'
  BY <1>4, PoolKept
<1>5. ASSUME NEW t \in Threads, NEW p \in Progs, GetPort(t, p) \/ CreateNoMem(t, p)
      PROVE  KInv'
  BY <1>5, GetPortKept, FaultKept DEF CreateNoMem
<1>6. ASSUME \/ OtherOpen \/ OtherClose
             \/ \E p \in Progs : ServerStop(p) \/ ServerStart(p)
      PROVE  KInv'
  BY <1>6, OutsideKept
<1> QED  BY <1>1, <1>2, <1>3, <1>4, <1>5, <1>6 DEF Next

\* Outside of a creation a thread has one block of each kind and one
\* descriptor for every handle and nothing for a program without one, however
\* often the server, the portmapper or a lack of descriptors made its calls
\* fail, with any number of threads and while descriptors come and go.
THEOREM NothingLostCorrect == Spec => []NothingLost
<1>1. IInv /\ KInv => NothingLost
  <2> SUFFICES ASSUME IInv, KInv, NEW t \in Threads, NEW p \in Progs, faults = 0,
                      pc[t] \in {"idle", "setsockopt"}
               PROVE  IF cl[t][p] = NULL
                      THEN /\ \A k \in HandleKinds : <<t, p, k>> \notin DOMAIN heap
                           /\ Opened(t, p) \subseteq {0}
                      ELSE /\ \A k \in HandleKinds :
                                <<t, p, k>> \in DOMAIN heap /\ heap[<<t, p, k>>] = 1
                           /\ Opened(t, p) \ {0} = {cl[t][p].sock}
    BY DEF NothingLost
  <2>1. Kept(t, p) /\ ~Creating(t, p) /\ ~Opening(t, p)
    BY DEF KInv, Creating, Opening
  <2>2. CASE cl[t][p] = NULL
    <3>1. \A k \in HandleKinds : <<t, p, k>> \notin DOMAIN heap
      BY <2>1, <2>2 DEF Kept
    <3>2. Opened(t, p) \subseteq {0}
      BY <2>1, <2>2 DEF Kept, Opened
    <3> QED  BY <2>2, <3>1, <3>2
  <2>3. CASE cl[t][p] # NULL
    <3>1. \A k \in HandleKinds : <<t, p, k>> \in DOMAIN heap /\ heap[<<t, p, k>>] = 1
      BY <2>1, <2>3 DEF Kept, Has
    <3>2. /\ cl[t][p].sock \in Descriptors /\ cl[t][p].sock # 0
          /\ fds[cl[t][p].sock] = <<t, p>>
      <4>1. Sound(t) /\ cl[t][p] \in Handle \cup {NULL}
        BY DEF IInv, Types
      <4>2. cl[t][p].sock \in Descriptors
        BY ONLY <2>3, <4>1 DEF Handle
      <4>3. fds[cl[t][p].sock] = <<t, p>>
        BY ONLY <2>3, <4>1, p \in Progs DEF Sound
      <4>4. cl[t][p].sock # 0
        BY ONLY <2>1, <2>3 DEF Kept
      <4> QED  BY ONLY <4>2, <4>3, <4>4
    <3>3. \A d \in Descriptors \ {0} : fds[d] = <<t, p>> => d = cl[t][p].sock
      BY <2>1 DEF Kept
    <3>4. Opened(t, p) \ {0} = {cl[t][p].sock}
      BY <3>2, <3>3 DEF Opened
    <3> QED  BY <2>3, <3>1, <3>4
  <2> QED  BY <2>2, <2>3
<1> QED  BY <1>1, InitIInv, NextIInv, InitKInv, NextKInv, PTL DEF Spec
=============================================================================
