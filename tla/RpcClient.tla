------------------------------ MODULE RpcClient -----------------------------
(***************************************************************************)
(* Calls and replies on one RPC connection (src/src/clnt_tcp_nb.c):        *)
(* clnttcp_nb_call registers a callback under a new xid and sends the      *)
(* call; clnttcp_nb_receive flushes what is left to send, reads replies    *)
(* and runs their callbacks.  ct_pendingcalls decides whether it reads.    *)
(*                                                                         *)
(* RpcTransmit and RpcRecord look after the bytes; here calls travel as    *)
(* records and replies as messages, of which a read() may return several,  *)
(* or only a part of one.  A call that could not be sent stays in the      *)
(* buffer of the xdrrec stream (glibc) and goes out in the record of the   *)
(* next one.  The server answers in any order and reads only the first     *)
(* call of a record.  The buffers between client and server are bounded:   *)
(* a server whose replies nobody reads stops reading requests.             *)
(***************************************************************************)
EXTENDS Integers, Sequences, FiniteSets

CONSTANTS
  Rooms,      \* sizes of the buffers: records with the number of requests (snd)
              \* and of replies (rcv) that the network and the server hold
  Calls,      \* the calls the application will make, numbered in their order
  Flags,      \* the flags it passes: records of block, tx and rx
  XidMod,     \* xids are counted modulo this
  FirstXids,  \* the xids create_xid may choose
  FaultKinds, \* what may fail: "memory", "write", "read", decoding a "reply"
  MaxFaults,  \* bound: in how many steps something fails
  Garbled     \* a reply that xdr_replymsg cannot decode

ASSUME ClientAssumption ==
  /\ IsFiniteSet(Calls) /\ Calls \subseteq Nat
  /\ Rooms \subseteq [snd : Nat \ {0}, rcv : Nat \ {0}]
  /\ Flags \subseteq [block : BOOLEAN, tx : BOOLEAN, rx : BOOLEAN]
  /\ XidMod \in Nat \ {0}
  /\ FirstXids \subseteq 0 .. XidMod - 1
  /\ FaultKinds \subseteq {"memory", "write", "read", "reply"}
  /\ MaxFaults \in Nat
  /\ Garbled \notin Calls

VARIABLES
  room,             \* the sizes of the buffers
  blocking,         \* is_blocking(ct_sockflags)
  xid,              \* the xid in ct_mcall
  ct_xid_to_ucb,    \* the registered callbacks: a set of [xid, call]
  ct_pendingcalls,
  outbuf,           \* calls in the buffer of ct_xdrs
  ct_sndlist,       \* records that are not sent yet
  requests,         \* records the server has not answered
  replies,          \* replies the client has not read, each [xid, call]
  half,             \* has a part of the first one been read?
  eof,              \* has the server closed the connection?
  pc,
  flag,             \* argument of clnttcp_nb_receive
  batch,            \* replies the last read() completed
  called_back,      \* what clnttcp_nb_receive counts and returns
  faults,           \* faults so far
  result,           \* history: what clnttcp_nb_call returned for each call
  answered          \* history: for each callback, the replies it was run with

ct == <<blocking, xid, ct_xid_to_ucb, ct_pendingcalls, outbuf, ct_sndlist>>
net == <<room, requests, replies, half, eof>>
receive == <<flag, batch, called_back>>
history == <<faults, result, answered>>
vars == <<ct, net, pc, receive, history>>

\* RPC_BLOCKING_WAIT.
BlockingWait == [block |-> TRUE, tx |-> TRUE, rx |-> TRUE]

\* clnttcp_b_create or clnttcp_nb_create; create_xid.
Init ==
  /\ room \in Rooms
  /\ blocking \in BOOLEAN
  /\ xid \in FirstXids
  /\ ct_xid_to_ucb = {}
  /\ ct_pendingcalls = 0
  /\ outbuf = <<>> /\ ct_sndlist = <<>>
  /\ requests = <<>> /\ replies = <<>> /\ half = FALSE /\ eof = FALSE
  /\ pc = "idle"
  /\ flag = BlockingWait
  /\ batch = <<>> /\ called_back = 0
  /\ faults = 0
  /\ result = [c \in Calls |-> "new"]
  /\ answered = [c \in Calls |-> <<>>]

Fault(kind) ==
  /\ kind \in FaultKinds
  /\ faults < MaxFaults
  /\ faults' = faults + 1

\* Entering clnttcp_nb_receive, going on in it, and returning to the caller.
Enter(f, p) == pc' = p /\ flag' = f /\ batch' = <<>> /\ called_back' = 0
Stay(p) == pc' = p /\ UNCHANGED receive
Leave == pc' = "idle" /\ flag' = BlockingWait /\ batch' = <<>> /\ called_back' = 0

-----------------------------------------------------------------------------
(* clnttcp_nb_call.                                                        *)

\* Faulty variant: the same xid is used again.
NextXidSame == xid

NextXid == (xid + XidMod - 1) % XidMod

\* Nobody looks at the result of ght_insert, which refuses a key it has and may
\* have no memory for the entry.
Register(c) ==
  /\ xid' = NextXid
  /\ ct_xid_to_ucb' =
       IF \E e \in ct_xid_to_ucb : e.xid = xid' THEN ct_xid_to_ucb
       ELSE ct_xid_to_ucb \cup {[xid |-> xid', call |-> c]}

NotRegistered ==
  /\ Fault("memory")
  /\ xid' = NextXid
  /\ UNCHANGED ct_xid_to_ucb

Encoded(c) == Append(outbuf, [xid |-> xid', call |-> c])

\* send_buffers sends the first k of the records.
Send(list, k) ==
  /\ requests' = requests \o SubSeq(list, 1, k)
  /\ ct_sndlist' = SubSeq(list, k + 1, Len(list))

\* How many fit into the buffers, and how many go out at a time: any number
\* of them, but all that fit where the client waits to send the rest.
Fitting(list) ==
  LET free == room.snd - Len(requests) IN
  IF Len(list) < free THEN Len(list) ELSE free

Sendable(list, block) ==
  IF block THEN {Fitting(list)} ELSE 0 .. Fitting(list)

\* write() fails: for some other reason, or because the server has closed.
WriteFails == Fault("write") \/ (eof /\ faults' = faults)

Returned(c, r) == result' = [result EXCEPT ![c] = r]

\* malloc has no memory for the callback.
CallNoMem(c) ==
  /\ pc = "idle" /\ result[c] = "new"
  /\ Fault("memory")
  /\ Returned(c, "RPC_SYSTEMERROR")
  /\ UNCHANGED <<ct, net, pc, receive, answered>>

\* The arguments cannot be encoded or add_buffer_list has no memory.  The
\* callback stays registered and the bytes stay in the stream.
CallNotEncoded(c) ==
  /\ pc = "idle" /\ result[c] = "new"
  /\ Fault("memory")
  /\ Register(c) \/ NotRegistered
  /\ outbuf' = Encoded(c)
  /\ Returned(c, "RPC_CANTENCODEARGS")
  /\ UNCHANGED <<blocking, ct_pendingcalls, ct_sndlist, net, pc, receive,
                 answered>>

\* write() fails: the record stays in the stream and in ct_sndlist.
CallNotSent(c) ==
  /\ pc = "idle" /\ result[c] = "new"
  /\ \/ WriteFails /\ Register(c)
     \/ (eof \/ "write" \in FaultKinds) /\ NotRegistered
  /\ outbuf' = Encoded(c)
  /\ LET list == Append(ct_sndlist, outbuf') IN
     \E k \in 0 .. Fitting(list) : k < Len(list) /\ Send(list, k)
  /\ Returned(c, "RPC_CANTENCODEARGS")
  /\ UNCHANGED <<blocking, ct_pendingcalls, room, replies, half, eof, pc, receive,
                 answered>>

\* The record is sent, or at least copied, and clnttcp_nb_receive is called.
Accepted(c) ==
  /\ outbuf' = <<>>
  /\ ct_pendingcalls' = ct_pendingcalls + 1
  /\ Returned(c, "RPC_SUCCESS")

\* A blocking socket takes all that is to be sent before the call is accepted.
Call(c, f) ==
  /\ pc = "idle" /\ result[c] = "new"
  /\ \/ Register(c) /\ UNCHANGED faults
     \/ NotRegistered
  /\ LET list == Append(ct_sndlist, Encoded(c)) IN
     \E k \in Sendable(list, blocking) : Send(list, k)
  /\ IF blocking /\ ct_sndlist' # <<>>
     THEN /\ Enter(f, "write")
          /\ outbuf' = Encoded(c)
          /\ UNCHANGED <<ct_pendingcalls, result>>
     ELSE Enter(f, "flush") /\ Accepted(c)
  /\ UNCHANGED <<blocking, room, replies, half, eof, answered>>

\* The rest of the write() on a blocking socket.
Write ==
  /\ pc = "write"
  /\ LET c == outbuf[Len(outbuf)].call IN
     \/ /\ Len(requests) < room.snd
        /\ Send(ct_sndlist, Fitting(ct_sndlist))
        /\ IF ct_sndlist' = <<>>
           THEN Stay("flush") /\ Accepted(c)
           ELSE Stay("write") /\ UNCHANGED <<outbuf, ct_pendingcalls, result>>
        /\ UNCHANGED faults
     \/ /\ WriteFails
        /\ Leave
        /\ Returned(c, "RPC_CANTENCODEARGS")
        /\ UNCHANGED <<outbuf, ct_pendingcalls, ct_sndlist, requests>>
  /\ UNCHANGED <<blocking, xid, ct_xid_to_ucb, room, replies, half, eof, answered>>

-----------------------------------------------------------------------------
(* clnttcp_nb_receive.                                                     *)

\* nfs_complete and mnt_complete.
Receive(f) ==
  /\ pc = "idle"
  /\ Enter(f, "flush")
  /\ UNCHANGED <<ct, net, history>>

\* Does the client wait, for room to send or for a callback to have run?
Persistent == blocking \/ flag.block

\* After the flush: read unless no call is pending or the flag says so.
AfterFlush == IF ct_pendingcalls = 0 \/ ~flag.rx THEN Leave ELSE Stay("read")

\* The flush, whose result is not looked at.  One that blocks goes on until
\* everything is sent.
Flush ==
  /\ pc = "flush"
  /\ \/ /\ flag.tx
        /\ \E k \in Sendable(ct_sndlist, Persistent) : Send(ct_sndlist, k)
        /\ IF Persistent /\ ct_sndlist' # <<>> THEN Stay("flush") ELSE AfterFlush
        /\ UNCHANGED faults
     \/ /\ flag.tx
        /\ \E k \in 0 .. Fitting(ct_sndlist) :
             k < Len(ct_sndlist) /\ Send(ct_sndlist, k)
        /\ WriteFails
        /\ AfterFlush
     \/ /\ ~flag.tx
        /\ AfterFlush
        /\ UNCHANGED <<requests, ct_sndlist, faults>>
  /\ UNCHANGED <<blocking, xid, ct_xid_to_ucb, ct_pendingcalls, outbuf, room,
                 replies, half, eof, result, answered>>

\* read() returns a part of a reply only.
ReadPart ==
  /\ pc = "read"
  /\ replies # <<>> /\ ~half
  /\ half' = TRUE
  /\ IF Persistent THEN Stay("read") ELSE Leave
  /\ UNCHANGED <<ct, room, requests, replies, eof, history>>

\* read() completes n replies, and returns a part of the next if `part'.
ReadReplies(n, part) ==
  /\ pc = "read"
  /\ n \in 1 .. Len(replies)
  /\ part => n < Len(replies)
  /\ batch' = SubSeq(replies, 1, n)
  /\ replies' = SubSeq(replies, n + 1, Len(replies))
  /\ half' = part
  /\ pc' = "dispatch"
  /\ UNCHANGED <<ct, room, requests, eof, flag, called_back, history>>

\* read() returns 0 at the end of the stream, behind every reply, or -1 where
\* it would block.
Exhausted ==
  \/ replies = <<>> /\ (eof \/ ~Persistent)
  \/ half /\ Len(replies) = 1 /\ ~Persistent

\* A read() that fails, for a signal or a reset, ends a wait that blocks too.
ReadNothing ==
  /\ pc = "read"
  /\ (Exhausted /\ UNCHANGED faults) \/ Fault("read")
  /\ Leave
  /\ UNCHANGED <<ct, net, result, answered>>

\* No callback is run for a reply that does not decode or has an unknown xid.
Unclaimed(msg) ==
  msg.call = Garbled \/ \A e \in ct_xid_to_ucb : e.xid # msg.xid

RunNone(msg) == Unclaimed(msg) /\ UNCHANGED <<ct_xid_to_ucb, answered>>

\* Faulty variant: the newest callback is run whatever the xid.
call_user_cb_newest(msg) ==
  \/ RunNone(msg)
  \/ /\ ~Unclaimed(msg)
     /\ \E e \in ct_xid_to_ucb :
          /\ \A d \in ct_xid_to_ucb : d.xid <= e.xid
          /\ ct_xid_to_ucb' = ct_xid_to_ucb \ {e}
          /\ answered' = [answered EXCEPT ![e.call] = Append(@, msg.call)]

\* Faulty variant: the callback stays registered.
call_user_cb_keep(msg) ==
  \/ RunNone(msg)
  \/ /\ ~Unclaimed(msg)
     /\ \E e \in ct_xid_to_ucb :
          /\ e.xid = msg.xid
          /\ answered' = [answered EXCEPT ![e.call] = Append(@, msg.call)]
     /\ UNCHANGED ct_xid_to_ucb

call_user_cb(msg) ==
  \/ RunNone(msg)
  \/ /\ ~Unclaimed(msg)
     /\ \E e \in ct_xid_to_ucb :
          /\ e.xid = msg.xid
          /\ ct_xid_to_ucb' = ct_xid_to_ucb \ {e}
          /\ answered' = [answered EXCEPT ![e.call] = Append(@, msg.call)]

\* Faulty variant: only the callbacks that were run are counted.
DispatchCountsRun ==
  /\ pc = "dispatch" /\ batch # <<>>
  /\ call_user_cb(Head(batch))
  /\ called_back' = IF answered' = answered THEN called_back ELSE called_back + 1
  /\ batch' = Tail(batch)
  /\ UNCHANGED <<blocking, xid, ct_pendingcalls, outbuf, ct_sndlist, net, pc,
                 flag, faults, result>>

\* update_record_state for one reply.  It counts as a callback whether or not
\* one is registered for it.
Dispatch ==
  /\ pc = "dispatch" /\ batch # <<>>
  /\ call_user_cb(Head(batch))
  /\ called_back' = called_back + 1
  /\ batch' = Tail(batch)
  /\ UNCHANGED <<blocking, xid, ct_pendingcalls, outbuf, ct_sndlist, net, pc,
                 flag, faults, result>>

\* Faulty variant: one callback per read is assumed.
ReturnOne ==
  /\ pc = "dispatch" /\ batch = <<>>
  /\ ct_pendingcalls' = ct_pendingcalls - 1
  /\ Leave
  /\ UNCHANGED <<blocking, xid, ct_xid_to_ucb, outbuf, ct_sndlist, net, history>>

\* rpc_cb returns and clnttcp_nb_receive counts.
Return ==
  /\ pc = "dispatch" /\ batch = <<>>
  /\ ct_pendingcalls' = ct_pendingcalls - called_back
  /\ Leave
  /\ UNCHANGED <<blocking, xid, ct_xid_to_ucb, outbuf, ct_sndlist, net, history>>

-----------------------------------------------------------------------------
(* The server: it answers any of the records it has, while there is room   *)
(* for the reply, or closes.                                               *)

Without(list, k) == SubSeq(list, 1, k - 1) \o SubSeq(list, k + 1, Len(list))

ServerReply(k) ==
  /\ k \in 1 .. Len(requests) /\ ~eof
  /\ Len(replies) < room.rcv
  /\ \/ /\ replies' = Append(replies, Head(requests[k]))
        /\ UNCHANGED faults
     \/ /\ replies' = Append(replies, [Head(requests[k]) EXCEPT !.call = Garbled])
        /\ Fault("reply")
  /\ requests' = Without(requests, k)
  /\ UNCHANGED <<ct, room, half, eof, pc, receive, result, answered>>

ServerClose ==
  /\ ~eof
  /\ eof' = TRUE
  /\ UNCHANGED <<ct, room, requests, replies, half, pc, receive, history>>

ReceiveStep ==
  \/ Write
  \/ Flush
  \/ ReadPart
  \/ \E n \in 1 .. Len(replies), part \in BOOLEAN : ReadReplies(n, part)
  \/ ReadNothing
  \/ Dispatch
  \/ Return

AnyReply == \E k \in 1 .. Len(requests) : ServerReply(k)

CallStep(c, flags) ==
  \/ CallNoMem(c)
  \/ CallNotEncoded(c)
  \/ CallNotSent(c)
  \/ \E f \in flags : Call(c, f)

Next ==
  \/ \E c \in Calls :
       (\A d \in Calls : d < c => result[d] # "new") /\ CallStep(c, Flags)
  \/ \E f \in Flags : Receive(f)
  \/ ReceiveStep
  \/ AnyReply
  \/ ServerClose

Spec == Init /\ [][Next]_vars

\* The client runs, the server answers what it has, and the application calls
\* nfs_complete with RPC_BLOCKING_WAIT again and again.  Nothing need fail.
FairSpec ==
  /\ Spec
  /\ WF_vars(ReceiveStep /\ faults' = faults)
  /\ WF_vars(AnyReply /\ faults' = faults)
  /\ SF_vars(Receive(BlockingWait))

-----------------------------------------------------------------------------
(* Properties.                                                             *)

\* No call has been cut short: nothing has failed, and no call was made after
\* the server had closed.
Clean == faults = 0 /\ \A c \in Calls : result[c] # "RPC_CANTENCODEARGS"

\* The calls that were accepted and have not been answered.
Outstanding == {c \in Calls : result[c] = "RPC_SUCCESS" /\ answered[c] = <<>>}

\* "Number of outstanding calls" (ct_pendingcalls), whenever the application has
\* the control and as long as no call was cut short: a call that fails half-way
\* leaves a callback, and bytes in front of the next call, and a reply that
\* does not decode is counted.
PendingExact ==
  pc = "idle" /\ Clean => ct_pendingcalls = Cardinality(Outstanding)

InFlight == Len(ct_sndlist) + Len(requests) + Len(replies) + Len(batch)

\* Every call that awaits its callback is on its way, once: as a record to
\* send, as a request, or as a reply.  When ct_pendingcalls drops to zero and
\* clnttcp_nb_receive stops reading, no reply is left unread on the socket.
\* This too holds as long as no call was cut short.
NoStrandedReply ==
  Clean =>
    /\ InFlight = Cardinality(ct_xid_to_ucb)
    /\ ct_pendingcalls = 0 => replies = <<>>

\* A callback is run once at most, and with the reply to its own call, in
\* whichever order the server answers.
CallbackOnce == \A c \in Calls : answered[c] \in {<<>>, <<c>>}

\* ct_pendingcalls never counts a reply that is not on its way: in each step, and
\* whatever has failed before.  Calls that were cut short, callbacks that were
\* never registered and replies that run none may take it below the number of
\* outstanding calls but never above, so that a wait with a count above zero
\* has a reply to wait for, as long as the server does not close.
PendingOnTheWay == ct_pendingcalls - called_back <= InFlight

\* More calls than the buffers on both ways hold: the server waits for its
\* replies to be read, and the client, in a flush, for room to send.
Flooded ==
  /\ pc \in {"write", "flush"}
  /\ Cardinality(ct_xid_to_ucb) > room.snd + room.rcv

\* The caller waits for replies and has asked with RPC_NO_TX_FLUSH that calls
\* which are still to be sent stay where they are.
Unflushed == pc = "read" /\ Persistent /\ ct_sndlist # <<>>

\* While the application keeps completing calls, every call that was accepted
\* gets its callback: a flush and the server never wait for each other, however
\* small the buffers, unless the application has more calls outstanding than
\* they hold or waits for a call it has not sent.  This holds until the
\* connection is closed or something fails.
EveryCallAnswered ==
  \A c \in Calls :
    result[c] = "RPC_SUCCESS" ~>
      answered[c] # <<>> \/ Flooded \/ Unflushed \/ eof \/ faults > 0

=============================================================================
