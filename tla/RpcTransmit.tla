---------------------------- MODULE RpcTransmit -----------------------------
(***************************************************************************)
(* The transmission path of an RPC connection (src/src/clnt_tcp_nb.c): the *)
(* record layer hands encoded bytes to writetcp_nb, which copies them to   *)
(* ct_sndlist and sends what the socket takes without blocking;            *)
(* clnttcp_nb_receive flushes the rest, blocking or not.                   *)
(*                                                                         *)
(* A byte is known by its position in the stream the record layer produced *)
(* (the first one is byte 1), so a frag_buffer is the position fb_current  *)
(* points at and the number fb_len of bytes left from there.  The socket   *)
(* buffer of the kernel holds SockSpace bytes that the peer has not read.  *)
(***************************************************************************)
EXTENDS Integers, Sequences

CONSTANTS
  Sizes,      \* lengths writetcp_nb is called with
  SockSpace,  \* size of the kernel's socket buffer
  MaxBytes    \* bound: bytes the record layer produces

ASSUME SizesAssumption ==
  /\ Sizes \subseteq Nat \ {0}
  /\ SockSpace \in Nat \ {0}
  /\ MaxBytes \in Nat

VARIABLES
  ct_sockflags,  \* "block" or "nonblock", as the socket was created
  ct_sndlist,    \* pending buffers, oldest first
  ct_datatx,     \* bytes transferred since the socket was created
  given,         \* bytes copied to ct_sndlist so far
  wire,          \* the bytes write() accepted, in order
  peer,          \* how many of them the peer has read
  pc,            \* where send_buffers is, or "idle" outside of it
  flag,          \* its argument flag
  ret            \* what it returned last

ct == <<ct_sockflags, ct_sndlist, ct_datatx>>
net == <<given, wire, peer>>
vars == <<ct, net, pc, flag, ret>>

is_nonblocking(f) == f = "nonblock"
is_blocking(f) == f = "block"

Bytes(from, n) == [i \in 1 .. n |-> from + i - 1]
Space == SockSpace - (Len(wire) - peer)

\* clnttcp_b_create, or clnttcp_nb_create with clnttcp_sock_setflag.
Init ==
  /\ ct_sockflags \in {"block", "nonblock"}
  /\ ct_sndlist = <<>>
  /\ ct_datatx = 0
  /\ given = 0 /\ wire = <<>> /\ peer = 0
  /\ pc = "idle"
  /\ flag = "nonblock"
  /\ ret = 0

\* The head of the loop over `list': select first where the socket does not
\* block but this invocation must.
Iterate(list, f) ==
  IF list = <<>>
  THEN pc' = "idle" /\ ret' = 0
  ELSE /\ pc' = IF is_nonblocking(ct_sockflags) /\ is_blocking(f)
                THEN "select" ELSE "write"
       /\ UNCHANGED ret

Return(r) ==
  /\ pc' = "idle"
  /\ ret' = r

\* After a short write or EAGAIN: wait for room, or leave the rest for later.
BlockOrReturn ==
  IF is_blocking(flag)
  THEN pc' = "select" /\ UNCHANGED ret
  ELSE Return(0)

\* Faulty variant: the new buffer is linked at the front of the list.
writetcp_nb_front(n) ==
  /\ pc = "idle"
  /\ given + n <= MaxBytes
  /\ ct_sndlist' = <<[fb_current |-> given + 1, fb_len |-> n]>> \o ct_sndlist
  /\ given' = given + n
  /\ flag' = "nonblock"
  /\ Iterate(ct_sndlist', "nonblock")
  /\ UNCHANGED <<ct_sockflags, ct_datatx, wire, peer>>

\* writetcp_nb copies the bytes (add_buffer_list) and calls send_buffers with
\* RPC_NONBLOCK_WAIT.
writetcp_nb(n) ==
  /\ pc = "idle"
  /\ given + n <= MaxBytes
  /\ ct_sndlist' = Append(ct_sndlist,
                          [fb_current |-> given + 1, fb_len |-> n])
  /\ given' = given + n
  /\ flag' = "nonblock"
  /\ Iterate(ct_sndlist', "nonblock")
  /\ UNCHANGED <<ct_sockflags, ct_datatx, wire, peer>>

\* add_buffer_list cannot allocate: nothing is copied.
writetcp_nb_nomem ==
  /\ pc = "idle"
  /\ Return(-1)
  /\ UNCHANGED <<ct, net, flag>>

\* The flush at the start of clnttcp_nb_receive.
Flush(f) ==
  /\ pc = "idle"
  /\ flag' = f
  /\ Iterate(ct_sndlist, f)
  /\ UNCHANGED <<ct, net>>

\* Faulty variant: select is called again until the whole buffer fits.
SelectAll ==
  /\ pc = "select"
  /\ pc' = IF Space >= ct_sndlist[1].fb_len THEN "write" ELSE "select"
  /\ UNCHANGED <<ct, net, flag, ret>>

\* select returns once there is room.
Select ==
  /\ pc = "select"
  /\ Space > 0
  /\ pc' = "write"
  /\ UNCHANGED <<ct, net, flag, ret>>

\* What write() can take of len bytes: whatever there is room for, or, on a
\* blocking socket, everything, while the peer reads.
Writable(len) ==
  IF is_blocking(ct_sockflags) THEN {len}
  ELSE {n \in 1 .. len : n <= Space}

\* Faulty variant: only complete buffers are counted.
TransmitUncounted(n) ==
  /\ wire' = wire \o Bytes(ct_sndlist[1].fb_current, n)
  /\ peer' = IF is_blocking(ct_sockflags) THEN Len(wire') ELSE peer
  /\ ct_datatx' = IF n = ct_sndlist[1].fb_len THEN ct_datatx + n ELSE ct_datatx

\* write() returned n.
Transmit(n) ==
  /\ wire' = wire \o Bytes(ct_sndlist[1].fb_current, n)
  /\ peer' = IF is_blocking(ct_sockflags) THEN Len(wire') ELSE peer
  /\ ct_datatx' = ct_datatx + n

\* The whole buffer was written: unlink it and go on.
WriteAll ==
  LET buf == ct_sndlist[1] IN
  /\ pc = "write"
  /\ buf.fb_len \in Writable(buf.fb_len)
  /\ Transmit(buf.fb_len)
  /\ ct_sndlist' = Tail(ct_sndlist)
  /\ Iterate(ct_sndlist', flag)
  /\ UNCHANGED <<ct_sockflags, given, flag>>

\* Faulty variant: a blocking flush returns after a short write.
WritePartReturns(n) ==
  LET buf == ct_sndlist[1] IN
  /\ pc = "write"
  /\ n \in Writable(buf.fb_len) /\ n < buf.fb_len
  /\ Transmit(n)
  /\ ct_sndlist' = [ct_sndlist EXCEPT ![1] =
                      [fb_current |-> buf.fb_current + n,
                       fb_len |-> buf.fb_len - n]]
  /\ Return(0)
  /\ UNCHANGED <<ct_sockflags, given, flag>>

\* Faulty variant: a buffer that was written to its end is kept, empty.
WritePartEmpty(n) ==
  LET buf == ct_sndlist[1] IN
  /\ pc = "write"
  /\ n \in Writable(buf.fb_len)
  /\ Transmit(n)
  /\ ct_sndlist' = [ct_sndlist EXCEPT ![1] =
                      [fb_current |-> buf.fb_current + n,
                       fb_len |-> buf.fb_len - n]]
  /\ BlockOrReturn
  /\ UNCHANGED <<ct_sockflags, given, flag>>

\* A part of the buffer was written.
WritePart(n) ==
  LET buf == ct_sndlist[1] IN
  /\ pc = "write"
  /\ n \in Writable(buf.fb_len) /\ n < buf.fb_len
  /\ Transmit(n)
  /\ ct_sndlist' = [ct_sndlist EXCEPT ![1] =
                      [fb_current |-> buf.fb_current + n,
                       fb_len |-> buf.fb_len - n]]
  /\ BlockOrReturn
  /\ UNCHANGED <<ct_sockflags, given, flag>>

\* EAGAIN.
WriteAgain ==
  /\ pc = "write"
  /\ is_nonblocking(ct_sockflags)
  /\ Space = 0
  /\ BlockOrReturn
  /\ UNCHANGED <<ct, net, flag>>

\* Any other error: the buffer stays in the list.
WriteError ==
  /\ pc = "write"
  /\ Return(-1)
  /\ UNCHANGED <<ct, net, flag>>

PeerReads ==
  /\ peer < Len(wire)
  /\ peer' = peer + 1
  /\ UNCHANGED <<ct, given, wire, pc, flag, ret>>

SendStep ==
  \/ Select
  \/ WriteAll
  \/ \E n \in 1 .. MaxBytes : WritePart(n)
  \/ WriteAgain
  \/ WriteError

Next ==
  \/ \E n \in Sizes : writetcp_nb(n)
  \/ writetcp_nb_nomem
  \/ \E f \in {"block", "nonblock"} : Flush(f)
  \/ SendStep
  \/ PeerReads

Spec == Init /\ [][Next]_vars

\* The client runs while it has something to do and the peer goes on reading.
Fairness == WF_vars(SendStep) /\ WF_vars(PeerReads)

FairSpec == Spec /\ Fairness

-----------------------------------------------------------------------------
(* Properties.                                                             *)

\* The fields of ct_data and the socket have their types, and the kernel holds
\* no more than its buffer takes.
TypeOK ==
  /\ ct_sockflags \in {"block", "nonblock"}
  /\ ct_sndlist \in Seq([fb_current : Nat \ {0}, fb_len : Nat \ {0}])
  /\ ct_datatx \in Nat
  /\ given \in Nat
  /\ wire \in Seq(Nat)
  /\ peer \in 0 .. Len(wire)
  /\ Space \in 0 .. SockSpace
  /\ pc \in {"idle", "select", "write"}
  /\ flag \in {"block", "nonblock"}
  /\ ret \in {0, -1}
  /\ pc # "idle" => ct_sndlist # <<>>

\* The pending buffers tile the bytes that were given and are not on the wire:
\* the first begins where ct_datatx ends, each begins where the one before it
\* ends, and the last ends at the last byte given (send_buffers, 880-900).
Tiling ==
  /\ ct_datatx = Len(wire)
  /\ ct_sndlist = <<>> => given = ct_datatx
  /\ \A i \in 1 .. Len(ct_sndlist) :
       /\ i = 1 => ct_sndlist[i].fb_current = ct_datatx + 1
       /\ ct_sndlist[i].fb_current + ct_sndlist[i].fb_len =
            IF i = Len(ct_sndlist) THEN given + 1
            ELSE ct_sndlist[i + 1].fb_current

\* A blocking flush that reports success has sent everything: send_buffers
\* goes back to select after EAGAIN and after every short write.
BlockingFlushDrains ==
  [][flag = "block" /\ pc # "idle" /\ pc' = "idle" /\ ret' = 0
       => ct_sndlist' = <<>>]_vars

F == INSTANCE Fifo WITH put <- Bytes(1, given), got <- wire

\* Partial writes, EAGAIN and failed writes notwithstanding, the peer gets the
\* bytes the record layer produced in their order, none lost and none twice.
ImplementsFifo == F!Spec

\* send_buffers returns as long as the peer reads: a blocking flush is never
\* stuck in select with a peer that makes room.
FlushReturns == pc # "idle" ~> pc = "idle"

=============================================================================
