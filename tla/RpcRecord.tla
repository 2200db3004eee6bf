----------------------------- MODULE RpcRecord ------------------------------
(***************************************************************************)
(* The reception path of an RPC connection (src/src/clnt_tcp_nb.c): rpc_cb *)
(* reads from the socket and update_frag_state cuts the stream into the    *)
(* fragments and records of RFC 1831.  A record is a sequence of fragments *)
(* and a fragment is a marker of four bytes (the high bit says "last", the *)
(* other bits give the size) followed by its bytes.                        *)
(*                                                                         *)
(* The peer writes whole records, the network delivers them in pieces of   *)
(* any size, and one read() takes at most ct_rbufsz bytes.  A connection   *)
(* is orderly if every record has one fragment, no read() ends inside of a *)
(* marker and memory suffices; that is what the code can reassemble.       *)
(***************************************************************************)
EXTENDS Integers, Sequences, FiniteSets

CONSTANTS
  Shapes,        \* the records the peer may send, each as the sequence of the
                 \* sizes of its fragments
  Payload(_, _), \* the bytes of the r-th record, for each r and each size
  MaxRecords,    \* bound: records the peer sends
  ct_rbufsz,     \* size of the read buffer
  MaxAllocFails, \* bound: how often mem_alloc or malloc returns NULL
  HeapBytes      \* what rs_fraghdr may hold before it is first written

Byte == 0 .. 255

\* A marker has 31 bits for the size of its fragment.
SizeLimit == 2147483647

\* The size of a record.
Total(shape) ==
  LET sum[n \in 0 .. Len(shape)] == IF n = 0 THEN 0 ELSE sum[n - 1] + shape[n]
  IN  sum[Len(shape)]

ASSUME RecordAssumption ==
  /\ \A shape \in Shapes :
       shape \in Seq(Nat) /\ \A i \in DOMAIN shape : shape[i] <= SizeLimit
  /\ MaxRecords \in Nat
  /\ \A r \in 1 .. MaxRecords : \A shape \in Shapes :
       Payload(r, Total(shape)) \in [1 .. Total(shape) -> Byte]
  /\ ct_rbufsz \in Nat \ {0}
  /\ MaxAllocFails \in Nat
  /\ HeapBytes \subseteq Byte

VARIABLES
  orderly, \* is the connection an orderly one?
  stream,  \* history: all bytes the peer has sent
  marks,   \* history: the offsets in the stream at which markers begin
  ends,    \* history: the offsets at which the records end
  sent,    \* history: the records the peer has sent
  rpos,    \* how many bytes of the stream read() has returned
  rbuf,    \* the part of ct_readbuf that is not consumed yet
  rs_recordsize, rs_frag_remaining, rs_frag_bufsz, rs_frag_offset,
  rs_fh_remaining, rs_fraghdr, rs_last_frag,
  rs_frag_list,      \* the complete fragments of the record, as their bytes
  rs_frag_buf_base,  \* the bytes in the buffer of the current fragment
  pc,
  fails,   \* allocations that have failed so far
  delivered  \* history: the messages call_user_cb has collated

peerVars == <<orderly, stream, marks, ends, sent>>
fragVars == <<rs_frag_bufsz, rs_frag_offset, rs_fraghdr, rs_last_frag,
              rs_frag_buf_base>>
rsVars == <<fragVars, rs_recordsize, rs_frag_remaining, rs_fh_remaining,
            rs_frag_list>>
vars == <<peerVars, rpos, rbuf, rsVars, pc, fails, delivered>>

\* LAST_FRAG and FRAG_SIZE of the marker after ntohl.
LAST_FRAG(hdr) == hdr[1] >= 128
FRAG_SIZE(hdr) ==
  (hdr[1] % 128) * 16777216 + hdr[2] * 65536 + hdr[3] * 256 + hdr[4]

-----------------------------------------------------------------------------
(* The peer.                                                               *)

Marker(len, last) ==
  <<(IF last THEN 128 ELSE 0) + len \div 16777216,
    (len \div 65536) % 256, (len \div 256) % 256, len % 256>>

\* Sequences of bytes, one behind the other.
Joined(parts) ==
  LET upto[n \in 0 .. Len(parts)] == IF n = 0 THEN <<>> ELSE upto[n - 1] \o parts[n]
  IN  upto[Len(parts)]

\* The fragments of a record: fragment i carries the bytes after the first
\* i-1 fragments.
Fragments(payload, shape) ==
  [i \in 1 .. Len(shape) |->
     LET from == Total(SubSeq(shape, 1, i - 1)) IN
     Marker(shape[i], i = Len(shape)) \o
     SubSeq(payload, from + 1, from + shape[i])]

PeerSend(shape) ==
  LET payload == Payload(Len(sent) + 1, Total(shape))
      frags   == Fragments(payload, shape)
      bytes   == Joined(frags)
  IN
  /\ Len(sent) < MaxRecords
  /\ orderly => Len(shape) = 1
  /\ bytes \in Seq(Byte)  \* so it is, whatever the shape
  /\ sent' = Append(sent, payload)
  /\ stream' = stream \o bytes
  /\ marks' = marks \cup {Len(stream) + Len(Joined(SubSeq(frags, 1, i - 1)))
                            : i \in 1 .. Len(frags)}
  /\ ends' = Append(ends, Len(stream'))
  /\ UNCHANGED <<orderly, rpos, rbuf, rsVars, pc, fails, delivered>>

-----------------------------------------------------------------------------
(* The client.                                                             *)

\* Faulty variant: the size of the record before is kept.
expect_new_rpc_record_keep ==
  /\ rs_fh_remaining' = 4
  /\ rs_frag_remaining' = -1
  /\ UNCHANGED rs_recordsize

expect_new_rpc_record ==
  /\ rs_fh_remaining' = 4
  /\ rs_frag_remaining' = -1
  /\ rs_recordsize' = 0

\* clnttcp_b_create.
Init ==
  /\ orderly \in BOOLEAN
  /\ stream = <<>> /\ marks = {} /\ ends = <<>> /\ sent = <<>>
  /\ rpos = 0
  /\ rbuf = <<>>
  /\ rs_recordsize = 0 /\ rs_frag_remaining = -1 /\ rs_fh_remaining = 4
  /\ rs_fraghdr \in [1 .. 4 -> HeapBytes]
  /\ rs_frag_bufsz = 0 /\ rs_frag_offset = 0 /\ rs_last_frag = FALSE
  /\ rs_frag_list = <<>> /\ rs_frag_buf_base = <<>>
  /\ pc = "read"
  /\ fails = 0
  /\ delivered = <<>>

InsideMarker(pos) == \E m \in marks : m < pos /\ pos < m + 4

\* rpc_cb: read() returns k bytes and update_frag_state starts on them.
rpc_cb(k) ==
  /\ pc = "read"
  /\ k <= ct_rbufsz
  /\ rpos + k <= Len(stream)
  /\ orderly => ~InsideMarker(rpos + k)
  /\ rbuf' = SubSeq(stream, rpos + 1, rpos + k)
  /\ rpos' = rpos + k
  /\ pc' = "copy"
  /\ UNCHANGED <<peerVars, rsVars, fails, delivered>>

\* Where update_frag_state goes once the fragment is looked after.
Continue(buf) == IF buf = <<>> THEN "read" ELSE "new_frag"

\* How much of the read buffer the fragment still takes.
ToCopy == IF rs_frag_remaining <= 0 THEN 0
          ELSE IF Len(rbuf) < rs_frag_remaining THEN Len(rbuf)
          ELSE rs_frag_remaining

Complete == rs_frag_offset = rs_frag_bufsz /\ rs_frag_remaining = 0

\* collate_buf_list copies the fragments to a buffer of rs_recordsize bytes.
\* What it does not fill is whatever the heap held.
Collated(list, size) ==
  LET flat == Joined(list)
      pad  == IF Len(flat) < size THEN size - Len(flat) ELSE 0
  IN {SubSeq(flat \o heap, 1, size) : heap \in [1 .. pad -> HeapBytes]}

\* Fragments longer than the buffer overrun it; the process may survive.
Overrun(list, size) == Len(Joined(list)) > size

\* An allocation: it succeeds, or it is one of those that fail.
AllocOk == UNCHANGED fails
AllocFails == ~orderly /\ fails < MaxAllocFails /\ fails' = fails + 1

\* Faulty variant: a complete fragment waits for more bytes.
CopyFragmentLate ==
  /\ pc = "copy"
  /\ rs_frag_buf_base' = rs_frag_buf_base \o SubSeq(rbuf, 1, ToCopy)
  /\ rs_frag_remaining' = rs_frag_remaining - ToCopy
  /\ rs_frag_offset' = rs_frag_offset + ToCopy
  /\ rbuf' = SubSeq(rbuf, ToCopy + 1, Len(rbuf))
  /\ UNCHANGED <<peerVars, rpos, rs_recordsize, rs_frag_bufsz, rs_fh_remaining,
                 rs_fraghdr, rs_last_frag, rs_frag_list, fails, delivered>>
  /\ pc' = IF rbuf' # <<>> /\ Complete' THEN "record" ELSE Continue(rbuf')

\* The first part of the loop body of update_frag_state: copy what the
\* fragment still needs.
CopyFragment ==
  /\ pc = "copy"
  /\ rs_frag_buf_base' = rs_frag_buf_base \o SubSeq(rbuf, 1, ToCopy)
  /\ rs_frag_remaining' = rs_frag_remaining - ToCopy
  /\ rs_frag_offset' = rs_frag_offset + ToCopy
  /\ rbuf' = SubSeq(rbuf, ToCopy + 1, Len(rbuf))
  /\ UNCHANGED <<peerVars, rpos, rs_recordsize, rs_frag_bufsz, rs_fh_remaining,
                 rs_fraghdr, rs_last_frag, rs_frag_list, fails, delivered>>
  /\ pc' = IF Complete' THEN "record" ELSE Continue(rbuf')

\* update_record_state: link the complete fragment (nobody looks whether
\* add_buffer_list could), then hand over the record if it was the last one
\* and expect a marker.
update_record_state ==
  /\ pc = "record"
  /\ \/ AllocOk /\ rs_frag_list' = Append(rs_frag_list, rs_frag_buf_base)
     \/ AllocFails /\ UNCHANGED rs_frag_list
  /\ \/ /\ rs_last_frag
        /\ rs_recordsize' = rs_recordsize + rs_frag_bufsz
        /\ pc' = "deliver"
        /\ UNCHANGED <<rs_frag_remaining, rs_fh_remaining>>
     \/ /\ ~rs_last_frag
        /\ expect_new_rpc_record
        /\ pc' = Continue(rbuf)
  /\ UNCHANGED <<peerVars, rpos, rbuf, fragVars, delivered>>

\* Faulty variant: collate_buf_list leaves the fragments in rs_frag_list.
call_user_cb_keep ==
  /\ pc = "deliver"
  /\ AllocOk
  /\ \E msg \in Collated(rs_frag_list, rs_recordsize) :
       delivered' = Append(delivered, msg)
  /\ expect_new_rpc_record
  /\ pc' = Continue(rbuf)
  /\ UNCHANGED <<peerVars, rpos, rbuf, fragVars, rs_frag_list>>

\* call_user_cb up to the decoding of the message.  Without memory for it the
\* fragments stay where they are.
call_user_cb ==
  /\ pc = "deliver"
  /\ \/ /\ AllocOk
        /\ \E msg \in Collated(rs_frag_list, rs_recordsize) :
             delivered' = Append(delivered, msg)
        /\ rs_frag_list' = <<>>
        /\ \/ pc' = Continue(rbuf)
           \/ Overrun(rs_frag_list, rs_recordsize) /\ pc' = "crashed"
     \/ /\ AllocFails
        /\ pc' = Continue(rbuf)
        /\ UNCHANGED <<rs_frag_list, delivered>>
  /\ expect_new_rpc_record
  /\ UNCHANGED <<peerVars, rpos, rbuf, fragVars>>

\* memcpy(&rs_fraghdr[0], buf, n), wherever the marker was left off.
StoreMarker(hdr, buf, n) == [i \in 1 .. 4 |-> IF i <= n THEN buf[i] ELSE hdr[i]]

\* Faulty variant: rs_frag_offset is not reset.
NewFragmentAtOffset(size) ==
  /\ rs_frag_remaining' = size
  /\ rs_frag_buf_base' = <<>>
  /\ UNCHANGED rs_frag_offset

\* The marker is complete and there is a buffer for the new fragment.
NewFragment(size) ==
  /\ rs_frag_remaining' = size
  /\ rs_frag_offset' = 0
  /\ rs_frag_buf_base' = <<>>

\* update_new_frag_state: collect the marker, then start the fragment.  When
\* the buffer cannot be allocated nothing counts as consumed.
update_new_frag_state ==
  LET rm_len == IF Len(rbuf) < rs_fh_remaining THEN Len(rbuf)
                ELSE rs_fh_remaining
  IN
  /\ pc = "new_frag"
  /\ rs_fraghdr' = StoreMarker(rs_fraghdr, rbuf, rm_len)
  /\ rs_fh_remaining' = rs_fh_remaining - rm_len
  /\ \/ /\ rs_fh_remaining' > 0
        /\ rbuf' = SubSeq(rbuf, rm_len + 1, Len(rbuf))
        /\ UNCHANGED <<rs_frag_bufsz, rs_last_frag, rs_frag_remaining,
                       rs_frag_offset, rs_frag_buf_base, fails>>
     \/ /\ rs_fh_remaining' = 0
        /\ rs_frag_bufsz' = FRAG_SIZE(rs_fraghdr')
        /\ rs_last_frag' = LAST_FRAG(rs_fraghdr')
        /\ \/ /\ AllocOk
              /\ NewFragment(rs_frag_bufsz')
              /\ rbuf' = SubSeq(rbuf, rm_len + 1, Len(rbuf))
           \/ /\ AllocFails
              /\ UNCHANGED <<rbuf, rs_frag_remaining, rs_frag_offset,
                             rs_frag_buf_base>>
  /\ pc' = IF rbuf' = <<>> THEN "read" ELSE "copy"
  /\ UNCHANGED <<peerVars, rpos, rs_recordsize, rs_frag_list, delivered>>

ClientStep ==
  \/ \E k \in 1 .. ct_rbufsz : rpc_cb(k)
  \/ CopyFragment
  \/ update_record_state
  \/ call_user_cb
  \/ update_new_frag_state

Next ==
  \/ \E shape \in Shapes : PeerSend(shape)
  \/ ClientStep

Spec == Init /\ [][Next]_vars

-----------------------------------------------------------------------------
(* Properties.                                                             *)

\* Whatever bytes arrive, wherever reads end and whichever allocation fails:
\* the bytes copied so far and the bytes still wanted fill the buffer of the
\* fragment exactly, so the memcpy of update_frag_state stays inside of it.
CopyInBounds ==
  rs_frag_remaining >= 0 =>
    /\ rs_frag_offset + rs_frag_remaining = rs_frag_bufsz
    /\ Len(rs_frag_buf_base) = rs_frag_offset

\* The buffer of the message has the size of its fragment, so collate_buf_list
\* stays inside of it, whatever the bytes; only a record of several fragments,
\* or one that meets what a failed allocation has left, may overrun it.
CollateFits ==
  pc = "deliver" /\ fails = 0 /\ Len(rs_frag_list) = 1 =>
    Len(rs_frag_list[1]) = rs_recordsize

\* A record is handed over by the very read() that returns its last byte, and
\* one without bytes by the read() after its marker.
PromptDelivery ==
  orderly /\ pc = "read" =>
    LET n == Cardinality({i \in 1 .. Len(ends) : ends[i] <= rpos}) IN
    Len(delivered) = IF n > 0 /\ ends[n] = rpos /\ sent[n] = <<>> THEN n - 1 ELSE n

F == INSTANCE Fifo WITH put <- IF orderly THEN sent ELSE <<>>,
                        got <- IF orderly THEN delivered ELSE <<>>

\* However the stream is cut into reads, the messages that reach the decoder
\* on an orderly connection are the records of the peer, whole and in order.
ImplementsFifo == F!Spec

\* "Stores the frag header till we receive all 4 bytes" (rs_fraghdr): when a
\* fragment starts, rs_fraghdr holds the last four bytes consumed.
MarkerReassembled ==
  rs_fh_remaining = 0 /\ rs_frag_offset = 0 /\ rs_frag_remaining > 0 =>
    LET consumed == rpos - Len(rbuf) IN
    rs_fraghdr = SubSeq(stream, consumed - 3, consumed)

=============================================================================
