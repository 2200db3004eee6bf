-------------------------- MODULE RpcRecordProofs ---------------------------
(***************************************************************************)
(* Proof that update_frag_state never copies outside of the buffer of a    *)
(* fragment: for any records, any bytes, any read sizes, with markers      *)
(* split or not and with allocations failing or not.  CopyInBounds is      *)
(* inductive together with the types of the fields it speaks about and     *)
(* AtMarker: update_new_frag_state runs between fragments only.            *)
(*                                                                         *)
(* And that a record of one fragment is collated into a buffer of its own  *)
(* size (CollateFits): a fragment is linked when it is complete            *)
(* (AtRecord), and rs_recordsize is zero until then (SizeZero).            *)
(*                                                                         *)
(* And that on an orderly connection the messages are the records of the   *)
(* peer (ImplementsFifo), each handed over at once (PromptDelivery).  OInv *)
(* ties the state of the client to a place in the stream: the stream is    *)
(* the records one after the other (Layout), the read buffer is the part   *)
(* of it behind the bytes consumed (Buffered), and these end at the start  *)
(* of the next record (Between) or in the middle of it (Within), where the *)
(* fragment's buffer holds just the bytes of the record so far.            *)
(***************************************************************************)
EXTENDS RpcRecord, FiniteSetTheorems, TLAPS

\* The default prover; a leaf that takes arithmetic cites the SMT solver.
USE ZenonT(60)

Types ==
  /\ stream \in Seq(Byte)
  /\ rpos \in Nat
  /\ rbuf \in Seq(Byte)
  /\ rs_frag_remaining \in Nat \cup {-1}
  /\ rs_frag_bufsz \in Nat
  /\ rs_frag_offset \in Nat
  /\ rs_fh_remaining \in 0 .. 4
  /\ rs_fraghdr \in [1 .. 4 -> Byte]
  /\ rs_frag_buf_base \in Seq(Byte)
  /\ rs_frag_list \in Seq(Seq(Byte))
  /\ fails \in Nat

AtMarker == pc = "new_frag" => rs_frag_remaining = -1

AtRecord == pc = "record" => rs_frag_remaining = 0

SizeZero == pc # "deliver" => rs_recordsize = 0

IInv == Types /\ CopyInBounds /\ AtMarker /\ AtRecord /\ SizeZero /\ CollateFits

\* The size in a marker is a number, whatever its bytes are.
LEMMA FragSizeType ==
  ASSUME NEW hdr \in [1 .. 4 -> Byte]
  PROVE  FRAG_SIZE(hdr) \in Nat
<1>1. /\ hdr[1] \in 0 .. 255 /\ hdr[2] \in 0 .. 255
      /\ hdr[3] \in 0 .. 255 /\ hdr[4] \in 0 .. 255
  <2> DEFINE D == 1 .. 4
  <2>1. 1 \in D /\ 2 \in D /\ 3 \in D /\ 4 \in D
    BY ONLY TRUE, SMTT(30)
  <2>2. hdr \in [D -> Byte]
    OBVIOUS
  <2> HIDE DEF D
  <2>3. hdr[1] \in Byte /\ hdr[2] \in Byte /\ hdr[3] \in Byte /\ hdr[4] \in Byte
    BY ONLY <2>1, <2>2
  <2> QED  BY ONLY <2>3 DEF Byte
<1> DEFINE a == hdr[1]
           b == hdr[2]
           c == hdr[3]
           d == hdr[4]
<1>2. a \in 0 .. 255 /\ b \in 0 .. 255 /\ c \in 0 .. 255 /\ d \in 0 .. 255
  BY <1>1
<1> HIDE DEF a, b, c, d
<1>3. a % 128 \in 0 .. 127
  BY ONLY <1>2, SMTT(30)
<1>4. (a % 128) * 16777216 \in Nat /\ b * 65536 \in Nat /\ c * 256 \in Nat
  BY ONLY <1>2, <1>3, SMTT(30)
<1>5. (a % 128) * 16777216 + b * 65536 + c * 256 + d \in Nat
  BY ONLY <1>2, <1>4, SMTT(30)
<1> QED  BY ONLY <1>5, SMTT(30) DEF FRAG_SIZE, a, b, c, d

\* The connection starts with no fragment under construction.
LEMMA InitIInv == Init => IInv
<1> SUFFICES ASSUME Init PROVE IInv  OBVIOUS
<1>1. rs_fraghdr \in [1 .. 4 -> Byte]
  <2>1. rs_fraghdr \in [1 .. 4 -> HeapBytes]
    BY DEF Init
  <2>2. HeapBytes \subseteq Byte
    BY RecordAssumption DEF RecordAssumption, Byte
  <2> QED  BY ONLY <2>1, <2>2
<1> QED
  BY <1>1, SMTT(30) DEF Init, IInv, Types, CopyInBounds, AtMarker, AtRecord, SizeZero,
              CollateFits

\* The peer sends bytes.
LEMMA PeerStep ==
  ASSUME IInv, NEW shape \in Shapes, PeerSend(shape) PROVE IInv'
<1>1. PICK bytes \in Seq(Byte) : stream' = stream \o bytes
  BY DEF PeerSend
<1>2. stream' \in Seq(Byte)
  BY <1>1, SMTT(30) DEF IInv, Types
<1>3. UNCHANGED <<rpos, rbuf, rsVars, pc, fails>>
  BY DEF PeerSend
<1> QED
  BY <1>2, <1>3 DEF IInv, Types, CopyInBounds, AtMarker, AtRecord, SizeZero,
                    CollateFits, rsVars, fragVars

\* read() fills the read buffer with bytes of the stream.
LEMMA ReadStep ==
  ASSUME IInv, NEW k \in 1 .. ct_rbufsz, rpc_cb(k) PROVE IInv'
<1>1. /\ k \in Nat /\ rpos \in Nat /\ stream \in Seq(Byte)
      /\ rpos + k <= Len(stream)
  BY SMTT(30) DEF IInv, Types, rpc_cb
<1>2. SubSeq(stream, rpos + 1, rpos + k) \in Seq(Byte)
  BY ONLY <1>1, SMTT(30)
<1>3. /\ UNCHANGED <<stream, rsVars, fails>>
      /\ rbuf' = SubSeq(stream, rpos + 1, rpos + k)
      /\ rpos' = rpos + k /\ pc = "read" /\ pc' = "copy"
  BY DEF rpc_cb, peerVars
<1> QED
  BY <1>1, <1>2, <1>3, SMTT(30)
  DEF IInv, Types, CopyInBounds, AtMarker, AtRecord, SizeZero, CollateFits,
      rsVars, fragVars

\* The copy takes from rs_frag_remaining what it adds to rs_frag_offset, and
\* when it leaves bytes unread the fragment wants no more.
LEMMA CopyStep == ASSUME IInv, CopyFragment PROVE IInv'
<1>1. /\ rbuf \in Seq(Byte) /\ Len(rbuf) \in Nat
      /\ rs_frag_remaining \in Nat \cup {-1} /\ rs_frag_offset \in Nat
      /\ rs_frag_bufsz \in Nat /\ rs_frag_buf_base \in Seq(Byte)
  BY SMTT(30) DEF IInv, Types
<1>2. /\ ToCopy \in Nat /\ ToCopy <= Len(rbuf)
      /\ ToCopy > 0 => ToCopy <= rs_frag_remaining
      /\ ToCopy # Len(rbuf) => rs_frag_remaining - ToCopy \in {0, -1}
  BY <1>1, SMTT(30) DEF ToCopy
<1>3. /\ rs_frag_buf_base' = rs_frag_buf_base \o SubSeq(rbuf, 1, ToCopy)
      /\ rs_frag_remaining' = rs_frag_remaining - ToCopy
      /\ rs_frag_offset' = rs_frag_offset + ToCopy
      /\ rs_frag_bufsz' = rs_frag_bufsz
      /\ rbuf' = SubSeq(rbuf, ToCopy + 1, Len(rbuf))
      /\ pc' = IF Complete' THEN "record" ELSE Continue(rbuf')
      /\ pc = "copy"
      /\ UNCHANGED <<stream, rpos, rs_fh_remaining, rs_fraghdr, rs_recordsize,
                     rs_frag_list, fails>>
  BY DEF CopyFragment, peerVars
<1>4. /\ SubSeq(rbuf, 1, ToCopy) \in Seq(Byte)
      /\ Len(SubSeq(rbuf, 1, ToCopy)) = ToCopy
      /\ SubSeq(rbuf, ToCopy + 1, Len(rbuf)) \in Seq(Byte)
      /\ ToCopy = Len(rbuf) => SubSeq(rbuf, ToCopy + 1, Len(rbuf)) = <<>>
  BY ONLY <1>1, <1>2, SMTT(30)
<1>5. /\ rs_frag_buf_base \o SubSeq(rbuf, 1, ToCopy) \in Seq(Byte)
      /\ Len(rs_frag_buf_base \o SubSeq(rbuf, 1, ToCopy))
           = Len(rs_frag_buf_base) + ToCopy
  <2>1. \A u, w \in Seq(Byte) :
          u \o w \in Seq(Byte) /\ Len(u \o w) = Len(u) + Len(w)
    BY SMTT(30)
  <2> QED  BY ONLY <1>1, <1>4, <2>1
<1>6. /\ rs_frag_remaining' \in Nat \cup {-1} /\ rs_frag_offset' \in Nat
      /\ rs_frag_remaining' >= 0 => rs_frag_remaining >= 0
  BY ONLY <1>1, <1>2, <1>3, SMTT(30)
<1>7. CopyInBounds'
  <2> SUFFICES ASSUME rs_frag_remaining' >= 0
               PROVE  /\ rs_frag_offset' + rs_frag_remaining' = rs_frag_bufsz'
                      /\ Len(rs_frag_buf_base') = rs_frag_offset'
    BY DEF CopyInBounds
  <2>1. /\ rs_frag_offset + rs_frag_remaining = rs_frag_bufsz
        /\ Len(rs_frag_buf_base) = rs_frag_offset
    BY <1>6 DEF IInv, CopyInBounds
  <2>2. Len(rs_frag_buf_base') = rs_frag_offset'
    BY ONLY <1>3, <1>5, <2>1
  <2>3. rs_frag_offset' + rs_frag_remaining' = rs_frag_bufsz'
    BY ONLY <1>1, <1>2, <1>3, <2>1, SMTT(30)
  <2> QED  BY <2>2, <2>3
<1>8. AtMarker'
  <2> SUFFICES ASSUME pc' = "new_frag" PROVE rs_frag_remaining' = -1
    BY DEF AtMarker
  <2>1. rbuf' # <<>> /\ ~Complete'
    BY <1>3 DEF Continue
  <2>2. rs_frag_remaining' \in {0, -1}
    BY ONLY <1>2, <1>3, <1>4, <2>1
  <2>3. rs_frag_remaining' = 0 => rs_frag_offset' = rs_frag_bufsz'
    BY ONLY <1>6, <1>7, SMTT(30) DEF CopyInBounds
  <2> QED  BY ONLY <2>1, <2>2, <2>3 DEF Complete
<1>9. rbuf' \in Seq(Byte) /\ rs_frag_buf_base' \in Seq(Byte)
  BY ONLY <1>3, <1>4, <1>5
<1>10. Types'
  BY <1>3, <1>6, <1>9 DEF IInv, Types
<1>11. pc' # "deliver" /\ AtRecord'
  BY ONLY <1>3 DEF Continue, Complete, AtRecord
<1>12. SizeZero' /\ CollateFits'
  BY <1>3, <1>11 DEF IInv, SizeZero, CollateFits
<1> QED  BY <1>7, <1>8, <1>10, <1>11, <1>12 DEF IInv

\* After a fragment a marker is expected.
LEMMA MarkerNext ==
  ASSUME IInv, UNCHANGED <<stream, rpos, rbuf, fragVars>>, expect_new_rpc_record,
         pc' \in {Continue(rbuf), "crashed"},
         rs_frag_list' \in Seq(Seq(Byte)), fails' \in Nat
  PROVE  IInv'
<1>1. /\ rs_fh_remaining' \in 0 .. 4 /\ rs_frag_remaining' = -1
      /\ rs_recordsize' = 0
  BY SMTT(30) DEF expect_new_rpc_record
<1>2. pc' \in {"read", "new_frag", "crashed"}
  BY DEF Continue
<1>3. Types'
  BY <1>1 DEF IInv, Types, fragVars
<1>4. CopyInBounds' /\ AtMarker'
  BY ONLY <1>1, SMTT(30) DEF CopyInBounds, AtMarker
<1>5. AtRecord' /\ SizeZero' /\ CollateFits'
  BY ONLY <1>1, <1>2 DEF AtRecord, SizeZero, CollateFits
<1> QED  BY ONLY <1>3, <1>4, <1>5 DEF IInv

\* A fragment handed over is no longer under construction.  If it is the last
\* one and the first of its record, the size of the record is its size.
LEMMA RecordStep == ASSUME IInv, update_record_state PROVE IInv'
<1>1. /\ UNCHANGED <<stream, rpos, rbuf, fragVars>>
      /\ pc = "record"
      /\ \/ UNCHANGED fails /\ rs_frag_list' = Append(rs_frag_list, rs_frag_buf_base)
         \/ fails' = fails + 1 /\ UNCHANGED rs_frag_list
  BY DEF update_record_state, peerVars, AllocOk, AllocFails
<1>2. /\ rs_frag_list \in Seq(Seq(Byte)) /\ rs_frag_buf_base \in Seq(Byte)
      /\ fails \in Nat /\ rs_frag_bufsz \in Nat
      /\ Len(rs_frag_buf_base) = rs_frag_bufsz
      /\ rs_recordsize = 0
  <2>1. rs_frag_remaining = 0 /\ rs_recordsize = 0
    BY <1>1 DEF IInv, AtRecord, SizeZero
  <2>2. rs_frag_offset + 0 = rs_frag_bufsz /\ Len(rs_frag_buf_base) = rs_frag_offset
    BY <2>1, SMTT(30) DEF IInv, CopyInBounds
  <2> QED  BY <2>1, <2>2, SMTT(30) DEF IInv, Types
<1>3. rs_frag_list' \in Seq(Seq(Byte)) /\ fails' \in Nat
  <2>1. Append(rs_frag_list, rs_frag_buf_base) \in Seq(Seq(Byte))
    BY ONLY <1>2, SMTT(30)
  <2>2. fails + 1 \in Nat
    BY ONLY <1>2, SMTT(30)
  <2>3. rs_frag_list' \in Seq(Seq(Byte))
    BY ONLY <1>1, <1>2, <2>1
  <2>4. fails' \in Nat
    BY ONLY <1>1, <1>2, <2>2
  <2> QED  BY ONLY <2>3, <2>4
<1>4. CASE rs_last_frag
  <2>1. /\ rs_recordsize' = rs_recordsize + rs_frag_bufsz /\ pc' = "deliver"
        /\ UNCHANGED <<rs_frag_remaining, rs_fh_remaining>>
    BY <1>4 DEF update_record_state
  <2>2. CollateFits'
    <3> SUFFICES ASSUME fails' = 0, Len(rs_frag_list') = 1
                 PROVE  Len(rs_frag_list'[1]) = rs_recordsize'
      BY DEF CollateFits
    <3>1. rs_frag_list' = Append(rs_frag_list, rs_frag_buf_base)
      BY ONLY <1>1, <1>2, fails' = 0, SMTT(30)
    <3>2. rs_frag_list'[1] = rs_frag_buf_base
      BY ONLY <1>2, <3>1, Len(rs_frag_list') = 1, SMTT(30)
    <3> QED  BY ONLY <1>2, <2>1, <3>2, SMTT(30)
  <2>3. Types'
    BY <1>1, <1>3, <2>1 DEF IInv, Types, fragVars
  <2>4. CopyInBounds'
    BY <1>1, <2>1 DEF IInv, CopyInBounds, fragVars
  <2> QED
    BY <2>1, <2>2, <2>3, <2>4 DEF IInv, AtMarker, AtRecord, SizeZero
<1>5. CASE ~rs_last_frag
  <2>1. expect_new_rpc_record /\ pc' = Continue(rbuf)
    BY <1>5 DEF update_record_state
  <2> QED  BY <1>1, <1>3, <2>1, MarkerNext
<1> QED  BY <1>4, <1>5

\* A record handed over leaves no fragment behind, unless memory runs out.
LEMMA DeliverStep == ASSUME IInv, call_user_cb PROVE IInv'
<1>1. /\ UNCHANGED <<stream, rpos, rbuf, fragVars>>
      /\ expect_new_rpc_record
      /\ pc' \in {Continue(rbuf), "crashed"}
      /\ rs_frag_list' \in {<<>>, rs_frag_list}
      /\ fails' \in {fails, fails + 1}
  BY DEF call_user_cb, peerVars, AllocOk, AllocFails
<1>2. rs_frag_list \in Seq(Seq(Byte)) /\ fails \in Nat
  BY DEF IInv, Types
<1>3. <<>> \in Seq(Seq(Byte))
  BY SMTT(30)
<1>4. rs_frag_list' \in Seq(Seq(Byte))
  BY ONLY <1>1, <1>2, <1>3, ZenonT(60)
<1>5. fails' \in Nat
  BY ONLY <1>1, <1>2, SMTT(30)
<1> QED  BY <1>1, <1>4, <1>5, MarkerNext

\* A new fragment starts with an empty buffer of the size in its marker.
LEMMA NewFragStep == ASSUME IInv, update_new_frag_state PROVE IInv'
<1> DEFINE rm_len == IF Len(rbuf) < rs_fh_remaining THEN Len(rbuf)
                     ELSE rs_fh_remaining
<1>1. /\ rbuf \in Seq(Byte) /\ Len(rbuf) \in Nat
      /\ rs_fh_remaining \in 0 .. 4 /\ rs_fraghdr \in [1 .. 4 -> Byte]
  BY SMTT(30) DEF IInv, Types
<1>2. /\ rm_len \in 0 .. 4 /\ rm_len <= Len(rbuf)
      /\ rs_fh_remaining - rm_len \in 0 .. 4
  <2>1. \A n \in Nat, m \in 0 .. 4 :
          LET k == IF n < m THEN n ELSE m
          IN k \in 0 .. 4 /\ k <= n /\ m - k \in 0 .. 4
    BY SMTT(30)
  <2> QED  BY ONLY <1>1, <2>1 DEF rm_len
<1>3. /\ rs_fraghdr' = StoreMarker(rs_fraghdr, rbuf, rm_len)
      /\ rs_fh_remaining' = rs_fh_remaining - rm_len
      /\ rbuf' = rbuf \/ rbuf' = SubSeq(rbuf, rm_len + 1, Len(rbuf))
      /\ pc = "new_frag" /\ pc' \in {"read", "copy"}
      /\ fails' \in {fails, fails + 1}
      /\ UNCHANGED <<stream, rpos, rs_recordsize, rs_frag_list>>
  BY DEF update_new_frag_state, peerVars, AllocOk, AllocFails
<1> HIDE DEF rm_len
<1>4. rs_fraghdr' \in [1 .. 4 -> Byte]
  <2>1. \A i \in 1 .. 4 : i <= rm_len => rbuf[i] \in Byte
    BY ONLY <1>1, <1>2, SMTT(30)
  <2> QED  BY ONLY <1>1, <1>3, <2>1 DEF StoreMarker
<1>5. rbuf' \in Seq(Byte)
  <2>1. SubSeq(rbuf, rm_len + 1, Len(rbuf)) \in Seq(Byte)
    BY ONLY <1>1, <1>2, SMTT(30)
  <2> QED  BY ONLY <1>1, <1>3, <2>1, ZenonT(60)
<1>6. rs_frag_remaining = -1
  BY DEF update_new_frag_state, IInv, AtMarker
<1>7. \/ /\ rs_frag_bufsz' = FRAG_SIZE(rs_fraghdr')
         /\ \/ NewFragment(rs_frag_bufsz')
            \/ UNCHANGED <<rs_frag_remaining, rs_frag_offset, rs_frag_buf_base>>
      \/ UNCHANGED <<rs_frag_bufsz, rs_frag_remaining, rs_frag_offset,
                     rs_frag_buf_base>>
  BY DEF update_new_frag_state
<1>8. /\ rs_frag_bufsz' \in Nat /\ rs_frag_offset' \in Nat
      /\ rs_frag_remaining' \in Nat \cup {-1}
      /\ rs_frag_buf_base' \in Seq(Byte)
      /\ CopyInBounds'
  <2>1. FRAG_SIZE(rs_fraghdr') \in Nat
    BY <1>4, FragSizeType
  <2>2. /\ rs_frag_bufsz \in Nat /\ rs_frag_offset \in Nat
        /\ rs_frag_buf_base \in Seq(Byte)
    BY DEF IInv, Types
  <2>3. CASE /\ rs_frag_bufsz' = FRAG_SIZE(rs_fraghdr')
             /\ NewFragment(rs_frag_bufsz')
    BY ONLY <2>1, <2>3, SMTT(30) DEF NewFragment, CopyInBounds
  <2>4. CASE /\ rs_frag_bufsz' = FRAG_SIZE(rs_fraghdr')
             /\ UNCHANGED <<rs_frag_remaining, rs_frag_offset, rs_frag_buf_base>>
    BY ONLY <1>6, <2>1, <2>2, <2>4, SMTT(30) DEF CopyInBounds
  <2>5. CASE UNCHANGED <<rs_frag_bufsz, rs_frag_remaining, rs_frag_offset,
                         rs_frag_buf_base>>
    BY ONLY <1>6, <2>2, <2>5, SMTT(30) DEF CopyInBounds
  <2> QED  BY <1>7, <2>3, <2>4, <2>5
<1>9. fails' \in Nat
  BY <1>3, SMTT(30) DEF IInv, Types
<1>10. SizeZero' /\ CollateFits' /\ AtMarker' /\ AtRecord'
  BY <1>3 DEF IInv, SizeZero, CollateFits, AtMarker, AtRecord
<1>11. Types'
  BY <1>1, <1>2, <1>3, <1>4, <1>5, <1>8, <1>9 DEF IInv, Types
<1> QED  BY <1>8, <1>10, <1>11 DEF IInv

\* Every step preserves the invariant.
LEMMA NextIInv == IInv /\ [Next]_vars => IInv'
<1> SUFFICES ASSUME IInv, [Next]_vars PROVE IInv'  OBVIOUS
<1>1. CASE UNCHANGED vars
  BY <1>1
  DEF vars, peerVars, rsVars, fragVars, IInv, Types, CopyInBounds, AtMarker,
      AtRecord, SizeZero, CollateFits
<1> QED
  BY <1>1, PeerStep, ReadStep, CopyStep, RecordStep, DeliverStep, NewFragStep
  DEF Next, ClientStep

\* No bytes on the wire make update_frag_state copy outside of the buffer of
\* the current fragment.
THEOREM BoundsCorrect == Spec => []CopyInBounds
<1>1. IInv => CopyInBounds
  BY DEF IInv
<1> QED  BY <1>1, InitIInv, NextIInv, PTL DEF Spec

\* No bytes on the wire make collate_buf_list copy a record of one fragment
\* outside of the buffer of the message, as long as memory suffices.
THEOREM CollateCorrect == Spec => []CollateFits
<1>1. IInv => CollateFits
  BY DEF IInv
<1> QED  BY <1>1, InitIInv, NextIInv, PTL DEF Spec

-----------------------------------------------------------------------------
(* Orderly connections.                                                    *)

\* The offset at which the i-th record starts.
Start(i) == IF i = 1 THEN 0 ELSE ends[i - 1]

\* The marker of a record of one fragment.
Mark(n) == Marker(n, TRUE)

\* The i-th record in the stream: its marker, and its bytes.
RecordAt(i) ==
  /\ ends[i] = Start(i) + 4 + Len(sent[i]) /\ Len(sent[i]) <= SizeLimit
  /\ Start(i) \in marks
  /\ \A k \in 1 .. 4 : stream[Start(i) + k] = Mark(Len(sent[i]))[k]
  /\ \A j \in 1 .. Len(sent[i]) : stream[Start(i) + 4 + j] = sent[i][j]

\* The stream is the records of the peer, one after the other, each a fragment.
Layout ==
  /\ sent \in Seq(Seq(Nat)) /\ ends \in Seq(Nat) /\ Len(ends) = Len(sent)
  /\ Len(stream) = Start(Len(sent) + 1)
  /\ \A i \in 1 .. Len(sent) : RecordAt(i)
  /\ \A i, j \in 1 .. Len(ends) : i <= j => ends[i] <= ends[j]

\* The bytes that update_frag_state has consumed.
Consumed == rpos - Len(rbuf)

\* The read buffer holds bytes of the stream, behind those consumed.
Buffered ==
  /\ rpos <= Len(stream) /\ Len(rbuf) <= rpos
  /\ ~InsideMarker(rpos)
  /\ \A i \in 1 .. Len(rbuf) : rbuf[i] = stream[Consumed + i]
  /\ pc = "read" => rbuf = <<>>
  /\ pc \in {"copy", "new_frag"} => rbuf # <<>>

\* What has been delivered are the first records.
Ordered ==
  /\ delivered \in Seq(Seq(Nat))
  /\ Len(delivered) <= Len(sent)
  /\ \A i \in 1 .. Len(delivered) : delivered[i] = sent[i]

\* Between two records, a marker is next; a record without bytes was not
\* completed by the last read().
Between ==
  /\ rs_fh_remaining = 4
  /\ Consumed = Start(Len(delivered) + 1)
  /\ pc \in {"read", "copy", "new_frag"}
  /\ pc = "read" /\ Len(delivered) > 0 => sent[Len(delivered)] # <<>>

\* In a record, the buffer holds its bytes as far as they are consumed.
Within ==
  LET n == Len(delivered) + 1 IN
  /\ n <= Len(sent)
  /\ rs_last_frag
  /\ rs_frag_bufsz = Len(sent[n])
  /\ Consumed = Start(n) + 4 + rs_frag_offset
  /\ \A i \in 1 .. rs_frag_offset : rs_frag_buf_base[i] = sent[n][i]
  /\ pc \in {"read", "copy", "record", "deliver"}
  /\ pc = "read" /\ rs_frag_remaining = 0 => rs_frag_bufsz = 0
  /\ pc \in {"record", "deliver"} =>
       rs_frag_remaining = 0 /\ (rs_frag_bufsz = 0 => rbuf # <<>>)

\* The fragment is linked until it is collated.
Linked ==
  /\ rs_frag_list = IF pc = "deliver" THEN <<rs_frag_buf_base>> ELSE <<>>
  /\ pc = "deliver" => rs_recordsize = rs_frag_bufsz

\* The inductive invariant for what is delivered on an orderly connection.
OInv ==
  /\ Layout /\ Buffered /\ Ordered /\ Linked
  /\ IF rs_frag_remaining = -1 THEN Between ELSE Within

\* Nothing joined is nothing, one sequence joined is that sequence.  (The function
\* in Joined exists: here are its values.)
LEMMA JoinedNone == Joined(<<>>) = <<>>
<1> DEFINE G(f) == [n \in 0 .. 0 |-> IF n = 0 THEN <<>> ELSE f[n - 1] \o <<>>[n]]
           h == CHOOSE f : f = G(f)
<1>1. Joined(<<>>) = h[0]
  <2>1. Len(<<>>) = 0
    BY SMTT(30)
  <2> QED  BY ONLY <2>1 DEF Joined
<1>2. \E f : f = G(f)
  <2> DEFINE g == [n \in 0 .. 0 |-> <<>>]
  <2>1. g = G(g)
    BY SMTT(30)
  <2> HIDE DEF G, g
  <2> QED  BY <2>1
<1>3. h = G(h)
  <2> HIDE DEF G
  <2> QED  BY <1>2
<1> HIDE DEF h
<1>4. h[0] = <<>>
  BY <1>3, SMTT(30)
<1> QED  BY <1>1, <1>4

LEMMA JoinedOne ==
  ASSUME NEW S, NEW x \in Seq(S)
  PROVE  Joined(<<x>>) = x
<1> DEFINE G(f) == [n \in 0 .. 1 |-> IF n = 0 THEN <<>> ELSE f[n - 1] \o <<x>>[n]]
           h == CHOOSE f : f = G(f)
<1>1. Joined(<<x>>) = h[1]
  <2>1. Len(<<x>>) = 1
    BY SMTT(30)
  <2> QED  BY ONLY <2>1 DEF Joined
<1>2. <<>> \o x = x
  BY SMTT(30)
<1>3. \E f : f = G(f)
  <2> DEFINE g == [n \in 0 .. 1 |-> IF n = 0 THEN <<>> ELSE x]
  <2>1. g = G(g)
    BY <1>2, SMTT(30)
  <2> HIDE DEF G, g
  <2> QED  BY <2>1
<1>4. h = G(h)
  <2> HIDE DEF G
  <2> QED  BY <1>3
<1> HIDE DEF h
<1>5. h[0] = <<>> /\ h[1] = h[0] \o x
  BY <1>4, SMTT(30)
<1> QED  BY <1>1, <1>2, <1>5

\* The size of a record of no fragment, and of one.
LEMMA TotalNone == Total(<<>>) = 0
<1> DEFINE G(f) == [n \in 0 .. 0 |-> IF n = 0 THEN 0 ELSE f[n - 1] + <<>>[n]]
           h == CHOOSE f : f = G(f)
<1>1. Total(<<>>) = h[0]
  <2>1. Len(<<>>) = 0
    BY SMTT(30)
  <2> QED  BY ONLY <2>1 DEF Total
<1>2. \E f : f = G(f)
  <2> DEFINE g == [n \in 0 .. 0 |-> 0]
  <2>1. g = G(g)
    BY SMTT(30)
  <2> HIDE DEF G, g
  <2> QED  BY <2>1
<1>3. h = G(h)
  <2> HIDE DEF G
  <2> QED  BY <1>2
<1> HIDE DEF h
<1>4. h[0] = 0
  BY <1>3, SMTT(30)
<1> QED  BY <1>1, <1>4

LEMMA TotalOne ==
  ASSUME NEW k \in Nat
  PROVE  Total(<<k>>) = k
<1> DEFINE G(f) == [n \in 0 .. 1 |-> IF n = 0 THEN 0 ELSE f[n - 1] + <<k>>[n]]
           h == CHOOSE f : f = G(f)
<1>1. Total(<<k>>) = h[1]
  <2>1. Len(<<k>>) = 1
    BY SMTT(30)
  <2> QED  BY ONLY <2>1 DEF Total
<1>2. \E f : f = G(f)
  <2> DEFINE g == [n \in 0 .. 1 |-> IF n = 0 THEN 0 ELSE k]
  <2>1. g = G(g)
    BY SMTT(30)
  <2> HIDE DEF G, g
  <2> QED  BY <2>1
<1>3. h = G(h)
  <2> HIDE DEF G
  <2> QED  BY <1>2
<1> HIDE DEF h
<1>4. h[0] = 0 /\ h[1] = h[0] + k
  BY <1>3, SMTT(30)
<1> QED  BY <1>1, <1>4, SMTT(30)

\* The bytes of a record are a sequence.
LEMMA BytesSeq ==
  ASSUME NEW n \in Nat, NEW f \in [1 .. n -> Byte]
  PROVE  f \in Seq(Nat) /\ Len(f) = n
<1>1. \A b \in Byte : b \in Nat
  BY SMTT(30) DEF Byte
<1>2. f \in [1 .. n -> Nat]
  BY <1>1
<1> QED  BY <1>2, SMTT(30)

\* A marker is four bytes, and gives the size of its fragment.
LEMMA MarkType ==
  ASSUME NEW n \in Nat, n <= SizeLimit
  PROVE  Mark(n) \in Seq(Nat) /\ Len(Mark(n)) = 4
<1>1. /\ 128 + n \div 16777216 \in Nat /\ (n \div 65536) % 256 \in Nat
      /\ (n \div 256) % 256 \in Nat /\ n % 256 \in Nat
  BY SMTT(30)
<1>2. Mark(n) = <<128 + n \div 16777216, (n \div 65536) % 256, (n \div 256) % 256, n % 256>>
  BY SMTT(30) DEF Mark, Marker
<1> QED  BY <1>1, <1>2, SMTT(30)

\* What the peer adds to the stream: a marker and the bytes of a record.
LEMMA PeerAdds ==
  ASSUME orderly, Len(sent) \in Nat, NEW shape \in Shapes, PeerSend(shape)
  PROVE  \E payload \in Seq(Nat) :
           /\ Len(payload) <= SizeLimit
           /\ sent' = Append(sent, payload)
           /\ stream' = stream \o (Mark(Len(payload)) \o payload)
           /\ marks' = marks \cup {Len(stream) + 0}
           /\ ends' = Append(ends, Len(stream'))
<1>1. /\ shape \in Seq(Nat) /\ Len(shape) = 1
      /\ \A i \in DOMAIN shape : shape[i] <= SizeLimit
  BY RecordAssumption DEF RecordAssumption, PeerSend
<1>2. PICK len \in Nat : shape = <<len>> /\ len <= SizeLimit
  <2>1. shape[1] \in Nat /\ shape = <<shape[1]>> /\ 1 \in DOMAIN shape
    BY <1>1, SMTT(30)
  <2> QED  BY <1>1, <2>1
<1>3. Total(shape) = len
  BY <1>2, TotalOne
<1> DEFINE payload == Payload(Len(sent) + 1, len)
           frag == Mark(len) \o payload
<1>4. payload \in Seq(Nat) /\ Len(payload) = len
  <2>1. Len(sent) + 1 \in 1 .. MaxRecords
    BY RecordAssumption, SMTT(30) DEF RecordAssumption, PeerSend
  <2>2. payload \in [1 .. len -> Byte]
    BY <1>3, <2>1, RecordAssumption DEF RecordAssumption
  <2> HIDE DEF payload
  <2> QED  BY ONLY <2>2, BytesSeq, len \in Nat
<1>5. Fragments(payload, shape) = <<frag>>
  <2>1. Len(shape) = 1 /\ shape[1] = len /\ SubSeq(shape, 1, 1 - 1) = <<>>
    BY <1>2, SMTT(30)
  <2>2. Total(SubSeq(shape, 1, 1 - 1)) = 0
    BY <2>1, TotalNone
  <2>3. SubSeq(payload, 0 + 1, 0 + len) = payload
    <3> HIDE DEF payload
    <3> QED  BY <1>4, SMTT(30)
  <2>4. Marker(shape[1], 1 = Len(shape)) = Mark(len)
    BY <2>1 DEF Mark
  <2> DEFINE F1 == Fragments(payload, shape)
  <2>5. F1 = [i \in 1 .. 1 |-> F1[i]] /\ F1[1] = frag
    <3> DEFINE B(i) == LET from == Total(SubSeq(shape, 1, i - 1))
                       IN  Marker(shape[i], i = Len(shape))
                             \o SubSeq(payload, from + 1, from + shape[i])
    <3>1. F1 = [i \in 1 .. Len(shape) |-> B(i)]
      BY DEF Fragments
    <3>2. B(1) = frag
      BY ONLY <2>1, <2>2, <2>3, <2>4, ZenonT(60) DEF frag
    <3> HIDE DEF B, F1, frag
    <3> QED  BY <2>1, <3>1, <3>2, SMTT(30)
  <2> HIDE DEF F1, frag
  <2>6. F1 = <<frag>>
    BY <2>5, SMTT(30)
  <2> QED  BY <2>6 DEF F1
<1>6. Joined(Fragments(payload, shape)) = frag
  <2>1. Mark(len) \in Seq(Nat)
    BY ONLY <1>2, MarkType
  <2>2. frag \in Seq(Nat)
    <3> HIDE DEF payload
    <3> QED  BY ONLY <1>4, <2>1, SMTT(30)
  <2> HIDE DEF frag
  <2> QED  BY ONLY <1>5, <2>2, JoinedOne
<1>7. {Len(stream) + Len(Joined(SubSeq(Fragments(payload, shape), 1, i - 1)))
         : i \in 1 .. Len(Fragments(payload, shape))} = {Len(stream) + 0}
  <2> HIDE DEF frag
  <2>1. Len(<<frag>>) = 1 /\ SubSeq(<<frag>>, 1, 1 - 1) = <<>>
    BY SMTT(30)
  <2>2. Len(Joined(SubSeq(<<frag>>, 1, 1 - 1))) = 0
    <3>1. Len(<<>>) = 0
      OBVIOUS
    <3> QED  BY ONLY <2>1, <3>1, JoinedNone, ZenonT(60)
  <2>3. {Len(stream) + Len(Joined(SubSeq(<<frag>>, 1, i - 1))) : i \in 1 .. Len(<<frag>>)}
          = {Len(stream) + 0}
    BY ONLY <2>1, <2>2, SMTT(30)
  <2> QED  BY <1>5, <2>3
<1> HIDE DEF payload
<1>8. /\ sent' = Append(sent, payload)
      /\ stream' = stream \o frag
      /\ marks' = marks \cup {Len(stream) + 0}
      /\ ends' = Append(ends, Len(stream'))
  BY <1>3, <1>6, <1>7 DEF PeerSend, payload
<1> QED  BY <1>2, <1>4, <1>8

\* A record of one fragment on the wire.
LEMMA OneFragment ==
  ASSUME NEW p \in Seq(Nat), Len(p) <= SizeLimit
  PROVE  \E b \in Seq(Nat) :
           /\ b = Mark(Len(p)) \o p
           /\ Len(b) = 4 + Len(p)
           /\ \A k \in 1 .. 4 : b[k] = Mark(Len(p))[k]
           /\ \A j \in 1 .. Len(p) : b[4 + j] = p[j]
<1>1. PICK m \in Seq(Nat) : m = Mark(Len(p)) /\ Len(m) = 4
  BY MarkType, SMTT(30)
<1>2. PICK b \in Seq(Nat) :
        /\ b = m \o p /\ Len(b) = Len(m) + Len(p)
        /\ \A i \in 1 .. Len(m) : b[i] = m[i]
        /\ \A i \in 1 .. Len(p) : b[Len(m) + i] = p[i]
  <2>1. /\ m \o p \in Seq(Nat) /\ Len(m \o p) = Len(m) + Len(p)
        /\ \A i \in 1 .. Len(m) : (m \o p)[i] = m[i]
        /\ \A i \in 1 .. Len(p) : (m \o p)[Len(m) + i] = p[i]
    BY SMTT(30)
  <2> QED  BY ONLY <2>1, ZenonT(60)
<1>3. Len(b) = 4 + Len(p)
  BY ONLY <1>1, <1>2
<1>4. \A k \in 1 .. 4 : b[k] = Mark(Len(p))[k]
  BY ONLY <1>1, <1>2
<1>5. \A j \in 1 .. Len(p) : b[4 + j] = p[j]
  BY ONLY <1>1, <1>2, ZenonT(60)
<1>6. b = Mark(Len(p)) \o p
  BY ONLY <1>1, <1>2
<1> QED  BY ONLY <1>3, <1>4, <1>5, <1>6, ZenonT(60)

\* The facts in Layout, one by one.
LEMMA LayoutFacts ==
  ASSUME IInv, Layout
  PROVE  /\ sent \in Seq(Seq(Nat)) /\ ends \in Seq(Nat) /\ Len(ends) = Len(sent)
         /\ Len(sent) \in Nat /\ stream \in Seq(Nat) /\ Len(stream) \in Nat
         /\ \A i \in 1 .. Len(sent) : ends[i] \in Nat /\ Len(sent[i]) \in Nat
         /\ \A i \in 1 .. Len(sent) + 1 : Start(i) \in Nat /\ Start(i) <= Len(stream)
         /\ \A i \in 1 .. Len(sent) :
              /\ RecordAt(i) /\ Start(i + 1) = ends[i] /\ ends[i] <= Len(stream)
              /\ ends[i] = Start(i) + 4 + Len(sent[i])
<1>1. /\ sent \in Seq(Seq(Nat)) /\ ends \in Seq(Nat) /\ Len(ends) = Len(sent)
      /\ Len(stream) = Start(Len(sent) + 1)
      /\ \A i \in 1 .. Len(sent) : RecordAt(i)
      /\ \A i, j \in 1 .. Len(ends) : i <= j => ends[i] <= ends[j]
  BY DEF Layout
<1>2. stream \in Seq(Nat) /\ Len(stream) \in Nat
  <2>1. stream \in Seq(Byte) /\ \A b \in Byte : b \in Nat
    BY SMTT(30) DEF IInv, Types, Byte
  <2> QED  BY ONLY <2>1, SMTT(30)
<1>3. /\ Len(sent) \in Nat
      /\ \A i \in 1 .. Len(sent) : ends[i] \in Nat /\ Len(sent[i]) \in Nat
  BY ONLY <1>1, SMTT(30)
<1>4. \A i \in 1 .. Len(sent) : Start(i + 1) = ends[i]
  BY ONLY <1>3, SMTT(30) DEF Start
<1>5. \A i \in 1 .. Len(sent) : ends[i] <= Len(stream)
  <2>1. Len(sent) > 0 => Len(stream) = ends[Len(sent)]
    BY ONLY <1>1, <1>3, SMTT(30) DEF Start
  <2>2. ASSUME NEW i \in 1 .. Len(sent) PROVE ends[i] <= Len(stream)
    <3>1. Len(sent) > 0 /\ i <= Len(sent) /\ Len(sent) \in 1 .. Len(ends) /\ i \in 1 .. Len(ends)
      BY ONLY <1>1, <1>3, <2>2, SMTT(30)
    <3>2. ends[i] <= ends[Len(sent)]
      BY ONLY <1>1, <3>1, ZenonT(60)
    <3> QED  BY ONLY <2>1, <3>1, <3>2
  <2> QED  BY ONLY <2>2
<1>6. \A i \in 1 .. Len(sent) + 1 : Start(i) \in Nat /\ Start(i) <= Len(stream)
  BY ONLY <1>2, <1>3, <1>5, SMTT(30) DEF Start
<1>7. \A i \in 1 .. Len(sent) : ends[i] = Start(i) + 4 + Len(sent[i])
  BY ONLY <1>1 DEF RecordAt
<1> QED  BY ONLY <1>1, <1>2, <1>3, <1>4, <1>5, <1>6, <1>7

\* Offsets in a record that ends before l.
LEMMA Offsets ==
  ASSUME NEW a \in Nat, NEW k \in Nat, NEW l \in Nat, a + 4 + k <= l
  PROVE  /\ \A i \in 1 .. 4 : a + i \in 1 .. l
         /\ \A j \in 1 .. k : a + 4 + j \in 1 .. l
BY SMTT(30)

\* The indices but the last one.
LEMMA NotLast ==
  ASSUME NEW n \in Nat, NEW i \in 1 .. n + 1
  PROVE  (i # n + 1 => i \in 1 .. n) /\ (i # 1 => i - 1 \in 1 .. n)
BY SMTT(30)

\* Where a record starts and ends, as the stream grows.
LEMMA PeerLayout ==
  ASSUME IInv, orderly, Layout, NEW shape \in Shapes, PeerSend(shape)
  PROVE  /\ Layout'
         /\ Len(sent') = Len(sent) + 1 /\ \A i \in 1 .. Len(sent) : sent'[i] = sent[i]
         /\ \A i \in 1 .. Len(sent) + 1 : Start(i)' = Start(i)
         /\ Len(stream) <= Len(stream')
         /\ \A i \in 1 .. Len(stream) : stream'[i] = stream[i]
         /\ marks' = marks \cup {Len(stream)}
<1>1. /\ sent \in Seq(Seq(Nat)) /\ ends \in Seq(Nat) /\ Len(ends) = Len(sent)
      /\ Len(sent) \in Nat /\ stream \in Seq(Nat) /\ Len(stream) \in Nat
  BY LayoutFacts
<1>2. PICK payload \in Seq(Nat) :
        /\ Len(payload) <= SizeLimit
        /\ sent' = Append(sent, payload)
        /\ stream' = stream \o (Mark(Len(payload)) \o payload)
        /\ marks' = marks \cup {Len(stream) + 0}
        /\ ends' = Append(ends, Len(stream'))
  BY <1>1, PeerAdds
<1>3. PICK n \in Nat : n = Len(sent)
  BY <1>1
<1>4. PICK l \in Nat : l = Len(stream)
  BY <1>1
<1>5. PICK b \in Seq(Nat) :
        /\ b = Mark(Len(payload)) \o payload
        /\ Len(b) = 4 + Len(payload)
        /\ \A k \in 1 .. 4 : b[k] = Mark(Len(payload))[k]
        /\ \A j \in 1 .. Len(payload) : b[4 + j] = payload[j]
  BY ONLY <1>2, OneFragment, ZenonT(60)
<1>6. /\ stream' \in Seq(Nat) /\ Len(stream') = l + 4 + Len(payload)
      /\ \A i \in 1 .. l : stream'[i] = stream[i]
      /\ \A k \in 1 .. 4 : stream'[l + k] = Mark(Len(payload))[k]
      /\ \A j \in 1 .. Len(payload) : stream'[l + 4 + j] = payload[j]
  <2>1. stream' = stream \o b
    BY ONLY <1>2, <1>5
  <2>2. stream \in Seq(Nat) /\ b \in Seq(Nat)
    BY <1>1
  <2>3. stream' \in Seq(Nat) /\ Len(stream') = Len(stream) + Len(b)
    BY ONLY <2>1, <2>2, SMTT(30)
  <2>4. \A i \in 1 .. Len(stream) : stream'[i] = stream[i]
    BY ONLY <2>1, <2>2, SMTT(30)
  <2>5. \A i \in 1 .. Len(b) : stream'[Len(stream) + i] = b[i]
    BY ONLY <2>1, <2>2, SMTT(30)
  <2>6. Len(payload) \in Nat
    BY SMTT(30)
  <2>7. \A i \in 1 .. Len(b) : stream'[l + i] = b[i]
    BY ONLY <1>4, <2>5
  <2>8. \A k \in 1 .. 4 : stream'[l + k] = Mark(Len(payload))[k]
    <3>1. \A k \in 1 .. 4 : k \in 1 .. Len(b)
      BY ONLY <1>5, <2>6, SMTT(30)
    <3> QED  BY ONLY <1>5, <2>7, <3>1, ZenonT(60)
  <2>9. ASSUME NEW j \in 1 .. Len(payload) PROVE stream'[l + 4 + j] = payload[j]
    <3>1. 4 + j \in 1 .. Len(b) /\ l + (4 + j) = l + 4 + j
      BY ONLY <1>4, <1>5, <2>6, <2>9, SMTT(30)
    <3>2. stream'[l + (4 + j)] = b[4 + j] /\ b[4 + j] = payload[j]
      BY ONLY <1>5, <2>7, <3>1, <2>9, ZenonT(60)
    <3> QED  BY ONLY <3>1, <3>2
  <2>10. Len(stream') = l + 4 + Len(payload)
    BY ONLY <1>4, <1>5, <2>3, <2>6, SMTT(30)
  <2> QED  BY ONLY <1>4, <2>3, <2>4, <2>8, <2>9, <2>10, ZenonT(60)
<1>7. /\ sent' \in Seq(Seq(Nat)) /\ Len(sent') = n + 1
      /\ \A i \in 1 .. n : sent'[i] = sent[i]
      /\ sent'[n + 1] = payload
  <2>1. sent' = Append(sent, payload) /\ sent \in Seq(Seq(Nat)) /\ payload \in Seq(Nat)
    BY <1>1, <1>2
  <2>2. /\ sent' \in Seq(Seq(Nat)) /\ Len(sent') = Len(sent) + 1
        /\ \A i \in 1 .. Len(sent) : sent'[i] = sent[i]
        /\ sent'[Len(sent) + 1] = payload
    BY ONLY <2>1, SMTT(30)
  <2> QED  BY ONLY <1>3, <2>2
<1>8. /\ ends' \in Seq(Nat) /\ Len(ends') = n + 1
      /\ \A i \in 1 .. n : ends'[i] = ends[i]
      /\ ends'[n + 1] = l + 4 + Len(payload)
  <2>1. PICK e \in Nat : e = Len(stream')
    BY ONLY <1>6, SMTT(30)
  <2>2. ends' = Append(ends, e) /\ ends \in Seq(Nat)
    BY <1>1, <1>2, <2>1
  <2>3. /\ ends' \in Seq(Nat) /\ Len(ends') = Len(ends) + 1
        /\ \A i \in 1 .. Len(ends) : ends'[i] = ends[i]
        /\ ends'[Len(ends) + 1] = e
    BY ONLY <2>1, <2>2, SMTT(30)
  <2> QED  BY ONLY <1>1, <1>3, <1>6, <2>1, <2>3
<1>9. ASSUME NEW i \in 1 .. n + 1 PROVE Start(i)' = Start(i)
  <2>1. i = 1 \/ i - 1 \in 1 .. n
    BY ONLY <1>3, <1>9, SMTT(30)
  <2>2. i - 1 \in 1 .. n => ends'[i - 1] = ends[i - 1]
    BY ONLY <1>8
  <2> QED  BY ONLY <2>1, <2>2 DEF Start
<1>10. Start(n + 1) = l
  BY ONLY Layout, <1>3, <1>4 DEF Layout
<1>11. marks' = marks \cup {l}
  BY ONLY <1>2, <1>4, SMTT(30)
<1>12. \A i \in 1 .. n :
         /\ RecordAt(i) /\ Start(i) \in Nat /\ ends[i] <= l /\ ends[i] \in Nat
         /\ ends[i] = Start(i) + 4 + Len(sent[i]) /\ Len(sent[i]) \in Nat
  BY ONLY LayoutFacts, IInv, Layout, <1>3, <1>4, SMTT(30)
<1>13. Len(payload) \in Nat
  BY SMTT(30)
<1>14. RecordAt(n + 1)'
  <2>1. Start(n + 1)' = l
    BY ONLY <1>3, <1>9, <1>10, SMTT(30)
  <2> QED  BY ONLY <1>2, <1>6, <1>7, <1>8, <1>11, <2>1, ZenonT(60) DEF RecordAt
<1>15. ASSUME NEW i \in 1 .. n PROVE RecordAt(i)'
  <2>1. PICK a \in Nat : a = Start(i)
    BY <1>12
  <2>2. PICK r : r = sent[i]
    OBVIOUS
  <2>3. Start(i)' = a /\ sent'[i] = r /\ ends'[i] = ends[i]
    BY ONLY <1>3, <1>7, <1>8, <1>9, <1>15, <2>1, <2>2, SMTT(30)
  <2>4. ends[i] = a + 4 + Len(r) /\ ends[i] <= l /\ ends[i] \in Nat /\ Len(r) \in Nat
    BY ONLY <1>12, <1>15, <2>1, <2>2
  <2>5. /\ a \in marks
        /\ Len(r) <= SizeLimit
        /\ \A k \in 1 .. 4 : stream[a + k] = Mark(Len(r))[k]
        /\ \A j \in 1 .. Len(r) : stream[a + 4 + j] = r[j]
    BY ONLY <1>12, <1>15, <2>1, <2>2, ZenonT(60) DEF RecordAt
  <2>6. /\ \A o \in 1 .. 4 : a + o \in 1 .. l
        /\ \A j \in 1 .. Len(r) : a + 4 + j \in 1 .. l
    <3>1. PICK k \in Nat : k = Len(r)
      BY ONLY <2>4
    <3>2. a + 4 + k <= l
      BY ONLY <2>4, <3>1
    <3>3. /\ \A o \in 1 .. 4 : a + o \in 1 .. l
          /\ \A j \in 1 .. k : a + 4 + j \in 1 .. l
      BY ONLY Offsets, <3>2
    <3> QED  BY ONLY <3>1, <3>3
  <2>7. \A k \in 1 .. 4 : stream'[a + k] = Mark(Len(r))[k]
    BY ONLY <1>6, <2>5, <2>6, ZenonT(60)
  <2>8. \A j \in 1 .. Len(r) : stream'[a + 4 + j] = r[j]
    BY ONLY <1>6, <2>5, <2>6, ZenonT(60)
  <2> QED  BY ONLY <1>11, <2>3, <2>4, <2>5, <2>7, <2>8 DEF RecordAt
<1>16. \A i, j \in 1 .. n + 1 : i <= j => ends'[i] <= ends'[j]
  <2>1. \A i, j \in 1 .. n : i <= j => ends[i] <= ends[j]
    BY ONLY Layout, <1>1, <1>3 DEF Layout
  <2>2. PICK k \in Nat : k = Len(payload)
    BY ONLY <1>13
  <2>3. ASSUME NEW i \in 1 .. n PROVE ends'[i] <= l + 4 + k
    <3>1. PICK x \in Nat : x = ends[i]
      BY ONLY <1>12, <2>3, ZenonT(60)
    <3>2. ends'[i] = x /\ x <= l
      BY ONLY <1>8, <1>12, <2>3, <3>1
    <3> QED  BY ONLY <3>2, SMTT(30)
  <2>4. ASSUME NEW i \in 1 .. n + 1, NEW j \in 1 .. n + 1, i <= j
        PROVE  ends'[i] <= ends'[j]
    <3>1. CASE j = n + 1
      <4>1. i = n + 1 \/ i \in 1 .. n
        BY ONLY <1>3, <2>4, SMTT(30)
      <4>2. ends'[j] = l + 4 + k
        BY ONLY <1>8, <2>2, <3>1
      <4> QED  BY ONLY <1>4, <2>2, <2>3, <3>1, <4>1, <4>2, SMTT(30)
    <3>2. CASE j # n + 1
      <4>1. i # n + 1 /\ j # n + 1
        BY ONLY <2>4, <3>2, SMTT(30)
      <4>2. i \in 1 .. n /\ j \in 1 .. n
        BY ONLY NotLast, <4>1
      <4> QED  BY ONLY <1>8, <2>1, <2>4, <4>2
    <3> QED  BY ONLY <3>1, <3>2
  <2> QED  BY ONLY <2>4
<1>17. Layout'
  <2>1. Len(stream') = Start(Len(sent) + 1)'
    BY ONLY <1>3, <1>6, <1>7, <1>8, SMTT(30) DEF Start
  <2>2. \A i \in 1 .. n + 1 : RecordAt(i)'
    BY ONLY <1>3, <1>14, <1>15, SMTT(30)
  <2> QED  BY ONLY <2>1, <2>2, <1>7, <1>8, <1>16, Zenon DEF Layout
<1> QED  BY ONLY <1>3, <1>4, <1>6, <1>7, <1>9, <1>11, <1>13, <1>17, SMTT(30)

\* The peer sends a record: what the client has is where it was.
LEMMA PeerKeeps ==
  ASSUME IInv, orderly, OInv, NEW shape \in Shapes, PeerSend(shape)
  PROVE  OInv'
<1>1. UNCHANGED <<rpos, rbuf, rs_recordsize, rs_frag_remaining, rs_frag_bufsz, rs_frag_offset,
                  rs_fh_remaining, rs_last_frag, rs_frag_list, rs_frag_buf_base, pc, delivered>>
  BY DEF PeerSend, rsVars, fragVars
<1>2. Layout /\ Buffered /\ Ordered /\ Linked
  BY DEF OInv
<1>3. /\ Layout'
      /\ Len(sent') = Len(sent) + 1 /\ \A i \in 1 .. Len(sent) : sent'[i] = sent[i]
      /\ \A i \in 1 .. Len(sent) + 1 : Start(i)' = Start(i)
      /\ Len(stream) <= Len(stream')
      /\ \A i \in 1 .. Len(stream) : stream'[i] = stream[i]
      /\ marks' = marks \cup {Len(stream)}
  BY <1>2, PeerLayout
<1>4. /\ Len(sent) \in Nat /\ Len(stream) \in Nat /\ Len(delivered) \in Nat
      /\ rpos \in Nat /\ Len(rbuf) \in Nat
  BY <1>2, LayoutFacts, SMTT(30) DEF IInv, Types, Ordered
<1>5. rpos <= Len(stream) /\ Len(rbuf) <= rpos /\ Len(delivered) <= Len(sent)
  BY <1>2 DEF Buffered, Ordered
<1>6. Len(stream') \in Nat /\ Len(sent') \in Nat
  <2>1. stream' \in Seq(Byte)
    BY NextIInv DEF Next, IInv, Types
  <2> QED  BY ONLY <1>3, <1>4, <2>1, SMTT(30)
<1>7. Consumed' = Consumed
  BY ONLY <1>1 DEF Consumed
<1>8. Buffered'
  <2>1. rpos' <= Len(stream') /\ Len(rbuf') <= rpos'
    BY ONLY <1>1, <1>3, <1>4, <1>5, <1>6, SMTT(30)
  <2>2. ~InsideMarker(rpos)'
    <3>1. ~InsideMarker(rpos)
      BY <1>2 DEF Buffered
    <3>2. ~(Len(stream) < rpos)
      BY ONLY <1>4, <1>5, SMTT(30)
    <3> QED  BY ONLY <1>1, <1>3, <3>1, <3>2 DEF InsideMarker
  <2>3. ASSUME NEW i \in 1 .. Len(rbuf) PROVE rbuf[i] = stream'[Consumed + i]
    <3>1. Consumed + i \in 1 .. Len(stream)
      BY ONLY <1>4, <1>5, <2>3, SMTT(30) DEF Consumed
    <3>2. rbuf[i] = stream[Consumed + i]
      BY <1>2 DEF Buffered
    <3> QED  BY ONLY <1>3, <3>1, <3>2
  <2>4. \A i \in 1 .. Len(rbuf') : rbuf'[i] = stream'[Consumed' + i]
    BY ONLY <1>1, <1>7, <2>3
  <2>5. (pc' = "read" => rbuf' = <<>>) /\ (pc' \in {"copy", "new_frag"} => rbuf' # <<>>)
    BY <1>1, <1>2 DEF Buffered
  <2> QED  BY ONLY <2>1, <2>2, <2>4, <2>5 DEF Buffered
<1>9. \A i \in 1 .. Len(delivered) : sent'[i] = sent[i]
  BY ONLY <1>3, <1>4, <1>5, SMTT(30)
<1>10. Ordered'
  <2>1. Len(delivered') <= Len(sent')
    BY ONLY <1>1, <1>3, <1>4, <1>5, SMTT(30)
  <2>2. \A i \in 1 .. Len(delivered') : delivered'[i] = sent'[i]
    BY <1>1, <1>2, <1>9 DEF Ordered
  <2>3. delivered' \in Seq(Seq(Nat))
    BY <1>1, <1>2 DEF Ordered
  <2> QED  BY ONLY <2>1, <2>2, <2>3 DEF Ordered
<1>11. Linked'
  BY ONLY <1>1, <1>2 DEF Linked
<1>12. PICK n \in Nat : n = Len(delivered) + 1
  BY <1>4, SMTT(30)
<1>13. n \in 1 .. Len(sent) + 1 /\ Start(n)' = Start(n)
  BY ONLY <1>3, <1>4, <1>5, <1>12, SMTT(30)
<1>14. Between => Between'
  <2>1. ASSUME Between PROVE Consumed' = Start(Len(delivered) + 1)'
    <3>1. Consumed = Start(n)
      BY ONLY <1>12, <2>1 DEF Between
    <3>2. Start(Len(delivered) + 1)' = Start(n)'
      BY ONLY <1>1, <1>12 DEF Start
    <3> QED  BY ONLY <1>7, <1>13, <3>1, <3>2
  <2>2. Len(delivered) > 0 => sent'[Len(delivered)] = sent[Len(delivered)]
    BY ONLY <1>4, <1>9, SMTT(30)
  <2> QED  BY ONLY <1>1, <2>1, <2>2 DEF Between
<1>15. Within => Within'
  <2> SUFFICES ASSUME Within PROVE Within'  OBVIOUS
  <2>1. n <= Len(sent) /\ rs_last_frag /\ rs_frag_bufsz = Len(sent[n])
        /\ Consumed = Start(n) + 4 + rs_frag_offset
        /\ \A i \in 1 .. rs_frag_offset : rs_frag_buf_base[i] = sent[n][i]
    BY ONLY <1>12, Within DEF Within
  <2>2. n \in 1 .. Len(sent) /\ n <= Len(sent')
    BY ONLY <1>3, <1>4, <1>13, <2>1, SMTT(30)
  <2>3. sent'[n] = sent[n]
    BY ONLY <1>3, <2>2
  <2>4. n = Len(delivered') + 1
    BY ONLY <1>1, <1>12
  <2>5. /\ pc \in {"read", "copy", "record", "deliver"}
        /\ pc = "read" /\ rs_frag_remaining = 0 => rs_frag_bufsz = 0
        /\ pc \in {"record", "deliver"} =>
             rs_frag_remaining = 0 /\ (rs_frag_bufsz = 0 => rbuf # <<>>)
    BY ONLY Within DEF Within
  <2>6. /\ n <= Len(sent') /\ rs_last_frag' /\ rs_frag_bufsz' = Len(sent'[n])
        /\ Consumed' = Start(n)' + 4 + rs_frag_offset'
        /\ \A i \in 1 .. rs_frag_offset' : rs_frag_buf_base'[i] = sent'[n][i]
    BY ONLY <1>1, <1>7, <1>13, <2>1, <2>2, <2>3
  <2>7. Start(Len(delivered) + 1)' = Start(n)'
    BY ONLY <2>4 DEF Start
  <2> QED  BY ONLY <1>1, <2>4, <2>5, <2>6, <2>7 DEF Within
<1> QED  BY <1>1, <1>3, <1>8, <1>10, <1>11, <1>14, <1>15 DEF OInv

\* read() returns the next bytes.
LEMMA ReadKeeps ==
  ASSUME IInv, orderly, OInv, NEW k \in 1 .. ct_rbufsz, rpc_cb(k)
  PROVE  OInv'
<1>1. /\ UNCHANGED <<stream, marks, ends, sent, rs_recordsize, rs_frag_remaining, rs_frag_bufsz,
                     rs_frag_offset, rs_fh_remaining, rs_last_frag, rs_frag_list,
                     rs_frag_buf_base, delivered>>
      /\ pc = "read" /\ pc' = "copy" /\ rpos' = rpos + k /\ rpos + k <= Len(stream)
      /\ rbuf' = SubSeq(stream, rpos + 1, rpos + k) /\ ~InsideMarker(rpos + k)
  BY DEF rpc_cb, peerVars, rsVars, fragVars
<1>2. k \in Nat /\ k > 0 /\ rpos \in Nat /\ stream \in Seq(Byte) /\ Len(stream) \in Nat
  BY RecordAssumption, SMTT(30) DEF RecordAssumption, IInv, Types
<1>3. /\ rbuf' \in Seq(Byte) /\ Len(rbuf') = k
      /\ \A i \in 1 .. k : rbuf'[i] = stream[rpos + i]
  <2> DEFINE cut == SubSeq(stream, rpos + 1, rpos + k)
  <2>0. rpos + k <= Len(stream)
    BY <1>1
  <2>1. cut \in Seq(Byte) /\ Len(cut) = k /\ \A i \in 1 .. k : cut[i] = stream[rpos + i]
    BY ONLY <1>2, <2>0, SMTT(30)
  <2> HIDE DEF cut
  <2>2. rbuf' = cut
    BY <1>1 DEF cut
  <2> QED  BY <2>1, <2>2
<1>4. rbuf' # <<>>
  BY ONLY <1>2, <1>3, SMTT(30)
<1>5. Consumed = rpos /\ Consumed' = rpos
  <2>1. Len(rbuf) = 0
    BY <1>1, SMTT(30) DEF OInv, Buffered
  <2>2. rpos \in Nat /\ k \in Nat /\ rpos' = rpos + k /\ Len(rbuf') = k
    BY ONLY <1>1, <1>2, <1>3, ZenonT(60)
  <2> QED  BY ONLY <2>1, <2>2, SMTT(30) DEF Consumed
<1>6. Layout'
  <2>1. UNCHANGED <<stream, marks, ends, sent>> /\ Layout
    BY ONLY <1>1, OInv, ZenonT(60) DEF OInv
  <2> QED  BY ONLY <2>1, ZenonT(60) DEF Layout, Start, RecordAt
<1>7. Buffered'
  <2>1. rpos' <= Len(stream') /\ Len(rbuf') <= rpos'
    BY ONLY <1>1, <1>2, <1>3, SMTT(30)
  <2>2. \A i \in 1 .. Len(rbuf') : rbuf'[i] = stream'[Consumed' + i]
    BY ONLY <1>1, <1>3, <1>5, SMTT(30)
  <2>3. ~InsideMarker(rpos)'
    BY ONLY <1>1 DEF InsideMarker
  <2> QED  BY ONLY <1>1, <1>4, <2>1, <2>2, <2>3, ZenonT(60) DEF Buffered
<1>8. Ordered' /\ Linked'
  BY <1>1 DEF OInv, Ordered, Linked
<1>9. Between => Between'
  BY <1>1, <1>5 DEF Between, Start
<1>10. Within => Within'
  BY <1>1, <1>5 DEF Within, Start
<1> QED  BY <1>1, <1>6, <1>7, <1>8, <1>9, <1>10 DEF OInv

\* The start of the read buffer is copied to the fragment, the rest stays.
LEMMA CopyElements ==
  ASSUME NEW base \in Seq(Byte), NEW buf \in Seq(Byte), NEW c \in 0 .. Len(buf)
  PROVE  LET to == base \o SubSeq(buf, 1, c)
             rest == SubSeq(buf, c + 1, Len(buf))
         IN /\ Len(to) = Len(base) + c
            /\ \A i \in 1 .. Len(base) : to[i] = base[i]
            /\ \A i \in 1 .. c : to[Len(base) + i] = buf[i]
            /\ Len(rest) = Len(buf) - c
            /\ \A i \in 1 .. Len(buf) - c : rest[i] = buf[c + i]
<1>1. PICK s \in Seq(Byte) :
        s = SubSeq(buf, 1, c) /\ Len(s) = c /\ \A i \in 1 .. c : s[i] = buf[i]
  <2>1. /\ SubSeq(buf, 1, c) \in Seq(Byte) /\ Len(SubSeq(buf, 1, c)) = c
        /\ \A i \in 1 .. c : SubSeq(buf, 1, c)[i] = buf[i]
    BY SMTT(30)
  <2> QED  BY ONLY <2>1, ZenonT(60)
<1>2. /\ Len(base \o s) = Len(base) + Len(s)
      /\ \A i \in 1 .. Len(base) : (base \o s)[i] = base[i]
      /\ \A i \in 1 .. Len(s) : (base \o s)[Len(base) + i] = s[i]
  BY SMTT(30)
<1>3. /\ Len(SubSeq(buf, c + 1, Len(buf))) = Len(buf) - c
      /\ \A i \in 1 .. Len(buf) - c : SubSeq(buf, c + 1, Len(buf))[i] = buf[c + i]
  BY SMTT(30)
<1>4. /\ Len(base \o s) = Len(base) + c
      /\ \A i \in 1 .. c : (base \o s)[Len(base) + i] = buf[i]
  BY ONLY <1>1, <1>2
<1> QED  BY ONLY <1>1, <1>2, <1>3, <1>4, ZenonT(60)

\* update_frag_state copies what the fragment needs.
LEMMA CopyKeeps ==
  ASSUME IInv, orderly, OInv, CopyFragment
  PROVE  OInv'
<1>1. /\ UNCHANGED <<stream, marks, ends, sent, rpos, rs_recordsize, rs_frag_bufsz,
                     rs_fh_remaining, rs_last_frag, rs_frag_list, delivered>>
      /\ pc = "copy"
      /\ rs_frag_buf_base' = rs_frag_buf_base \o SubSeq(rbuf, 1, ToCopy)
      /\ rs_frag_remaining' = rs_frag_remaining - ToCopy
      /\ rs_frag_offset' = rs_frag_offset + ToCopy
      /\ rbuf' = SubSeq(rbuf, ToCopy + 1, Len(rbuf))
      /\ pc' = IF Complete' THEN "record" ELSE Continue(rbuf')
  BY DEF CopyFragment, peerVars
<1>2. /\ rpos \in Nat /\ rbuf \in Seq(Byte) /\ rbuf' \in Seq(Byte)
      /\ rs_frag_buf_base \in Seq(Byte)
      /\ rs_frag_remaining \in Nat \cup {-1} /\ rs_frag_offset \in Nat /\ rs_frag_bufsz \in Nat
      /\ Len(rbuf) \in Nat /\ Len(rbuf) <= rpos /\ rpos <= Len(stream) /\ rbuf # <<>>
      /\ rs_frag_remaining >= 0 => /\ rs_frag_offset + rs_frag_remaining = rs_frag_bufsz
                                   /\ Len(rs_frag_buf_base) = rs_frag_offset
  <2>1. IInv'
    BY CopyStep
  <2>2. rbuf' \in Seq(Byte)
    BY ONLY <2>1 DEF IInv, Types
  <2>3. Len(rbuf) <= rpos /\ rpos <= Len(stream) /\ rbuf # <<>>
    BY <1>1 DEF OInv, Buffered
  <2>4. /\ rpos \in Nat /\ rbuf \in Seq(Byte) /\ rs_frag_buf_base \in Seq(Byte)
        /\ rs_frag_remaining \in Nat \cup {-1} /\ rs_frag_offset \in Nat
        /\ rs_frag_bufsz \in Nat
    BY ONLY IInv DEF IInv, Types
  <2>5. rs_frag_remaining >= 0 => /\ rs_frag_offset + rs_frag_remaining = rs_frag_bufsz
                                  /\ Len(rs_frag_buf_base) = rs_frag_offset
    BY ONLY IInv DEF IInv, CopyInBounds
  <2>6. Len(rbuf) \in Nat
    BY ONLY <2>4, SMTT(30)
  <2> QED  BY ONLY <2>2, <2>3, <2>4, <2>5, <2>6
<1>3. PICK c \in 0 .. Len(rbuf) :
        /\ c = ToCopy
        /\ rs_frag_remaining = -1 => c = 0
        /\ rs_frag_remaining # -1 => c <= rs_frag_remaining
        /\ rs_frag_remaining # -1 /\ c # rs_frag_remaining => c = Len(rbuf)
  <2>1. /\ ToCopy \in 0 .. Len(rbuf)
        /\ rs_frag_remaining = -1 => ToCopy = 0
        /\ rs_frag_remaining # -1 => ToCopy <= rs_frag_remaining
        /\ rs_frag_remaining # -1 /\ ToCopy # rs_frag_remaining => ToCopy = Len(rbuf)
    BY ONLY <1>2, SMTT(30) DEF ToCopy
  <2> QED  BY ONLY <2>1
<1>4. /\ Len(rs_frag_buf_base') = Len(rs_frag_buf_base) + c
      /\ \A i \in 1 .. Len(rs_frag_buf_base) : rs_frag_buf_base'[i] = rs_frag_buf_base[i]
      /\ \A i \in 1 .. c : rs_frag_buf_base'[Len(rs_frag_buf_base) + i] = rbuf[i]
      /\ Len(rbuf') = Len(rbuf) - c
      /\ \A i \in 1 .. Len(rbuf) - c : rbuf'[i] = rbuf[c + i]
  <2>1. /\ rs_frag_buf_base' = rs_frag_buf_base \o SubSeq(rbuf, 1, c)
        /\ rbuf' = SubSeq(rbuf, c + 1, Len(rbuf))
    BY ONLY <1>1, <1>3
  <2>2. LET to == rs_frag_buf_base \o SubSeq(rbuf, 1, c)
            rest == SubSeq(rbuf, c + 1, Len(rbuf))
        IN /\ Len(to) = Len(rs_frag_buf_base) + c
           /\ \A i \in 1 .. Len(rs_frag_buf_base) : to[i] = rs_frag_buf_base[i]
           /\ \A i \in 1 .. c : to[Len(rs_frag_buf_base) + i] = rbuf[i]
           /\ Len(rest) = Len(rbuf) - c
           /\ \A i \in 1 .. Len(rbuf) - c : rest[i] = rbuf[c + i]
    <3>1. rs_frag_buf_base \in Seq(Byte) /\ rbuf \in Seq(Byte) /\ c \in 0 .. Len(rbuf)
      BY ONLY <1>2, <1>3
    <3> QED  BY ONLY <3>1, CopyElements
  <2> QED  BY ONLY <2>1, <2>2, SMTT(30)
<1>5. Consumed' = Consumed + c
  <2>1. Len(rbuf') = Len(rbuf) - c /\ rpos' = rpos
    BY ONLY <1>1, <1>4, ZenonT(60)
  <2>2. rpos \in Nat /\ Len(rbuf) \in Nat /\ c \in 0 .. Len(rbuf)
    BY ONLY <1>2, <1>3
  <2> QED  BY ONLY <2>1, <2>2, SMTT(30) DEF Consumed
<1>6. Layout'
  <2>1. UNCHANGED <<stream, marks, ends, sent>> /\ Layout
    BY ONLY <1>1, OInv DEF OInv
  <2> QED  BY ONLY <2>1, ZenonT(60) DEF Layout, Start, RecordAt
<1>7. rbuf' = <<>> <=> c = Len(rbuf)
  <2>1. Len(rbuf') = Len(rbuf) - c /\ rbuf' \in Seq(Byte)
    BY ONLY <1>2, <1>4
  <2>2. Len(rbuf) \in Nat /\ c \in 0 .. Len(rbuf)
    BY ONLY <1>2, <1>3
  <2> QED  BY ONLY <2>1, <2>2, SMTT(30)
<1>8. pc' \in {"record", "read", "new_frag"} /\ (pc' # "record" => pc' = Continue(rbuf'))
  BY ONLY <1>1 DEF Continue
<1>9. Buffered'
  <2>1. rpos' <= Len(stream') /\ Len(rbuf') <= rpos'
    BY ONLY <1>1, <1>2, <1>3, <1>4, SMTT(30)
  <2>2. ASSUME NEW i \in 1 .. Len(rbuf') PROVE rbuf'[i] = stream'[Consumed' + i]
    <3>1. i \in 1 .. Len(rbuf) - c /\ c + i \in 1 .. Len(rbuf)
      <4>1. Len(rbuf) \in Nat /\ c \in 0 .. Len(rbuf) /\ Len(rbuf') = Len(rbuf) - c
        BY ONLY <1>2, <1>3, <1>4, ZenonT(60)
      <4> QED  BY ONLY <2>2, <4>1, SMTT(30)
    <3>2. rbuf'[i] = rbuf[c + i]
      BY ONLY <1>4, <3>1
    <3>3. rbuf[c + i] = stream[Consumed + (c + i)]
      BY <3>1 DEF OInv, Buffered
    <3>4. Consumed + (c + i) = Consumed' + i
      BY ONLY <1>2, <1>3, <1>5, <2>2, SMTT(30) DEF Consumed
    <3> QED  BY ONLY <1>1, <3>2, <3>3, <3>4, ZenonT(60)
  <2>3. ~InsideMarker(rpos)'
    BY <1>1 DEF OInv, Buffered, InsideMarker
  <2>4. (pc' = "read" => rbuf' = <<>>) /\ (pc' \in {"copy", "new_frag"} => rbuf' # <<>>)
    BY ONLY <1>8 DEF Continue
  <2> QED  BY ONLY <2>1, <2>2, <2>3, <2>4 DEF Buffered
<1>10. Ordered'
  BY <1>1 DEF OInv, Ordered
<1>11. Linked'
  BY <1>1, <1>8 DEF OInv, Linked
<1>12. CASE rs_frag_remaining = -1
  <2>1. c = 0 /\ rs_frag_remaining' = -1
    BY ONLY <1>1, <1>3, <1>12, SMTT(30)
  <2>2. rbuf' # <<>> /\ Consumed' = Consumed
    BY ONLY <1>2, <1>5, <1>7, <2>1, SMTT(30) DEF Consumed
  <2>3. ~Complete'
    BY ONLY <2>1, SMTT(30) DEF Complete
  <2>4. pc' = "new_frag"
    BY ONLY <1>1, <2>2, <2>3 DEF Continue
  <2>5. Between'
    BY <1>1, <1>12, <2>2, <2>4 DEF OInv, Between, Start
  <2> QED  BY <1>6, <1>9, <1>10, <1>11, <2>1, <2>5 DEF OInv
<1>13. CASE rs_frag_remaining # -1
  <2>1. PICK n \in Nat : n = Len(delivered) + 1 /\ n <= Len(sent)
    BY <1>13, SMTT(30) DEF OInv, Within, Ordered
  <2>2. /\ rs_last_frag /\ rs_frag_bufsz = Len(sent[n])
        /\ Consumed = Start(n) + 4 + rs_frag_offset
        /\ \A i \in 1 .. rs_frag_offset : rs_frag_buf_base[i] = sent[n][i]
    <3>1. Within
      BY <1>13 DEF OInv
    <3> QED  BY ONLY <2>1, <3>1 DEF Within
  <2>3. n \in 1 .. Len(sent) /\ RecordAt(n) /\ Start(n) \in Nat
    <3>1. Len(sent) \in Nat /\ Len(delivered) \in Nat
      BY LayoutFacts, SMTT(30) DEF OInv, Ordered
    <3>2. n \in 1 .. Len(sent) /\ n \in 1 .. Len(sent) + 1
      BY ONLY <2>1, <3>1, SMTT(30)
    <3> QED  BY <3>2, LayoutFacts DEF OInv
  <2>4. /\ rs_frag_remaining \in Nat /\ rs_frag_offset + rs_frag_remaining = rs_frag_bufsz
        /\ Len(rs_frag_buf_base) = rs_frag_offset /\ c <= rs_frag_remaining
        /\ c \in Nat
    BY ONLY <1>2, <1>3, <1>13, SMTT(30)
  <2>5. /\ rs_frag_remaining' = rs_frag_remaining - c /\ rs_frag_remaining' # -1
        /\ rs_frag_offset' = rs_frag_offset + c
        /\ rs_frag_remaining' \in Nat
    BY ONLY <1>1, <1>3, <2>4, SMTT(30)
  <2>6. ASSUME NEW i \in 1 .. rs_frag_offset' PROVE rs_frag_buf_base'[i] = sent'[n][i]
    <3>1. CASE i <= rs_frag_offset
      <4>1. i \in 1 .. rs_frag_offset
        BY ONLY <1>2, <2>4, <2>5, <2>6, <3>1, SMTT(30)
      <4> QED  BY ONLY <1>1, <1>4, <2>2, <2>4, <4>1, ZenonT(60)
    <3>2. CASE ~(i <= rs_frag_offset)
      <4>1. PICK j \in 1 .. c : i = rs_frag_offset + j
        <5>1. i - rs_frag_offset \in 1 .. c /\ i = rs_frag_offset + (i - rs_frag_offset)
          BY ONLY <1>2, <2>4, <2>5, <2>6, <3>2, SMTT(30)
        <5> QED  BY ONLY <5>1
      <4>2. j \in 1 .. Len(rbuf) /\ i \in 1 .. rs_frag_bufsz
        BY ONLY <1>2, <1>3, <2>4, <4>1, SMTT(30)
      <4>3. rs_frag_buf_base'[i] = rbuf[j]
        BY ONLY <1>4, <2>4, <4>1
      <4>4. rbuf[j] = stream[Consumed + j]
        BY <4>2 DEF OInv, Buffered
      <4>5. Consumed + j = Start(n) + 4 + i
        BY ONLY <1>2, <2>2, <2>3, <4>1, SMTT(30)
      <4>6. stream[Start(n) + 4 + i] = sent[n][i]
        BY ONLY <2>2, <2>3, <4>2, SMTT(30) DEF RecordAt
      <4> QED  BY ONLY <1>1, <4>3, <4>4, <4>5, <4>6, ZenonT(60)
    <3> QED  BY ONLY <3>1, <3>2
  <2>7. Consumed' = Start(n) + 4 + rs_frag_offset'
    <3>1. Consumed' = Consumed + c /\ rs_frag_offset \in Nat
      BY ONLY <1>2, <1>5, ZenonT(60)
    <3> QED  BY ONLY <2>2, <2>3, <2>4, <2>5, <3>1, SMTT(30)
  <2>8. CASE rs_frag_remaining' = 0
    <3>1. pc' = "record"
      <4>1. Complete'
        <5>1. rs_frag_bufsz' = rs_frag_bufsz /\ rs_frag_offset \in Nat
          BY ONLY <1>1, <1>2, ZenonT(60)
        <5> QED  BY ONLY <2>4, <2>5, <2>8, <5>1, SMTT(30) DEF Complete
      <4> QED  BY ONLY <1>1, <4>1
    <3>2. rs_frag_bufsz' = 0 => rbuf' # <<>>
      <4>1. rs_frag_bufsz = 0 => c = 0
        BY ONLY <1>2, <2>4, SMTT(30)
      <4> QED  BY ONLY <1>1, <1>2, <1>7, <4>1, SMTT(30)
    <3>3. Within'
      BY <1>1, <2>1, <2>2, <2>5, <2>6, <2>7, <2>8, <3>1, <3>2 DEF Within, Start
    <3> QED  BY <1>6, <1>9, <1>10, <1>11, <2>5, <3>3 DEF OInv
  <2>9. CASE rs_frag_remaining' # 0
    <3>1. ~Complete'
      BY ONLY <2>9 DEF Complete
    <3>2. rbuf' = <<>>
      <4>1. c # rs_frag_remaining
        BY ONLY <2>4, <2>5, <2>9, SMTT(30)
      <4> QED  BY ONLY <1>3, <1>7, <1>13, <4>1
    <3>3. pc' = "read"
      BY ONLY <1>1, <3>1, <3>2 DEF Continue
    <3>4. Within'
      BY <1>1, <2>1, <2>2, <2>5, <2>6, <2>7, <2>9, <3>3 DEF Within, Start
    <3> QED  BY <1>6, <1>9, <1>10, <1>11, <2>5, <3>4 DEF OInv
  <2> QED  BY ONLY <2>8, <2>9
<1> QED  BY ONLY <1>12, <1>13

\* update_record_state links the fragment, which is the last one.
LEMMA RecordKeeps ==
  ASSUME IInv, orderly, OInv, update_record_state
  PROVE  OInv'
<1>1. pc = "record" /\ rs_frag_remaining = 0 /\ rs_recordsize = 0 /\ rs_frag_list = <<>>
  BY DEF update_record_state, IInv, AtRecord, SizeZero, OInv, Linked
<1>2. Within
  BY <1>1, SMTT(30) DEF OInv
<1>3. rs_last_frag
  BY <1>2 DEF Within
<1>4. /\ UNCHANGED <<stream, marks, ends, sent, rpos, rbuf, rs_frag_bufsz, rs_frag_offset,
                     rs_last_frag, rs_frag_buf_base, rs_frag_remaining, delivered>>
      /\ rs_frag_list' = Append(rs_frag_list, rs_frag_buf_base)
      /\ rs_recordsize' = rs_recordsize + rs_frag_bufsz
      /\ pc' = "deliver"
  BY <1>3 DEF update_record_state, AllocFails, peerVars, fragVars
<1>5. rs_frag_list' = <<rs_frag_buf_base'>>
  BY ONLY <1>1, <1>4, SMTT(30)
<1>6. rs_recordsize' = rs_frag_bufsz'
  <2>1. rs_frag_bufsz \in Nat
    BY DEF IInv, Types
  <2> QED  BY ONLY <1>1, <1>4, <2>1, SMTT(30)
<1>7. Layout'
  <2>1. UNCHANGED <<stream, marks, ends, sent>> /\ Layout
    BY ONLY <1>4, OInv DEF OInv
  <2> QED  BY ONLY <2>1, SMTT(30) DEF Layout, Start, RecordAt
<1>8. Buffered' /\ Ordered'
  BY <1>4 DEF OInv, Buffered, Ordered, Consumed, InsideMarker
<1>9. Linked'
  BY ONLY <1>4, <1>5, <1>6 DEF Linked
<1>10. Within'
  BY <1>1, <1>2, <1>4 DEF Within, Consumed, Start
<1> QED  BY <1>1, <1>4, <1>7, <1>8, <1>9, <1>10, SMTT(30) DEF OInv

\* Two sequences with the same bytes are the same.
LEMMA SameBytes ==
  ASSUME NEW s \in Seq(Byte), NEW t \in Seq(Nat), Len(s) = Len(t),
         \A i \in 1 .. Len(s) : s[i] = t[i]
  PROVE  s = t
<1>1. s = [i \in 1 .. Len(s) |-> s[i]] /\ t = [i \in 1 .. Len(t) |-> t[i]]
  BY SMTT(30)
<1> QED  BY ONLY <1>1, Len(s) = Len(t), \A i \in 1 .. Len(s) : s[i] = t[i]

\* One fragment of the size of the record is collated to itself.
LEMMA CollateOne ==
  ASSUME NEW base \in Seq(Byte), NEW msg \in Collated(<<base>>, Len(base))
  PROVE  msg = base
<1>1. Joined(<<base>>) = base
  BY JoinedOne
<1>2. PICK heap \in [1 .. 0 -> HeapBytes] : msg = SubSeq(base \o heap, 1, Len(base))
  <2>1. ~(Len(base) < Len(base))
    BY SMTT(30)
  <2> QED  BY ONLY <1>1, <2>1, msg \in Collated(<<base>>, Len(base)) DEF Collated
<1>3. heap = <<>>
  BY SMTT(30)
<1>4. base \o <<>> = base /\ SubSeq(base, 1, Len(base)) = base
  BY SMTT(30)
<1> QED  BY ONLY <1>2, <1>3, <1>4

\* call_user_cb hands over the record that is next.
LEMMA DeliverKeeps ==
  ASSUME IInv, orderly, OInv, call_user_cb
  PROVE  /\ OInv'
         /\ Len(delivered) < Len(sent)
         /\ delivered' = Append(delivered, sent[Len(delivered) + 1])
<1>1. /\ pc = "deliver" /\ rs_frag_list = <<rs_frag_buf_base>>
      /\ rs_recordsize = rs_frag_bufsz
  BY DEF call_user_cb, OInv, Linked
<1>2. Within
  BY <1>1 DEF OInv, Between
<1>3. PICK n \in Nat : n = Len(delivered) + 1 /\ n \in 1 .. Len(sent)
  BY <1>2, LayoutFacts, SMTT(30) DEF OInv, Within, Ordered
<1>4. /\ rs_frag_bufsz = Len(sent[n]) /\ Consumed = Start(n) + 4 + rs_frag_offset
      /\ \A i \in 1 .. rs_frag_offset : rs_frag_buf_base[i] = sent[n][i]
      /\ rs_frag_remaining = 0 /\ (rs_frag_bufsz = 0 => rbuf # <<>>)
  BY ONLY <1>1, <1>2, <1>3 DEF Within
<1>5. /\ rs_frag_buf_base \in Seq(Byte) /\ rs_frag_offset = rs_frag_bufsz
      /\ Len(rs_frag_buf_base) = rs_frag_bufsz
  <2>1. /\ rs_frag_buf_base \in Seq(Byte) /\ rs_frag_offset \in Nat /\ rs_frag_bufsz \in Nat
        /\ rs_frag_offset + rs_frag_remaining = rs_frag_bufsz
        /\ Len(rs_frag_buf_base) = rs_frag_offset
    BY <1>4, SMTT(30) DEF IInv, Types, CopyInBounds
  <2> QED  BY ONLY <1>4, <2>1, SMTT(30)
<1>6. /\ UNCHANGED <<stream, marks, ends, sent, rpos, rbuf, rs_frag_bufsz, rs_frag_offset,
                     rs_last_frag, rs_frag_buf_base>>
      /\ rs_frag_list' = <<>> /\ rs_frag_remaining' = -1 /\ rs_fh_remaining' = 4
      /\ \E msg \in Collated(rs_frag_list, rs_recordsize) : delivered' = Append(delivered, msg)
      /\ pc' = Continue(rbuf) \/ Overrun(rs_frag_list, rs_recordsize)
  BY DEF call_user_cb, AllocFails, peerVars, fragVars, expect_new_rpc_record
<1>7. pc' = Continue(rbuf)
  <2>1. Joined(rs_frag_list) = rs_frag_buf_base
    BY ONLY <1>1, <1>5, JoinedOne
  <2>2. ~(Len(rs_frag_buf_base) > rs_recordsize)
    BY ONLY <1>1, <1>5, SMTT(30)
  <2> QED  BY ONLY <1>6, <2>1, <2>2 DEF Overrun
<1>8. delivered' = Append(delivered, rs_frag_buf_base)
  <2>1. PICK msg \in Collated(rs_frag_list, rs_recordsize) :
          delivered' = Append(delivered, msg)
    BY ONLY <1>6
  <2>2. msg \in Collated(<<rs_frag_buf_base>>, Len(rs_frag_buf_base))
    BY ONLY <1>1, <1>5, <2>1
  <2>3. msg = rs_frag_buf_base
    BY ONLY <1>5, <2>2, CollateOne
  <2> QED  BY ONLY <2>1, <2>3
<1>9. sent[n] \in Seq(Nat) /\ Start(n) \in Nat /\ Start(n + 1) = Start(n) + 4 + Len(sent[n])
  <2>1. Layout
    BY DEF OInv
  <2>2. /\ sent \in Seq(Seq(Nat)) /\ Len(sent) \in Nat
        /\ \A i \in 1 .. Len(sent) + 1 : Start(i) \in Nat
        /\ \A i \in 1 .. Len(sent) : Start(i + 1) = ends[i] /\ ends[i] = Start(i) + 4 + Len(sent[i])
    BY ONLY IInv, <2>1, LayoutFacts
  <2>3. n \in 1 .. Len(sent) + 1
    BY ONLY <1>3, <2>2, SMTT(30)
  <2> QED  BY ONLY <1>3, <2>2, <2>3, SMTT(30)
<1>10. rs_frag_buf_base = sent[n]
  <2>1. /\ Len(rs_frag_buf_base) = Len(sent[n])
        /\ \A i \in 1 .. Len(rs_frag_buf_base) : rs_frag_buf_base[i] = sent[n][i]
    BY ONLY <1>4, <1>5
  <2>2. rs_frag_buf_base \in Seq(Byte)
    BY ONLY <1>5
  <2> QED  BY ONLY <1>9, <2>1, <2>2, SameBytes
<1>11. delivered' = Append(delivered, sent[n])
  BY ONLY <1>8, <1>10
<1>12. Layout'
  <2>1. UNCHANGED <<stream, marks, ends, sent>> /\ Layout
    BY ONLY <1>6, OInv DEF OInv
  <2> QED  BY ONLY <2>1, SMTT(30) DEF Layout, Start, RecordAt
<1>13. Buffered'
  <2>1. pc' # "copy" /\ (pc' = "read" => rbuf = <<>>) /\ (pc' = "new_frag" => rbuf # <<>>)
    BY ONLY <1>7 DEF Continue
  <2> QED  BY <1>6, <2>1 DEF OInv, Buffered, Consumed, InsideMarker
<1>14. /\ delivered \in Seq(Seq(Nat)) /\ Len(delivered) \in Nat
       /\ \A i \in 1 .. Len(delivered) : delivered[i] = sent[i]
  BY SMTT(30) DEF OInv, Ordered
<1>15. /\ delivered' \in Seq(Seq(Nat)) /\ Len(delivered') = n
       /\ \A i \in 1 .. Len(delivered) : delivered'[i] = delivered[i]
       /\ delivered'[n] = sent[n]
  BY ONLY <1>3, <1>9, <1>11, <1>14, SMTT(30)
<1>16. Ordered'
  <2>1. ASSUME NEW i \in 1 .. n PROVE delivered'[i] = sent[i]
    <3>1. i # n => i \in 1 .. Len(delivered)
      BY ONLY <1>3, <1>14, <2>1, SMTT(30)
    <3> QED  BY ONLY <1>14, <1>15, <3>1
  <2>2. n <= Len(sent)
    BY ONLY <1>3, SMTT(30)
  <2> QED  BY ONLY <1>6, <1>15, <2>1, <2>2 DEF Ordered
<1>17. Linked'
  <2>1. pc' # "deliver"
    BY ONLY <1>7 DEF Continue
  <2> QED  BY ONLY <1>6, <2>1 DEF Linked
<1>18. Between'
  <2>1. Consumed' = Start(n + 1)
    <3>1. Consumed' = Consumed
      BY ONLY <1>6 DEF Consumed
    <3> QED  BY ONLY <1>4, <1>5, <1>9, <3>1
  <2>2. Start(Len(delivered) + 1)' = Start(n + 1)
    BY ONLY <1>6, <1>15 DEF Start
  <2>3. pc' \in {"read", "new_frag"} /\ (pc' = "read" => rbuf = <<>>)
    BY ONLY <1>7 DEF Continue
  <2>4. pc' = "read" => sent[n] # <<>>
    BY ONLY <1>4, <2>3
  <2> QED  BY ONLY <1>6, <1>15, <2>1, <2>2, <2>3, <2>4 DEF Between
<1>19. Len(delivered) < Len(sent)
  BY ONLY <1>3, <1>14, SMTT(30)
<1> QED  BY ONLY <1>3, <1>6, <1>11, <1>12, <1>13, <1>16, <1>17, <1>18, <1>19 DEF OInv

\* What the marker of a record says.
LEMMA MarkerSays ==
  ASSUME NEW hdr, NEW n \in Nat, n <= SizeLimit, \A k \in 1 .. 4 : hdr[k] = Mark(n)[k]
  PROVE  LAST_FRAG(hdr) /\ FRAG_SIZE(hdr) = n
<1> DEFINE high == n \div 16777216
<1>1. high \in Nat /\ high < 128
  BY SMTT(30) DEF SizeLimit
<1>2. 128 + high >= 128 /\ (128 + high) % 128 = high
  <2> HIDE DEF high
  <2> QED  BY <1>1, SMTT(30)
<1>3. high * 16777216 + ((n \div 65536) % 256) * 65536
        + ((n \div 256) % 256) * 256 + (n % 256) = n
  BY SMTT(30)
<1>4. /\ hdr[1] = 128 + high /\ hdr[2] = (n \div 65536) % 256
      /\ hdr[3] = (n \div 256) % 256 /\ hdr[4] = n % 256
  BY SMTT(30) DEF Mark, Marker
<1> QED  BY <1>2, <1>3, <1>4, SMTT(30) DEF LAST_FRAG, FRAG_SIZE

\* update_new_frag_state finds the marker of the record that is next, whole.
LEMMA NewFragKeeps ==
  ASSUME IInv, orderly, OInv, update_new_frag_state
  PROVE  OInv'
<1>1. pc = "new_frag" /\ rs_frag_remaining = -1
  BY DEF update_new_frag_state, IInv, AtMarker
<1>2. Between
  BY <1>1 DEF OInv
<1>3. rbuf # <<>> /\ rbuf \in Seq(Byte) /\ Len(rbuf) \in Nat /\ rpos \in Nat
  BY <1>1, SMTT(30) DEF OInv, Buffered, IInv, Types
<1>4. rpos <= Len(stream) /\ Len(rbuf) <= rpos /\ ~InsideMarker(rpos)
  BY DEF OInv, Buffered
<1>5. /\ Len(sent) \in Nat /\ Len(stream) \in Nat
      /\ \A i \in 1 .. Len(sent) : Len(sent[i]) \in Nat
      /\ \A i \in 1 .. Len(sent) + 1 : Start(i) \in Nat
      /\ \A i \in 1 .. Len(sent) : RecordAt(i)
      /\ Len(stream) = Start(Len(sent) + 1)
  <2>1. Layout
    BY DEF OInv
  <2>2. Len(stream) = Start(Len(sent) + 1)
    BY ONLY <2>1 DEF Layout
  <2> QED  BY ONLY IInv, <2>1, <2>2, LayoutFacts
<1>6. PICK n \in Nat : n = Len(delivered) + 1 /\ n \in 1 .. Len(sent)
  <2>1. Len(delivered) \in Nat /\ Len(delivered) <= Len(sent)
    BY SMTT(30) DEF OInv, Ordered
  <2>2. Len(rbuf) > 0
    BY ONLY <1>3, SMTT(30)
  <2>3. Len(delivered) # Len(sent)
    <3>1. rpos - Len(rbuf) = Start(Len(delivered) + 1)
      BY ONLY <1>2 DEF Between, Consumed
    <3>2. SUFFICES ASSUME Len(delivered) = Len(sent) PROVE FALSE
      OBVIOUS
    <3>3. rpos - Len(rbuf) = Len(stream)
      BY ONLY <1>5, <3>1, <3>2
    <3> QED  BY ONLY <1>3, <1>4, <1>5, <2>2, <3>3, SMTT(30)
  <2>4. Len(delivered) + 1 \in Nat /\ Len(delivered) + 1 \in 1 .. Len(sent)
    BY ONLY <1>5, <2>1, <2>3, SMTT(30)
  <2> QED  BY ONLY <2>4
<1>7. Consumed = Start(n) /\ rs_fh_remaining = 4
  BY ONLY <1>2, <1>6 DEF Between
<1>8. RecordAt(n) /\ Start(n) \in Nat /\ Len(sent[n]) \in Nat
  BY ONLY <1>5, <1>6, SMTT(30)
<1>9. Len(rbuf) >= 4
  <2>1. ~(Start(n) < rpos /\ rpos < Start(n) + 4)
    BY ONLY <1>4, <1>8 DEF InsideMarker, RecordAt
  <2>2. rpos - Len(rbuf) = Start(n)
    BY ONLY <1>7 DEF Consumed
  <2>3. Len(rbuf) > 0
    BY ONLY <1>3, SMTT(30)
  <2> QED  BY ONLY <1>3, <1>8, <2>1, <2>2, <2>3, SMTT(30)
<1>10. /\ UNCHANGED <<stream, marks, ends, sent, rpos, rs_recordsize, rs_frag_list, delivered>>
       /\ rs_fraghdr' = StoreMarker(rs_fraghdr, rbuf, 4)
       /\ rs_frag_bufsz' = FRAG_SIZE(rs_fraghdr')
       /\ rs_last_frag' = LAST_FRAG(rs_fraghdr')
       /\ NewFragment(rs_frag_bufsz')
       /\ rbuf' = SubSeq(rbuf, 5, Len(rbuf))
       /\ pc' = IF rbuf' = <<>> THEN "read" ELSE "copy"
  <2> DEFINE rm_len == IF Len(rbuf) < rs_fh_remaining THEN Len(rbuf) ELSE rs_fh_remaining
  <2>1. rm_len = 4 /\ rs_fh_remaining - rm_len = 0 /\ rm_len + 1 = 5
    BY ONLY <1>3, <1>7, <1>9, SMTT(30)
  <2>2. /\ UNCHANGED <<peerVars, rpos, rs_recordsize, rs_frag_list, delivered>>
        /\ rs_fraghdr' = StoreMarker(rs_fraghdr, rbuf, rm_len)
        /\ rs_fh_remaining' = rs_fh_remaining - rm_len
        /\ \/ rs_fh_remaining' > 0
           \/ /\ rs_frag_bufsz' = FRAG_SIZE(rs_fraghdr')
              /\ rs_last_frag' = LAST_FRAG(rs_fraghdr')
              /\ NewFragment(rs_frag_bufsz')
              /\ rbuf' = SubSeq(rbuf, rm_len + 1, Len(rbuf))
        /\ pc' = IF rbuf' = <<>> THEN "read" ELSE "copy"
    BY DEF update_new_frag_state, AllocFails
  <2> HIDE DEF rm_len
  <2>3. ~(rs_fh_remaining' > 0)
    <3>1. rs_fh_remaining' = 0
      BY ONLY <2>1, <2>2
    <3> QED  BY ONLY <3>1, SMTT(30)
  <2> QED  BY ONLY <2>1, <2>2, <2>3 DEF peerVars
<1>11. LAST_FRAG(rs_fraghdr') /\ FRAG_SIZE(rs_fraghdr') = Len(sent[n])
  <2>1. \A i \in 1 .. 4 : rs_fraghdr'[i] = rbuf[i]
    <3>1. \A i \in 1 .. 4 : i <= 4
      BY SMTT(30)
    <3> QED  BY ONLY <1>10, <3>1 DEF StoreMarker
  <2>2. \A i \in 1 .. 4 : rbuf[i] = stream[Start(n) + i]
    <3>1. \A i \in 1 .. 4 : i \in 1 .. Len(rbuf)
      BY ONLY <1>3, <1>9, SMTT(30)
    <3>2. \A i \in 1 .. Len(rbuf) : rbuf[i] = stream[Consumed + i]
      BY DEF OInv, Buffered
    <3> QED  BY ONLY <1>7, <3>1, <3>2
  <2>3. /\ Len(sent[n]) <= SizeLimit
        /\ \A k \in 1 .. 4 : stream[Start(n) + k] = Mark(Len(sent[n]))[k]
    BY ONLY <1>8 DEF RecordAt
  <2>4. \A k \in 1 .. 4 : rs_fraghdr'[k] = Mark(Len(sent[n]))[k]
    BY ONLY <2>1, <2>2, <2>3
  <2> QED  BY ONLY <1>8, <2>3, <2>4, MarkerSays, ZenonT(60)
<1>12. /\ Len(rbuf') = Len(rbuf) - 4
       /\ \A i \in 1 .. Len(rbuf) - 4 : rbuf'[i] = rbuf[4 + i]
  <2>1. 4 \in 0 .. Len(rbuf)
    BY ONLY <1>3, <1>9, SMTT(30)
  <2>2. /\ Len(SubSeq(rbuf, 5, Len(rbuf))) = Len(rbuf) - 4
        /\ \A i \in 1 .. Len(rbuf) - 4 : SubSeq(rbuf, 5, Len(rbuf))[i] = rbuf[4 + i]
    <3>1. 4 + 1 = 5
      BY SMTT(30)
    <3>2. /\ Len(SubSeq(rbuf, 4 + 1, Len(rbuf))) = Len(rbuf) - 4
          /\ \A i \in 1 .. Len(rbuf) - 4 : SubSeq(rbuf, 4 + 1, Len(rbuf))[i] = rbuf[4 + i]
      BY ONLY <1>3, <2>1, CopyElements, ZenonT(60)
    <3> QED  BY ONLY <3>1, <3>2
  <2> QED  BY ONLY <1>10, <2>2
<1>13. Consumed' = Start(n) + 4
  <2>1. rpos - Len(rbuf) = Start(n) /\ rpos' = rpos
    BY ONLY <1>7, <1>10 DEF Consumed
  <2> QED  BY ONLY <1>3, <1>8, <1>12, <2>1, SMTT(30) DEF Consumed
<1>14. Layout'
  <2>1. UNCHANGED <<stream, marks, ends, sent>> /\ Layout
    BY ONLY <1>10, OInv DEF OInv
  <2> QED  BY ONLY <2>1 DEF Layout, Start, RecordAt
<1>15. Buffered'
  <2>1. rpos' <= Len(stream') /\ Len(rbuf') <= rpos'
    BY ONLY <1>3, <1>4, <1>5, <1>10, <1>12, SMTT(30)
  <2>2. ASSUME NEW i \in 1 .. Len(rbuf') PROVE rbuf'[i] = stream'[Consumed' + i]
    <3>1. i \in 1 .. Len(rbuf) - 4 /\ 4 + i \in 1 .. Len(rbuf)
      BY ONLY <1>3, <1>9, <1>12, <2>2, SMTT(30)
    <3>2. rbuf'[i] = rbuf[4 + i]
      BY ONLY <1>12, <3>1
    <3>3. rbuf[4 + i] = stream[Consumed + (4 + i)]
      BY <3>1 DEF OInv, Buffered
    <3>4. Consumed + (4 + i) = Consumed' + i
      BY ONLY <1>7, <1>8, <1>13, <2>2, SMTT(30)
    <3> QED  BY ONLY <1>10, <3>2, <3>3, <3>4
  <2>3. ~InsideMarker(rpos)'
    BY ONLY <1>4, <1>10 DEF InsideMarker
  <2>4. (pc' = "read" => rbuf' = <<>>) /\ (pc' \in {"copy", "new_frag"} => rbuf' # <<>>)
    BY ONLY <1>10
  <2> QED  BY ONLY <2>1, <2>2, <2>3, <2>4 DEF Buffered
<1>16. Ordered'
  BY <1>10 DEF OInv, Ordered
<1>17. Linked'
  BY <1>1, <1>10 DEF OInv, Linked
<1>18. /\ rs_frag_remaining' = Len(sent[n]) /\ rs_frag_offset' = 0
       /\ rs_frag_bufsz' = Len(sent[n]) /\ rs_last_frag'
  BY ONLY <1>10, <1>11 DEF NewFragment
<1>19. Within'
  <2>1. n <= Len(sent)
    BY ONLY <1>6, SMTT(30)
  <2>2. Consumed' = Start(n) + 4 + rs_frag_offset'
    BY ONLY <1>8, <1>13, <1>18, SMTT(30)
  <2>3. pc' \in {"read", "copy"}
    BY ONLY <1>10
  <2>4. n = Len(delivered') + 1 /\ Start(n)' = Start(n) /\ sent' = sent
    BY ONLY <1>6, <1>10 DEF Start
  <2>5. \A i \in 1 .. rs_frag_offset' : rs_frag_buf_base'[i] = sent[n][i]
    BY ONLY <1>18, SMTT(30)
  <2> QED  BY ONLY <1>18, <2>1, <2>2, <2>3, <2>4, <2>5 DEF Within
<1>20. rs_frag_remaining' # -1
  BY ONLY <1>8, <1>18, SMTT(30)
<1> QED  BY ONLY <1>14, <1>15, <1>16, <1>17, <1>19, <1>20 DEF OInv

\* The connection starts before its first record.
LEMMA InitOInv == Init => (orderly => OInv)
<1> SUFFICES ASSUME Init PROVE OInv
  OBVIOUS
<1>1. Layout
  BY SMTT(30) DEF Init, Layout, Start
<1>2. Buffered
  BY SMTT(30) DEF Init, Buffered, Consumed, InsideMarker
<1>3. Ordered /\ Linked
  BY SMTT(30) DEF Init, Ordered, Linked
<1>4. Between /\ rs_frag_remaining = -1
  <2>1. /\ rs_fh_remaining = 4 /\ rs_frag_remaining = -1 /\ pc = "read"
        /\ rpos = 0 /\ rbuf = <<>> /\ delivered = <<>>
    BY DEF Init
  <2>2. Len(rbuf) = 0 /\ Len(delivered) = 0
    BY ONLY <2>1
  <2>3. rpos - Len(rbuf) = 0 /\ Len(delivered) + 1 = 1 /\ ~(Len(delivered) > 0)
    <3>1. rpos = 0
      BY ONLY <2>1
    <3> QED  BY ONLY <2>2, <3>1, SMTT(30)
  <2> QED  BY ONLY <2>1, <2>3 DEF Between, Consumed, Start
<1> QED  BY <1>1, <1>2, <1>3, <1>4 DEF OInv

\* Every step preserves the invariant of an orderly connection, and a
\* connection that is orderly stays so.
LEMMA NextOInv ==
  IInv /\ (orderly => OInv) /\ [Next]_vars => (orderly => OInv)' /\ orderly' = orderly
<1> SUFFICES ASSUME IInv, orderly => OInv, [Next]_vars
             PROVE  (orderly => OInv)' /\ orderly' = orderly
  OBVIOUS
<1>1. orderly' = orderly
  BY DEF Next, ClientStep, vars, PeerSend, rpc_cb, CopyFragment, update_record_state,
         call_user_cb, update_new_frag_state, peerVars
<1>2. CASE UNCHANGED vars
  <2> USE <1>2 DEF vars, peerVars, rsVars, fragVars
  <2>1. Layout' = Layout
    BY SMTT(30) DEF Layout, Start, RecordAt
  <2>2. Buffered' = Buffered
    BY Zenon DEF Buffered, Consumed, InsideMarker
  <2>3. Ordered' = Ordered /\ Linked' = Linked
    BY Zenon DEF Ordered, Linked
  <2>4. Between' = Between
    BY Zenon DEF Between, Consumed, Start
  <2>5. Within' = Within
    BY Zenon DEF Within, Consumed, Start
  <2>6. rs_frag_remaining' = rs_frag_remaining
    OBVIOUS
  <2>7. OInv => OInv'
    BY ONLY <2>1, <2>2, <2>3, <2>4, <2>5, <2>6, Zenon DEF OInv
  <2>8. orderly' => OInv'
    <3>1. SUFFICES ASSUME orderly' PROVE OInv'
      OBVIOUS
    <3>2. orderly
      BY ONLY <1>1, <3>1
    <3>3. OInv
      BY <3>2
    <3> QED  BY ONLY <2>7, <3>3
  <2> QED  BY ONLY <1>1, <2>8
<1>3. CASE Next
  BY <1>1, <1>3, PeerKeeps, ReadKeeps, CopyKeeps, RecordKeeps, DeliverKeeps, NewFragKeeps
     DEF Next, ClientStep
<1> QED  BY <1>1, <1>2, <1>3

\* If the k-th record, and not the one after it, ends before p, then k end.
LEMMA RecordsBefore ==
  ASSUME IInv, Layout, NEW k \in 0 .. Len(sent), NEW p \in Nat,
         k > 0 => ends[k] <= p, k < Len(sent) => p < ends[k + 1]
  PROVE  Cardinality({i \in 1 .. Len(ends) : ends[i] <= p}) = k
<1>1. /\ Len(sent) \in Nat /\ Len(ends) = Len(sent)
      /\ \A i \in 1 .. Len(sent) : ends[i] \in Nat
  BY ONLY IInv, Layout, LayoutFacts
<1>2. \A i, j \in 1 .. Len(ends) : i <= j => ends[i] <= ends[j]
  BY DEF Layout
<1>3. ASSUME NEW i \in 1 .. Len(sent) PROVE ends[i] <= p <=> i <= k
  <2>1. CASE i <= k
    <3>1. k > 0 /\ k \in 1 .. Len(sent)
      BY ONLY <1>1, <1>3, <2>1, k \in 0 .. Len(sent), SMTT(30)
    <3>2. ends[i] <= ends[k] /\ ends[k] <= p /\ ends[i] \in Nat /\ ends[k] \in Nat
      BY <1>1, <1>2, <1>3, <2>1, <3>1
    <3> QED  BY ONLY <2>1, <3>2, p \in Nat, SMTT(30)
  <2>2. CASE ~(i <= k)
    <3>1. k < Len(sent) /\ k + 1 \in 1 .. Len(sent) /\ k + 1 <= i
      BY ONLY <1>1, <1>3, <2>2, k \in 0 .. Len(sent), SMTT(30)
    <3>2. ends[k + 1] <= ends[i] /\ p < ends[k + 1] /\ ends[i] \in Nat /\ ends[k + 1] \in Nat
      BY <1>1, <1>2, <1>3, <3>1
    <3> QED  BY ONLY <2>2, <3>2, p \in Nat, SMTT(30)
  <2> QED  BY ONLY <2>1, <2>2
<1>4. {i \in 1 .. Len(ends) : ends[i] <= p} = 1 .. k
  <2>1. {i \in 1 .. Len(sent) : i <= k} = 1 .. k
    BY ONLY <1>1, k \in 0 .. Len(sent), SMTT(30)
  <2>2. {i \in 1 .. Len(ends) : ends[i] <= p} = {i \in 1 .. Len(sent) : i <= k}
    BY ONLY <1>1, <1>3
  <2> QED  BY ONLY <2>1, <2>2
<1>5. Cardinality(1 .. k) = IF 1 > k THEN 0 ELSE k - 1 + 1
  <2>1. 1 \in Int /\ k \in Int
    BY ONLY <1>1, k \in 0 .. Len(sent), SMTT(30)
  <2> QED  BY ONLY <2>1, FS_Interval
<1>6. (IF 1 > k THEN 0 ELSE k - 1 + 1) = k
  BY ONLY <1>1, k \in 0 .. Len(sent), SMTT(30)
<1> QED  BY ONLY <1>4, <1>5, <1>6, ZenonT(60)

\* The invariant of an orderly connection implies what is due after a read().
LEMMA OInvPrompt == IInv /\ (orderly => OInv) => PromptDelivery
<1> SUFFICES ASSUME IInv, OInv, pc = "read" PROVE PromptDelivery
  BY DEF PromptDelivery
<1> DEFINE before == Cardinality({i \in 1 .. Len(ends) : ends[i] <= rpos})
<1>1. PICK d \in Nat : d = Len(delivered) /\ d \in 0 .. Len(sent)
  <2>1. Len(delivered) \in Nat /\ Len(delivered) <= Len(sent) /\ Len(sent) \in Nat
    BY SMTT(30) DEF OInv, Ordered, Layout
  <2>2. Len(delivered) \in 0 .. Len(sent)
    BY ONLY <2>1, SMTT(30)
  <2> QED  BY ONLY <2>1, <2>2
<1>2. Consumed = rpos /\ rpos \in Nat
  <2>1. rbuf = <<>> /\ rpos \in Nat
    BY DEF OInv, Buffered, IInv, Types
  <2>2. Len(rbuf) = 0
    BY ONLY <2>1
  <2> QED  BY ONLY <2>1, <2>2, SMTT(30) DEF Consumed
<1>3. Layout
  BY DEF OInv
<1>4. /\ Len(sent) \in Nat
      /\ \A i \in 1 .. Len(sent) : ends[i] \in Nat /\ sent[i] \in Seq(Nat) /\ Len(sent[i]) \in Nat
      /\ \A i \in 1 .. Len(sent) + 1 : Start(i) \in Nat
      /\ \A i \in 1 .. Len(sent) : Start(i + 1) = ends[i] /\ ends[i] = Start(i) + 4 + Len(sent[i])
  BY ONLY IInv, <1>3, LayoutFacts, SMTT(30)
<1>5. d > 0 => d \in 1 .. Len(sent) /\ Start(d + 1) = ends[d]
  BY ONLY <1>1, <1>4, SMTT(30)
<1>6. d < Len(sent) =>
        d + 1 \in 1 .. Len(sent) /\ ends[d + 1] = Start(d + 1) + 4 + Len(sent[d + 1])
  BY ONLY <1>1, <1>4, SMTT(30)
<1>7. Start(d + 1) \in Nat
  BY ONLY <1>1, <1>4, SMTT(30)
<1>8. CASE rs_frag_remaining = -1
  <2>1. rpos = Start(d + 1) /\ (d > 0 => sent[d] # <<>>)
    BY <1>1, <1>2, <1>8 DEF OInv, Between
  <2>2. (d > 0 => ends[d] <= rpos) /\ (d < Len(sent) => rpos < ends[d + 1])
    BY ONLY <1>2, <1>4, <1>5, <1>6, <1>7, <2>1, SMTT(30)
  <2>3. before = d
    BY ONLY IInv, <1>1, <1>2, <1>3, <2>2, RecordsBefore
  <2> QED  BY ONLY <1>1, <2>1, <2>3 DEF PromptDelivery
<1>9. CASE rs_frag_remaining # -1
  <2>1. /\ d + 1 <= Len(sent) /\ rs_frag_bufsz = Len(sent[d + 1])
        /\ rpos = Start(d + 1) + 4 + rs_frag_offset
        /\ rs_frag_remaining = 0 => rs_frag_bufsz = 0
    BY <1>1, <1>2, <1>9 DEF OInv, Within
  <2>2. /\ rs_frag_remaining \in Nat /\ rs_frag_offset \in Nat
        /\ rs_frag_offset + rs_frag_remaining = rs_frag_bufsz
    BY <1>9, SMTT(30) DEF IInv, Types, CopyInBounds
  <2>3. d < Len(sent)
    BY ONLY <1>1, <1>4, <2>1, SMTT(30)
  <2>4. CASE rs_frag_remaining = 0
    <3>1. Len(sent[d + 1]) = 0 /\ rpos = ends[d + 1]
      BY ONLY <1>6, <1>7, <2>1, <2>2, <2>3, <2>4, SMTT(30)
    <3>2. d + 1 \in 0 .. Len(sent) /\ d + 1 > 0 /\ (d + 1) - 1 = d
      BY ONLY <1>1, <1>4, <2>3, SMTT(30)
    <3>3. sent[d + 1] = <<>>
      <4>1. sent[d + 1] \in Seq(Nat)
        BY ONLY <1>4, <1>6, <2>3
      <4> QED  BY ONLY <3>1, <4>1, SMTT(30)
    <3>4. d + 1 < Len(sent) => rpos < ends[(d + 1) + 1]
      <4>1. SUFFICES ASSUME d + 1 < Len(sent) PROVE rpos < ends[(d + 1) + 1]
        OBVIOUS
      <4>2. d + 1 \in 1 .. Len(sent) /\ (d + 1) + 1 \in 1 .. Len(sent)
        BY ONLY <1>1, <1>4, <4>1, SMTT(30)
      <4>3. /\ Start((d + 1) + 1) = ends[d + 1] /\ ends[d + 1] \in Nat
            /\ ends[(d + 1) + 1] = Start((d + 1) + 1) + 4 + Len(sent[(d + 1) + 1])
            /\ Len(sent[(d + 1) + 1]) \in Nat
        BY ONLY <1>4, <4>2
      <4> QED  BY ONLY <3>1, <4>3, SMTT(30)
    <3>5. ends[d + 1] <= rpos
      BY ONLY <1>2, <3>1, SMTT(30)
    <3>6. before = d + 1
      BY ONLY IInv, <1>2, <1>3, <3>2, <3>4, <3>5, RecordsBefore
    <3> QED  BY ONLY <1>1, <3>1, <3>2, <3>3, <3>6 DEF PromptDelivery
  <2>5. CASE rs_frag_remaining # 0
    <3>1. rpos < ends[d + 1]
      BY ONLY <1>6, <1>7, <2>1, <2>2, <2>3, <2>5, SMTT(30)
    <3>2. d > 0 => ends[d] < rpos /\ ends[d] \in Nat
      BY ONLY <1>4, <1>5, <1>7, <2>1, <2>2, SMTT(30)
    <3>3. d > 0 => ends[d] <= rpos /\ ends[d] # rpos
      BY ONLY <1>2, <3>2, SMTT(30)
    <3>4. before = d
      BY ONLY IInv, <1>1, <1>2, <1>3, <3>1, <3>3, RecordsBefore
    <3> QED  BY ONLY <1>1, <3>3, <3>4 DEF PromptDelivery
  <2> QED  BY ONLY <2>4, <2>5
<1> QED  BY ONLY <1>8, <1>9

\* A record is handed over by the read() that returns its last byte, whatever
\* the sizes of the records and of the read buffer.
THEOREM PromptDeliveryHolds == Spec => []PromptDelivery
BY InitIInv, NextIInv, InitOInv, NextOInv, OInvPrompt, PTL DEF Spec

\* What a sequence was before an element came to its end.
LEMMA AppendPrefix ==
  ASSUME NEW S, NEW s \in Seq(S), NEW e \in S
  PROVE  Len(s) <= Len(Append(s, e)) /\ s = SubSeq(Append(s, e), 1, Len(s))
BY SMTT(30)

\* A prefix with the element that follows it is a prefix.
LEMMA PrefixNext ==
  ASSUME NEW S, NEW s \in Seq(S), NEW t \in Seq(S), Len(s) < Len(t),
         \A i \in 1 .. Len(s) : s[i] = t[i]
  PROVE  LET u == Append(s, t[Len(s) + 1]) IN
         Len(s) <= Len(u) /\ Len(u) <= Len(t) /\ u = SubSeq(t, 1, Len(u))
<1>1. t[Len(s) + 1] \in S
  BY SMTT(30)
<1>2. PICK u \in Seq(S) :
        /\ u = Append(s, t[Len(s) + 1]) /\ Len(u) = Len(s) + 1
        /\ \A i \in 1 .. Len(u) : u[i] = t[i]
  <2>1. /\ Append(s, t[Len(s) + 1]) \in Seq(S)
        /\ Len(Append(s, t[Len(s) + 1])) = Len(s) + 1
        /\ \A i \in 1 .. Len(s) + 1 : Append(s, t[Len(s) + 1])[i] = t[i]
    BY <1>1, SMTT(30)
  <2> QED  BY ONLY <2>1, ZenonT(60)
<1>3. Len(s) <= Len(u) /\ Len(u) <= Len(t)
  BY <1>2, SMTT(30)
<1>4. u = SubSeq(t, 1, Len(u))
  BY ONLY <1>2, <1>3, t \in Seq(S), SMTT(30)
<1> QED  BY ONLY <1>2, <1>3, <1>4

\* A step of an orderly connection is one of a first-in-first-out queue.
LEMMA OrderlyFifo ==
  ASSUME IInv, orderly, OInv, Next, orderly' = orderly
  PROVE  F!Put \/ F!Get \/ UNCHANGED <<sent, delivered>>
<1>1. ASSUME NEW shape \in Shapes, PeerSend(shape) PROVE F!Put
  <2>1. sent \in Seq(Seq(Nat)) /\ Len(sent) \in Nat
    BY SMTT(30) DEF OInv, Layout
  <2>2. PICK payload \in Seq(Nat) : sent' = Append(sent, payload)
    BY <1>1, <2>1, PeerAdds
  <2>3. Len(sent) <= Len(sent') /\ sent = SubSeq(sent', 1, Len(sent))
    BY ONLY <2>1, <2>2, AppendPrefix
  <2>4. delivered' = delivered
    BY <1>1 DEF PeerSend
  <2> QED  BY ONLY <2>3, <2>4, orderly, orderly' = orderly DEF F!Put
<1>2. ASSUME call_user_cb PROVE F!Get
  <2>1. /\ Len(delivered) < Len(sent)
        /\ delivered' = Append(delivered, sent[Len(delivered) + 1])
    BY <1>2, DeliverKeeps
  <2>2. /\ sent \in Seq(Seq(Nat)) /\ delivered \in Seq(Seq(Nat))
        /\ \A i \in 1 .. Len(delivered) : delivered[i] = sent[i]
    BY DEF OInv, Layout, Ordered
  <2>3. /\ Len(delivered) <= Len(delivered') /\ Len(delivered') <= Len(sent)
        /\ delivered' = SubSeq(sent, 1, Len(delivered'))
    BY ONLY <2>1, <2>2, PrefixNext, SMTT(30)
  <2>4. sent' = sent
    BY <1>2 DEF call_user_cb, peerVars
  <2> QED  BY ONLY <2>3, <2>4, orderly, orderly' = orderly DEF F!Get
<1>3. ASSUME \/ \E k \in 1 .. ct_rbufsz : rpc_cb(k)
             \/ CopyFragment \/ update_record_state \/ update_new_frag_state
      PROVE  UNCHANGED <<sent, delivered>>
  BY <1>3 DEF rpc_cb, CopyFragment, update_record_state, update_new_frag_state, peerVars
<1> QED  BY <1>1, <1>2, <1>3 DEF Next, ClientStep

\* The messages that reach the decoder on an orderly connection are the
\* records of the peer, whole and in order: the record stream implements a
\* first-in-first-out queue, however many records there are, whatever their
\* sizes and wherever a read() ends.
THEOREM RecordImplementsFifo == Spec => ImplementsFifo
<1>1. Init => F!Init
  BY DEF Init, F!Init
<1>2. ASSUME IInv, orderly => OInv, [Next]_vars
      PROVE  [F!Next]_<<IF orderly THEN sent ELSE <<>>, IF orderly THEN delivered ELSE <<>>>>
  <2>1. orderly' = orderly
    BY <1>2, NextOInv
  <2>2. CASE ~orderly
    BY <2>1, <2>2
  <2>3. CASE orderly /\ UNCHANGED vars
    BY <2>1, <2>3, SMTT(30) DEF vars, peerVars
  <2>4. CASE orderly /\ Next
    <3>1. F!Put \/ F!Get \/ UNCHANGED <<sent, delivered>>
      BY <1>2, <2>1, <2>4, OrderlyFifo
    <3> QED  BY <2>1, <2>4, <3>1 DEF F!Next
  <2> QED  BY <1>2, <2>2, <2>3, <2>4
<1> QED  BY <1>1, <1>2, InitIInv, NextIInv, InitOInv, NextOInv, PTL
         DEF Spec, ImplementsFifo, F!Spec
=============================================================================
