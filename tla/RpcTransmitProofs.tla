------------------------- MODULE RpcTransmitProofs --------------------------
(***************************************************************************)
(* Proofs about RpcTransmit for any buffer sizes, any socket buffer and    *)
(* any number of bytes.  The inductive invariant adds to TypeOK and Tiling *)
(* that the wire carries byte i at position i, and that no buffer goes     *)
(* beyond the bytes given.                                                 *)
(***************************************************************************)
EXTENDS RpcTransmit, TLAPS

\* The default prover; a leaf that takes arithmetic cites the SMT solver.
USE ZenonT(60)

Buffer == [fb_current : Nat \ {0}, fb_len : Nat \ {0}]

InOrder == \A i \in 1 .. Len(wire) : wire[i] = i

InRange ==
  \A i \in 1 .. Len(ct_sndlist) :
    ct_sndlist[i].fb_current + ct_sndlist[i].fb_len <= given + 1

IInv == TypeOK /\ Tiling /\ InOrder /\ InRange

\* In the state clnttcp_b_create sets up the invariant holds.
LEMMA InitIInv == Init => IInv
BY SizesAssumption, SMTT(30)
DEF SizesAssumption, Init, IInv, TypeOK, Tiling, InOrder, InRange, Space

\* What the invariant says of the first pending buffer.
LEMMA FirstBuffer ==
  ASSUME IInv, ct_sndlist # <<>>
  PROVE  /\ ct_sndlist \in Seq(Buffer) /\ Len(ct_sndlist) \in Nat \ {0}
         /\ ct_sndlist[1] \in Buffer
         /\ ct_sndlist[1].fb_current \in Nat \ {0}
         /\ ct_sndlist[1].fb_len \in Nat \ {0}
         /\ ct_sndlist[1].fb_current = ct_datatx + 1
         /\ ct_sndlist[1].fb_current + ct_sndlist[1].fb_len <= given + 1
         /\ ct_datatx \in Nat /\ given \in Nat /\ wire \in Seq(Nat)
         /\ ct_datatx = Len(wire)
<1>1. /\ ct_sndlist \in Seq(Buffer)
      /\ ct_datatx \in Nat /\ given \in Nat /\ wire \in Seq(Nat)
  BY DEF IInv, TypeOK, Buffer
<1>2. Len(ct_sndlist) \in Nat \ {0} /\ ct_sndlist[1] \in Buffer
  BY ONLY <1>1, ct_sndlist # <<>>, SMTT(30)
<1>3. ct_sndlist[1].fb_current \in Nat \ {0} /\ ct_sndlist[1].fb_len \in Nat \ {0}
  BY ONLY <1>2 DEF Buffer
<1>4. 1 \in 1 .. Len(ct_sndlist)
  BY <1>2, SMTT(30)
<1> QED  BY <1>1, <1>2, <1>3, <1>4 DEF IInv, Tiling, InRange

\* add_buffer_list extends the tiling at its end.
LEMMA GiveStep ==
  ASSUME IInv, NEW n \in Sizes, writetcp_nb(n) PROVE IInv'
<1> USE SizesAssumption DEF SizesAssumption, IInv
<1>1. /\ ct_sndlist' = Append(ct_sndlist,
                              [fb_current |-> given + 1, fb_len |-> n])
      /\ given' = given + n /\ flag' = "nonblock"
      /\ UNCHANGED <<ct_sockflags, ct_datatx, wire, peer>>
  BY DEF writetcp_nb
<1>2. /\ n \in Nat \ {0} /\ given \in Nat
      /\ given + n \in Nat /\ given + 1 \in Nat \ {0}
  BY SMTT(30) DEF TypeOK
<1>3. ct_sndlist \in Seq(Buffer) /\ Len(ct_sndlist) \in Nat
  BY SMTT(30) DEF TypeOK, Buffer
<1>4. [fb_current |-> given + 1, fb_len |-> n] \in Buffer
  BY <1>2 DEF Buffer
<1>5. ct_sndlist' \in Seq(Buffer) /\ ct_sndlist' # <<>>
  BY <1>1, <1>3, <1>4, SMTT(30)
<1>6. /\ pc' \in {"idle", "select", "write"} /\ ret' \in {0, -1}
  BY DEF writetcp_nb, Iterate, TypeOK
<1>7. TypeOK'
  BY <1>1, <1>2, <1>5, <1>6 DEF TypeOK, Space, Buffer
<1>8. Tiling'
  <2>1. ct_datatx' = Len(wire')
    BY <1>1 DEF Tiling
  <2> SUFFICES ASSUME NEW i \in 1 .. Len(ct_sndlist')
               PROVE  /\ i = 1 => ct_sndlist'[i].fb_current = ct_datatx' + 1
                      /\ ct_sndlist'[i].fb_current + ct_sndlist'[i].fb_len =
                           IF i = Len(ct_sndlist') THEN given' + 1
                           ELSE ct_sndlist'[i + 1].fb_current
    BY <1>5, <2>1 DEF Tiling
  <2>2. Len(ct_sndlist') = Len(ct_sndlist) + 1
    BY <1>1, <1>3, SMTT(30)
  <2>3. CASE i = Len(ct_sndlist')
    <3>1. ct_sndlist'[i] = [fb_current |-> given + 1, fb_len |-> n]
      BY <1>1, <1>3, <2>2, <2>3, SMTT(30)
    <3>2. i = 1 => given = ct_datatx
      BY <1>3, <2>2, <2>3, SMTT(30) DEF Tiling
    <3> QED  BY <1>1, <1>2, <2>3, <3>1, <3>2, SMTT(30) DEF TypeOK
  <2>4. CASE i < Len(ct_sndlist')
    <3>1. i \in 1 .. Len(ct_sndlist) /\ ct_sndlist'[i] = ct_sndlist[i]
      BY <1>1, <1>3, <2>2, <2>4, SMTT(30)
    <3>2. i = Len(ct_sndlist) => ct_sndlist'[i + 1].fb_current = given + 1
      BY <1>1, <1>3, <2>2, SMTT(30)
    <3>3. i # Len(ct_sndlist) => ct_sndlist'[i + 1] = ct_sndlist[i + 1]
      BY <1>1, <1>3, <3>1, SMTT(30)
    <3> QED  BY <1>1, <2>4, <3>1, <3>2, <3>3, SMTT(30) DEF Tiling
  <2> QED  BY <2>2, <2>3, <2>4, <1>3, SMTT(30)
<1>9. InOrder'
  BY <1>1 DEF InOrder
<1>10. InRange'
  <2> SUFFICES ASSUME NEW i \in 1 .. Len(ct_sndlist')
               PROVE  ct_sndlist'[i].fb_current + ct_sndlist'[i].fb_len
                        <= given' + 1
    BY DEF InRange
  <2>1. Len(ct_sndlist') = Len(ct_sndlist) + 1
    BY <1>1, <1>3, SMTT(30)
  <2>2. CASE i = Len(ct_sndlist) + 1
    <3>1. ct_sndlist'[i] = [fb_current |-> given + 1, fb_len |-> n]
      BY <1>1, <1>3, <2>2, SMTT(30)
    <3>2. given' = given + n
      BY <1>1
    <3> QED  BY ONLY <1>2, <3>1, <3>2, SMTT(30)
  <2>3. CASE i \in 1 .. Len(ct_sndlist)
    <3>1. ct_sndlist'[i] = ct_sndlist[i] /\ ct_sndlist[i] \in Buffer
      BY <1>1, <1>3, <2>3, SMTT(30)
    <3>2. ct_sndlist[i].fb_current + ct_sndlist[i].fb_len <= given + 1
      BY <2>3 DEF InRange
    <3>3. ct_sndlist[i].fb_current \in Nat /\ ct_sndlist[i].fb_len \in Nat
      BY ONLY <3>1 DEF Buffer
    <3>4. given' = given + n
      BY <1>1
    <3> QED  BY ONLY <1>2, <3>1, <3>2, <3>3, <3>4, SMTT(30)
  <2> QED  BY <1>3, <2>1, <2>2, <2>3, SMTT(30)
<1> QED  BY <1>7, <1>8, <1>9, <1>10

\* Bytes written from the start of the first buffer continue the wire.
LEMMA WireStep ==
  ASSUME IInv, ct_sndlist # <<>>, NEW n \in Nat \ {0}, Transmit(n)
  PROVE  /\ InOrder'
         /\ wire' \in Seq(Nat) /\ Len(wire') = Len(wire) + n
         /\ ct_datatx' = ct_datatx + n
<1> DEFINE b == Bytes(ct_datatx + 1, n)
<1>1. wire \in Seq(Nat) /\ ct_datatx \in Nat /\ ct_datatx = Len(wire)
  BY FirstBuffer
<1>2. ct_sndlist[1].fb_current = ct_datatx + 1
  BY FirstBuffer
<1>3. wire' = wire \o b /\ ct_datatx' = ct_datatx + n
  BY <1>2 DEF Transmit
<1>4. \A i \in 1 .. n : b[i] = ct_datatx + i
  BY <1>1, SMTT(30) DEF Bytes
<1>4b. b \in Seq(Nat) /\ Len(b) = n
  BY <1>1, SMTT(30) DEF Bytes
<1> HIDE DEF b
<1>5. wire' \in Seq(Nat) /\ Len(wire') = Len(wire) + n
  <2>1. wire \o b \in Seq(Nat) /\ Len(wire \o b) = Len(wire) + Len(b)
    BY ONLY <1>1, <1>4b, SMTT(30)
  <2> QED  BY ONLY <1>3, <1>4b, <2>1
<1>6. ASSUME NEW i \in 1 .. Len(wire') PROVE wire'[i] = i
  <2>1. CASE i <= Len(wire)
    BY <1>1, <1>3, <1>4b, <2>1, SMTT(30) DEF IInv, InOrder
  <2>2. CASE i > Len(wire)
    <3>1. wire'[i] = b[i - Len(wire)] /\ i - Len(wire) \in 1 .. n
      BY <1>1, <1>3, <1>4b, <1>5, <2>2, SMTT(30)
    <3> QED  BY <1>1, <1>4, <3>1, SMTT(30)
  <2> QED  BY <1>1, <1>5, <2>1, <2>2, SMTT(30)
<1> QED  BY <1>3, <1>5, <1>6 DEF InOrder

\* The kernel takes no more than it has room for.
LEMMA RoomStep ==
  ASSUME IInv, ct_sndlist # <<>>,
         NEW n \in Writable(ct_sndlist[1].fb_len), Transmit(n),
         UNCHANGED ct_sockflags
  PROVE  n \in Nat \ {0} /\ peer' \in 0 .. Len(wire') /\ Space' \in 0 .. SockSpace
<1> USE SizesAssumption DEF SizesAssumption, IInv, TypeOK
<1>1. ct_sndlist[1].fb_len \in Nat \ {0}
  BY FirstBuffer
<1>2. n \in Nat \ {0}
  BY <1>1, SMTT(30) DEF Writable
<1>3. Len(wire') = Len(wire) + n /\ Len(wire) \in Nat
  BY <1>2, WireStep, SMTT(30)
<1>4. CASE is_blocking(ct_sockflags)
  BY <1>2, <1>3, <1>4, SMTT(30) DEF Transmit, Space
<1>5. CASE ~is_blocking(ct_sockflags)
  <2>1. peer' = peer /\ n <= Space
    BY <1>5 DEF Transmit, Writable
  <2> QED  BY <1>2, <1>3, <2>1, SMTT(30) DEF Space
<1> QED  BY <1>2, <1>4, <1>5

\* Unlinking the first buffer after all of it was written keeps the tiling.
LEMMA WriteAllStep == ASSUME IInv, WriteAll PROVE IInv'
<1> DEFINE buf == ct_sndlist[1]
           n == buf.fb_len
<1>1. /\ ct_sndlist # <<>> /\ n \in Writable(n) /\ Transmit(n)
      /\ ct_sndlist' = Tail(ct_sndlist)
      /\ UNCHANGED <<ct_sockflags, given, flag>>
  BY DEF WriteAll, IInv, TypeOK
<1>2. /\ n \in Nat \ {0}
      /\ peer' \in 0 .. Len(wire') /\ Space' \in 0 .. SockSpace
  BY <1>1, RoomStep
<1>3. /\ InOrder' /\ wire' \in Seq(Nat) /\ Len(wire') = Len(wire) + n
      /\ ct_datatx' = ct_datatx + n
  BY <1>1, <1>2, WireStep
<1>4. /\ ct_sndlist \in Seq(Buffer) /\ Len(ct_sndlist) \in Nat \ {0}
      /\ ct_datatx \in Nat /\ ct_datatx = Len(wire) /\ given \in Nat
      /\ buf.fb_current = ct_datatx + 1
  BY <1>1, FirstBuffer
<1>5. /\ ct_sndlist' \in Seq(Buffer) /\ Len(ct_sndlist') = Len(ct_sndlist) - 1
      /\ \A i \in 1 .. Len(ct_sndlist') : ct_sndlist'[i] = ct_sndlist[i + 1]
  BY <1>1, <1>4, SMTT(30)
<1>6. /\ pc' \in {"idle", "select", "write"} /\ ret' \in {0, -1}
      /\ pc' # "idle" => ct_sndlist' # <<>>
  BY DEF WriteAll, Iterate, IInv, TypeOK
<1>7. ct_datatx' \in Nat
  BY <1>2, <1>3, <1>4, SMTT(30)
<1> HIDE DEF n, buf
<1>8. TypeOK'
  <2>1. ct_sndlist' \in Seq([fb_current : Nat \ {0}, fb_len : Nat \ {0}])
    BY <1>5 DEF Buffer
  <2>2. /\ ct_sockflags' \in {"block", "nonblock"} /\ given' \in Nat
        /\ flag' \in {"block", "nonblock"}
    BY <1>1 DEF IInv, TypeOK
  <2> QED  BY <1>2, <1>3, <1>6, <1>7, <2>1, <2>2 DEF TypeOK
<1>9. ct_sndlist[1].fb_current + ct_sndlist[1].fb_len = ct_datatx' + 1
  <2>1. /\ ct_sndlist[1].fb_current = ct_datatx + 1
        /\ ct_datatx' = ct_datatx + ct_sndlist[1].fb_len
    BY ONLY <1>3, <1>4 DEF n, buf
  <2>2. ct_datatx \in Nat /\ ct_sndlist[1].fb_len \in Nat
    BY ONLY <1>2, <1>4 DEF n, buf
  <2> QED  BY ONLY <2>1, <2>2, SMTT(30)
<1>10. Tiling'
  <2>1. ct_datatx' = Len(wire')
    BY <1>3, <1>4
  <2>2. ct_sndlist' = <<>> => given' = ct_datatx'
    <3> SUFFICES ASSUME ct_sndlist' = <<>> PROVE given' = ct_datatx'
      OBVIOUS
    <3>1. Len(ct_sndlist) = 1
      BY <1>4, <1>5, SMTT(30)
    <3>2. given = ct_datatx'
      BY <1>4, <1>7, <1>9, <3>1, SMTT(30) DEF IInv, Tiling
    <3> QED  BY <1>1, <3>2
  <2> SUFFICES ASSUME NEW i \in 1 .. Len(ct_sndlist')
               PROVE  /\ i = 1 => ct_sndlist'[i].fb_current = ct_datatx' + 1
                      /\ ct_sndlist'[i].fb_current + ct_sndlist'[i].fb_len =
                           IF i = Len(ct_sndlist') THEN given' + 1
                           ELSE ct_sndlist'[i + 1].fb_current
    BY <2>1, <2>2 DEF Tiling
  <2>3. i \in Nat \ {0} /\ i + 1 \in 1 .. Len(ct_sndlist)
    BY <1>4, <1>5, SMTT(30)
  <2>4. i = 1 => ct_sndlist[2].fb_current = ct_datatx' + 1
    BY <1>4, <1>9, <2>3, SMTT(30) DEF IInv, Tiling
  <2>5. i # Len(ct_sndlist') => ct_sndlist'[i + 1] = ct_sndlist[i + 2]
    BY <1>4, <1>5, SMTT(30)
  <2>6. ct_sndlist[i + 1].fb_current + ct_sndlist[i + 1].fb_len =
          IF i + 1 = Len(ct_sndlist) THEN given + 1
          ELSE ct_sndlist[i + 2].fb_current
    BY <2>3, SMTT(30) DEF IInv, Tiling
  <2>7. ct_sndlist'[i] = ct_sndlist[i + 1] /\ given' = given
    BY <1>1, <1>5
  <2>8. i + 1 = Len(ct_sndlist) <=> i = Len(ct_sndlist')
    BY <1>4, <1>5, <2>3, SMTT(30)
  <2> QED  BY ONLY <2>4, <2>5, <2>6, <2>7, <2>8, SMTT(30)
<1>11. InRange'
  <2> SUFFICES ASSUME NEW i \in 1 .. Len(ct_sndlist')
               PROVE  ct_sndlist'[i].fb_current + ct_sndlist'[i].fb_len
                        <= given' + 1
    BY DEF InRange
  <2>1. i + 1 \in 1 .. Len(ct_sndlist) /\ ct_sndlist'[i] = ct_sndlist[i + 1]
    BY <1>4, <1>5, SMTT(30)
  <2> QED  BY <1>1, <2>1 DEF IInv, InRange
<1> QED  BY <1>3, <1>8, <1>10, <1>11 DEF IInv

\* After a short write the first buffer begins at the first unsent byte.
LEMMA WritePartStep == ASSUME IInv, NEW n, WritePart(n) PROVE IInv'
<1> DEFINE buf == ct_sndlist[1]
           rest == [fb_current |-> buf.fb_current + n, fb_len |-> buf.fb_len - n]
<1>1. /\ ct_sndlist # <<>> /\ n \in Writable(buf.fb_len) /\ n < buf.fb_len
      /\ Transmit(n) /\ ct_sndlist' = [ct_sndlist EXCEPT ![1] = rest]
      /\ UNCHANGED <<ct_sockflags, given, flag>>
  BY DEF WritePart, IInv, TypeOK
<1>2. /\ n \in Nat \ {0}
      /\ peer' \in 0 .. Len(wire') /\ Space' \in 0 .. SockSpace
  BY <1>1, RoomStep
<1>3. /\ InOrder' /\ wire' \in Seq(Nat) /\ Len(wire') = Len(wire) + n
      /\ ct_datatx' = ct_datatx + n
  BY <1>1, <1>2, WireStep
<1>4. /\ ct_sndlist \in Seq(Buffer) /\ Len(ct_sndlist) \in Nat \ {0}
      /\ ct_datatx \in Nat /\ ct_datatx = Len(wire) /\ given \in Nat
      /\ buf.fb_current \in Nat \ {0} /\ buf.fb_len \in Nat \ {0}
      /\ buf.fb_current = ct_datatx + 1
      /\ buf.fb_current + buf.fb_len <= given + 1
  BY <1>1, FirstBuffer
<1>5. /\ rest.fb_current = ct_datatx' + 1 /\ rest \in Buffer
      /\ rest.fb_current + rest.fb_len = buf.fb_current + buf.fb_len
  <2> HIDE DEF buf
  <2>1. n < buf.fb_len
    BY <1>1
  <2>2. n \in Nat \ {0} /\ ct_datatx \in Nat /\ ct_datatx' = ct_datatx + n
    BY <1>2, <1>3, <1>4
  <2>3. /\ buf.fb_current \in Nat \ {0} /\ buf.fb_len \in Nat \ {0}
        /\ buf.fb_current = ct_datatx + 1
    BY <1>4
  <2> QED  BY ONLY <2>1, <2>2, <2>3, SMTT(30) DEF Buffer, rest
<1>6. /\ ct_sndlist' \in Seq(Buffer) /\ Len(ct_sndlist') = Len(ct_sndlist)
      /\ ct_sndlist'[1] = rest
      /\ \A i \in 2 .. Len(ct_sndlist) : ct_sndlist'[i] = ct_sndlist[i]
  <2> HIDE DEF rest, buf
  <2> QED  BY <1>1, <1>4, <1>5, SMTT(30)
<1>7. pc' \in {"idle", "select", "write"} /\ ret' \in {0, -1}
  BY DEF WritePart, BlockOrReturn, Return, IInv, TypeOK
<1>8. ct_sndlist' # <<>>
  BY <1>4, <1>6
<1> HIDE DEF rest, buf
<1>9. TypeOK'
  <2>1. ct_sndlist' \in Seq([fb_current : Nat \ {0}, fb_len : Nat \ {0}])
    BY <1>6 DEF Buffer
  <2>2. /\ ct_sockflags' \in {"block", "nonblock"} /\ given' \in Nat
        /\ flag' \in {"block", "nonblock"} /\ ct_datatx' \in Nat
    BY <1>1, <1>2, <1>3, <1>4, SMTT(30) DEF IInv, TypeOK
  <2> QED  BY <1>2, <1>3, <1>7, <1>8, <2>1, <2>2 DEF TypeOK
<1>10. Tiling'
  <2>1. ct_datatx' = Len(wire')
    BY <1>3, <1>4
  <2> SUFFICES ASSUME NEW i \in 1 .. Len(ct_sndlist')
               PROVE  /\ i = 1 => ct_sndlist'[i].fb_current = ct_datatx' + 1
                      /\ ct_sndlist'[i].fb_current + ct_sndlist'[i].fb_len =
                           IF i = Len(ct_sndlist') THEN given' + 1
                           ELSE ct_sndlist'[i + 1].fb_current
    BY <1>8, <2>1 DEF Tiling
  <2>2. ASSUME i # Len(ct_sndlist')
        PROVE  ct_sndlist'[i + 1] = ct_sndlist[i + 1]
    <3>1. Len(ct_sndlist') = Len(ct_sndlist) /\ Len(ct_sndlist) \in Nat
      BY <1>4, <1>6
    <3>2. i + 1 \in 2 .. Len(ct_sndlist)
      BY ONLY <2>2, <3>1, i \in 1 .. Len(ct_sndlist'), SMTT(30)
    <3> QED  BY ONLY <1>6, <3>2
  <2>3. i \in 1 .. Len(ct_sndlist) /\ given' = given
    BY <1>1, <1>6
  <2>4. ct_sndlist[i].fb_current + ct_sndlist[i].fb_len =
          IF i = Len(ct_sndlist) THEN given + 1
          ELSE ct_sndlist[i + 1].fb_current
    BY <2>3 DEF IInv, Tiling
  <2>5. CASE i = 1
    BY ONLY <1>5, <1>6, <2>2, <2>3, <2>4, <2>5 DEF buf
  <2>6. CASE i # 1
    <3>1. ct_sndlist'[i] = ct_sndlist[i]
      BY <1>4, <1>6, <2>3, <2>6, SMTT(30)
    <3> QED  BY ONLY <1>6, <2>2, <2>3, <2>4, <2>6, <3>1
  <2> QED  BY <2>5, <2>6
<1>11. InRange'
  <2> SUFFICES ASSUME NEW i \in 1 .. Len(ct_sndlist')
               PROVE  ct_sndlist'[i].fb_current + ct_sndlist'[i].fb_len
                        <= given' + 1
    BY DEF InRange
  <2>1. i = 1 \/ i \in 2 .. Len(ct_sndlist)
    BY <1>4, <1>6, SMTT(30)
  <2>2. CASE i = 1
    BY <1>1, <1>4, <1>5, <1>6, <2>2
  <2>3. CASE i \in 2 .. Len(ct_sndlist)
    BY <1>1, <1>6, <2>3 DEF IInv, InRange
  <2> QED  BY <2>1, <2>2, <2>3
<1> QED  BY <1>3, <1>9, <1>10, <1>11 DEF IInv

\* Every step keeps the invariant.
LEMMA IInvStep == IInv /\ [Next]_vars => IInv'
<1> SUFFICES ASSUME IInv, [Next]_vars PROVE IInv'  OBVIOUS
<1> USE DEF IInv, TypeOK, Tiling, InOrder, InRange, Space, ct, net
<1>1. ASSUME NEW f \in {"block", "nonblock"}, Flush(f) PROVE IInv'
  BY <1>1 DEF Flush, Iterate
<1>2. CASE writetcp_nb_nomem \/ WriteError
  BY <1>2 DEF writetcp_nb_nomem, WriteError, Return
<1>3. CASE Select
  BY <1>3 DEF Select
<1>4. CASE WriteAgain
  BY <1>4 DEF WriteAgain, BlockOrReturn, Return
<1>5. CASE PeerReads
  BY <1>5, SizesAssumption, SMTT(30) DEF SizesAssumption, PeerReads
<1>6. CASE UNCHANGED vars
  BY <1>6 DEF vars
<1> HIDE DEF IInv, TypeOK, Tiling, InOrder, InRange, Space, ct, net
<1> QED
  BY <1>1, <1>2, <1>3, <1>4, <1>5, <1>6, GiveStep, WriteAllStep,
     WritePartStep
  DEF Next, SendStep

\* IInv is an invariant.
THEOREM Invariance == Spec => []IInv
BY InitIInv, IInvStep, PTL DEF Spec

\* Types, and the bound of the kernel's buffer, for any sizes.
THEOREM TypeCorrect == Spec => []TypeOK
<1>1. IInv => TypeOK
  BY DEF IInv
<1> QED  BY <1>1, Invariance, PTL

\* For any sizes and any pattern of short writes, EAGAIN and errors the pending
\* buffers are exactly the bytes between ct_datatx and the last one given.
THEOREM TilingCorrect == Spec => []Tiling
<1>1. IInv => Tiling
  BY DEF IInv
<1> QED  BY <1>1, Invariance, PTL

\* A blocking send_buffers that returns 0 has emptied ct_sndlist.
THEOREM FlushCorrect == Spec => BlockingFlushDrains
<1>1. IInv /\ [Next]_vars =>
        [flag = "block" /\ pc # "idle" /\ pc' = "idle" /\ ret' = 0
           => ct_sndlist' = <<>>]_vars
  <2> SUFFICES ASSUME Next, flag = "block", pc # "idle", pc' = "idle", ret' = 0
               PROVE  ct_sndlist' = <<>>
    OBVIOUS
  <2>1. CASE WriteAll
    BY <2>1 DEF WriteAll, Iterate
  <2>2. CASE Select \/ PeerReads
    BY <2>2 DEF Select, PeerReads
  <2>3. CASE WriteError
    BY <2>3, SMTT(30) DEF WriteError, Return
  <2>4. CASE WriteAgain \/ \E n \in 1 .. MaxBytes : WritePart(n)
    BY <2>4 DEF WriteAgain, WritePart, BlockOrReturn, is_blocking
  <2> QED
    BY <2>1, <2>2, <2>3, <2>4
    DEF Next, SendStep, writetcp_nb, writetcp_nb_nomem, Flush
<1> QED  BY <1>1, Invariance, PTL DEF Spec, BlockingFlushDrains

\* The transmission path implements a FIFO stream of bytes.
THEOREM TransmitImplementsFifo == Spec => ImplementsFifo
<1>1. Init => F!Init
  BY SMTT(30) DEF Init, F!Init, Bytes
<1>2. ASSUME IInv, IInv', [Next]_vars
      PROVE  [F!Next]_<<Bytes(1, given), wire>>
  <2>0. /\ wire \in Seq(Nat) /\ wire' \in Seq(Nat)
        /\ given \in Nat /\ given' \in Nat
    BY <1>2 DEF IInv, TypeOK
  <2>1. ASSUME NEW n \in Sizes, writetcp_nb(n) PROVE F!Put
    <3>1. given' = given + n /\ wire' = wire /\ n \in Nat
      BY <2>1, SizesAssumption DEF SizesAssumption, writetcp_nb
    <3>2. /\ Len(Bytes(1, given)) = given /\ Len(Bytes(1, given')) = given'
          /\ Bytes(1, given) = SubSeq(Bytes(1, given'), 1, given)
      BY <2>0, <3>1, SMTT(30) DEF Bytes
    <3> QED  BY <2>0, <3>1, <3>2, SMTT(30) DEF F!Put
  <2>2. ASSUME NEW n, n \in Writable(ct_sndlist[1].fb_len), Transmit(n),
               ct_sndlist # <<>>, UNCHANGED <<given, ct_sockflags>>
        PROVE  F!Get
    <3>1. n \in Nat \ {0}
      BY <1>2, <2>2, RoomStep
    <3>2. Len(wire') = Len(wire) + n
      BY <1>2, <2>2, <3>1, WireStep
    <3>3. Len(wire') <= given
      <4>1. /\ Len(wire) + 1 + ct_sndlist[1].fb_len <= given + 1
            /\ ct_sndlist[1].fb_len \in Nat
        BY <1>2, <2>2, FirstBuffer
      <4>2. n <= ct_sndlist[1].fb_len
        BY <2>2, <3>1, <4>1, SMTT(30) DEF Writable
      <4>3. Len(wire) \in Nat /\ given \in Nat
        BY ONLY <2>0, SMTT(30)
      <4> QED  BY ONLY <3>1, <3>2, <4>1, <4>2, <4>3, SMTT(30)
    <3>4. wire' = SubSeq(Bytes(1, given), 1, Len(wire'))
      BY <1>2, <2>0, <3>3, SMTT(30) DEF IInv, InOrder, Bytes
    <3>5. Len(Bytes(1, given)) = given
      BY <2>0, SMTT(30) DEF Bytes
    <3> QED  BY <2>0, <2>2, <3>1, <3>2, <3>3, <3>4, <3>5, SMTT(30) DEF F!Get
  <2>3. CASE WriteAll
    BY <1>2, <2>2, <2>3 DEF WriteAll, IInv, TypeOK, F!Next
  <2>4. ASSUME NEW n, WritePart(n) PROVE F!Get
    BY <1>2, <2>2, <2>4 DEF WritePart, IInv, TypeOK
  <2>5. CASE UNCHANGED <<given, wire>>
    BY <2>5
  <2> QED
    BY <1>2, <2>1, <2>3, <2>4, <2>5
    DEF Next, SendStep, writetcp_nb_nomem, Flush, Select, WriteAgain,
        WriteError, PeerReads, F!Next, net, vars
<1> QED  BY <1>1, <1>2, Invariance, PTL DEF Spec, ImplementsFifo, F!Spec

=============================================================================
