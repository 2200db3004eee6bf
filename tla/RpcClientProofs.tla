--------------------------- MODULE RpcClientProofs ---------------------------
(***************************************************************************)
(* Proofs about calls and replies on one connection, for any number of     *)
(* calls, sizes of the buffers, flags and failures.                        *)
(*                                                                         *)
(* CallbackOnce is not inductive: that the callback found under the xid of *)
(* a reply is the one of its call has to be known of every trace of a call *)
(* (its callback, its bytes in the stream, its record, its reply).  Paired *)
(* says it, and Aged why a new xid is nobody else's: xids are counted down *)
(* modulo XidMod, so the xid of a call that is still known is at most as   *)
(* many steps old as there were calls.  This is where the proof needs that *)
(* no more calls are made than there are xids (XidsSuffice; 2^32 of them). *)
(*                                                                         *)
(* The counts hold as long as no call was cut short (CInv).  Then every    *)
(* record is one call, and records and replies are in one-to-one           *)
(* correspondence with the registered callbacks (Tidy), which makes each   *)
(* step change the lengths of the lists, ct_pendingcalls and the set of    *)
(* outstanding calls by the same amount (Counts).  Two things come in      *)
(* between: callbacks that have run but are not subtracted yet             *)
(* (called_back), and a call that waits in its write() (Writing).          *)
(***************************************************************************)
EXTENDS RpcClient, SequenceLemmas, FiniteSetTheorems, TLAPS

\* The default prover; a leaf that takes arithmetic cites the SMT solver.
USE ZenonT(60)

\* An application that makes no more calls than there are xids.
XidsSuffice == Cardinality(Calls) <= XidMod

Xids == 0 .. XidMod - 1
Message == [xid : Xids, call : Calls]
Reply == [xid : Xids, call : Calls \cup {Garbled}]
Record == Seq(Message) \ {<<>>}
Results == {"new", "RPC_SUCCESS", "RPC_SYSTEMERROR", "RPC_CANTENCODEARGS"}

\* The types, and what is empty where.
Types ==
  /\ room \in [snd : Nat \ {0}, rcv : Nat \ {0}]
  /\ xid \in Xids
  /\ ct_xid_to_ucb \subseteq Message /\ IsFiniteSet(ct_xid_to_ucb)
  /\ ct_pendingcalls \in Int
  /\ outbuf \in Seq(Message)
  /\ ct_sndlist \in Seq(Record)
  /\ requests \in Seq(Record) /\ Len(requests) <= room.snd
  /\ replies \in Seq(Reply) /\ batch \in Seq(Reply)
  /\ called_back \in Nat
  /\ faults \in Nat
  /\ result \in [Calls -> Results]
  /\ answered \in [Calls -> Seq(Calls)]
  /\ pc # "dispatch" => batch = <<>> /\ called_back = 0
  /\ pc = "write" => /\ outbuf # <<>> /\ result[outbuf[Len(outbuf)].call] = "new"
                     /\ ct_sndlist # <<>>

\* The call that waits for its write() to end.
Writing == IF pc = "write" THEN {outbuf[Len(outbuf)].call} ELSE {}

\* The calls that may have got an xid.
Used == {c \in Calls : result[c] # "new"} \cup Writing

\* The calls in a sequence of records.
Inside(records) == UNION {Range(r) : r \in Range(records)}

\* All there is of a call: its callback, its bytes, and the reply to it.
Known ==
  ct_xid_to_ucb \cup Range(outbuf) \cup Inside(ct_sndlist) \cup Inside(requests)
    \cup {m \in Range(replies) \cup Range(batch) : m.call # Garbled}

\* How many xids ago x was chosen.
AgeSince(x, last) == IF x >= last THEN x - last ELSE x - last + XidMod
Age(x) == AgeSince(x, xid)

\* What is known belongs to a call that has an xid, and no later calls than there
\* were have got one since.
Aged == \A m \in Known : m.call \in Used /\ Age(m.xid) < Cardinality(Used)

\* Calls and xids determine each other.
Paired == \A m, n \in Known : m.xid = n.xid <=> m.call = n.call

\* A callback that is registered, or to be registered, has not been run.
Waiting ==
  /\ \A c \in Calls : result[c] = "new" => answered[c] = <<>>
  /\ \A e \in ct_xid_to_ucb : answered[e.call] = <<>>

\* The inductive invariant for CallbackOnce, and the one for the counts.
IInv == Types /\ Aged /\ Paired /\ Waiting /\ CallbackOnce

\* The records on their way to the server, and the replies on their way back.
Records == Range(ct_sndlist) \cup Range(requests)
Answers == Range(replies) \cup Range(batch)

\* As long as no call was cut short, the stream has no bytes of an earlier call,
\* every record is one call whose callback waits, and every reply is to such a
\* call; each of them is there once.
Tidy ==
  /\ IF pc = "write" THEN Len(outbuf) = 1 ELSE outbuf = <<>>
  /\ \A c \in Calls : result[c] \in {"new", "RPC_SUCCESS"}
  /\ \A r \in Records : \E e \in ct_xid_to_ucb \ Answers : r = <<e>>
  /\ Answers \subseteq ct_xid_to_ucb
  /\ IsInjective(ct_sndlist) /\ IsInjective(requests)
  /\ IsInjective(replies) /\ IsInjective(batch)
  /\ Range(ct_sndlist) \cap Range(requests) = {}
  /\ Range(replies) \cap Range(batch) = {}

\* Callbacks, what is on its way, ct_pendingcalls and outstanding calls agree.
Counts ==
  LET n == Cardinality(ct_xid_to_ucb)
      w == Cardinality(Writing)
  IN /\ InFlight = n
     /\ ct_pendingcalls + w = n + called_back
     /\ Cardinality(Outstanding) + w = n

CInv == Clean => Tidy /\ Counts

-----------------------------------------------------------------------------
(* Xids.                                                                   *)

\* xids are counted down, and start again from the top.
LEMMA NextXidValue ==
  ASSUME xid \in Xids
  PROVE  NextXid \in Xids /\ NextXid = IF xid = 0 THEN XidMod - 1 ELSE xid - 1
<1>1. XidMod \in Nat \ {0}
  BY ClientAssumption DEF ClientAssumption
<1>2. CASE xid = 0
  <2>1. (XidMod - 1) % XidMod = XidMod - 1
    BY ONLY <1>1, SMTT(30)
  <2> QED  BY <1>1, <1>2, <2>1, SMTT(30) DEF NextXid, Xids
<1>3. CASE xid # 0
  <2>1. xid - 1 \in 0 .. XidMod - 1
    BY <1>1, <1>3, SMTT(30) DEF Xids
  <2>2. ((xid - 1) + XidMod) % XidMod = (xid - 1) % XidMod
    BY ONLY <1>1, <2>1, SMTT(30)
  <2>3. (xid - 1) % XidMod = xid - 1
    BY ONLY <1>1, <2>1, SMTT(30)
  <2>4. NextXid = ((xid - 1) + XidMod) % XidMod
    <3>1. xid + XidMod - 1 = (xid - 1) + XidMod
      BY <1>1, SMTT(30) DEF Xids
    <3> QED  BY <3>1 DEF NextXid
  <2> QED  BY <1>3, <2>1, <2>2, <2>3, <2>4 DEF Xids
<1> QED  BY <1>2, <1>3

\* With the next xid, those of before are one older.
LEMMA Ageing ==
  ASSUME xid \in Xids, NEW x \in Xids, Age(x) < XidMod - 1
  PROVE  /\ AgeSince(x, NextXid) = Age(x) + 1
         /\ x # NextXid
<1>1. XidMod \in Nat \ {0}
  BY ClientAssumption DEF ClientAssumption
<1>2. NextXid = IF xid = 0 THEN XidMod - 1 ELSE xid - 1
  BY NextXidValue
<1> QED  BY <1>1, <1>2, SMTT(30) DEF Age, AgeSince, Xids

\* Calls that have an xid, and those that have none yet.
UsedFinite ==
  /\ Used \subseteq Calls /\ IsFiniteSet(Used) /\ Cardinality(Used) \in Nat
  /\ \A c \in Calls \ Used : /\ Cardinality(Used \cup {c}) = Cardinality(Used) + 1
                             /\ Cardinality(Used) < Cardinality(Calls)

\* The calls are finitely many, so those that have an xid can be counted.
LEMMA UsedFacts == Types => UsedFinite
<1> SUFFICES ASSUME Types PROVE UsedFinite  OBVIOUS
<1>1. IsFiniteSet(Calls)
  BY ClientAssumption DEF ClientAssumption
<1>2. Writing \subseteq Calls
  <2>1. CASE pc = "write"
    <3>1. Len(outbuf) \in DOMAIN outbuf
      BY <2>1, SMTT(30) DEF Types
    <3>2. outbuf[Len(outbuf)] \in Message
      BY <3>1, SMTT(30) DEF Types
    <3> QED  BY <2>1, <3>2 DEF Writing, Message
  <2> QED  BY <2>1 DEF Writing
<1>3. Used \subseteq Calls
  BY <1>2 DEF Used
<1>4. IsFiniteSet(Used) /\ Cardinality(Used) \in Nat
  BY <1>1, <1>3, FS_Subset, FS_CardinalityType
<1>5. ASSUME NEW c \in Calls \ Used
      PROVE  /\ Cardinality(Used \cup {c}) = Cardinality(Used) + 1
             /\ Cardinality(Used) < Cardinality(Calls)
  <2>1. /\ IsFiniteSet(Used \cup {c})
        /\ Cardinality(Used \cup {c}) = Cardinality(Used) + 1
    BY <1>4, <1>5, FS_AddElement
  <2>2. Used \cup {c} \subseteq Calls
    BY <1>3
  <2>3. Cardinality(Used \cup {c}) <= Cardinality(Calls) /\ Cardinality(Calls) \in Nat
    BY <1>1, <2>2, FS_Subset, FS_CardinalityType
  <2> QED  BY <1>4, <2>1, <2>3, SMTT(30)
<1> QED  BY <1>3, <1>4, <1>5 DEF UsedFinite

\* What is known of a call is its xid and its number.
LEMMA KnownMessages == Types => Known \subseteq Message
<1> SUFFICES ASSUME Types PROVE Known \subseteq Message  OBVIOUS
<1>1. ASSUME NEW s \in Seq(Record) PROVE Inside(s) \subseteq Message
  <2>1. ASSUME NEW r \in Range(s) PROVE Range(r) \subseteq Message
    <3>1. r \in Seq(Message)
      BY RangeElements DEF Record
    <3> QED  BY <3>1, RangeElements
  <2> QED  BY <2>1 DEF Inside
<1>2. Range(outbuf) \subseteq Message
  BY RangeElements DEF Types
<1>3. Range(replies) \subseteq Reply /\ Range(batch) \subseteq Reply
  BY RangeElements DEF Types
<1>4. \A m \in Reply : m.call # Garbled => m \in Message
  BY DEF Reply, Message
<1> QED  BY <1>1, <1>2, <1>3, <1>4 DEF Known, Types

\* A new xid is nobody else's.
LEMMA FreshXid ==
  ASSUME XidsSuffice, IInv, NEW c \in Calls \ Used
  PROVE  \A m \in Known : /\ m.xid # NextXid /\ m.call # c
                          /\ AgeSince(m.xid, NextXid) = Age(m.xid) + 1
<1> SUFFICES ASSUME NEW m \in Known
             PROVE  /\ m.xid # NextXid /\ m.call # c
                    /\ AgeSince(m.xid, NextXid) = Age(m.xid) + 1
  OBVIOUS
<1>1. m.xid \in Xids /\ m.call \in Used /\ Age(m.xid) < Cardinality(Used)
  BY KnownMessages DEF IInv, Aged, Message
<1>2. Cardinality(Used) < Cardinality(Calls) /\ Cardinality(Used) \in Nat
  BY UsedFacts DEF IInv, UsedFinite
<1>3. Cardinality(Calls) <= XidMod /\ XidMod \in Nat /\ xid \in Xids
  BY ClientAssumption DEF XidsSuffice, ClientAssumption, IInv, Types
<1>4. Cardinality(Calls) \in Nat
  BY FS_CardinalityType, ClientAssumption DEF ClientAssumption
<1>5. Age(m.xid) \in Int
  BY <1>1, <1>3, SMTT(30) DEF Age, AgeSince, Xids
<1>6. Age(m.xid) < XidMod - 1
  BY ONLY <1>1, <1>2, <1>3, <1>4, <1>5, SMTT(30)
<1> QED  BY <1>1, <1>3, <1>6, Ageing

-----------------------------------------------------------------------------
(* Two kinds of steps.                                                     *)

\* A step that makes nothing of a call that was not there.
LEMMA QuietStep ==
  ASSUME IInv, Types', Known' \subseteq Known, xid' = xid, Used \subseteq Used',
         ct_xid_to_ucb' \subseteq ct_xid_to_ucb, answered' = answered,
         \A c \in Calls : result'[c] = "new" => result[c] = "new"
  PROVE  IInv'
<1>1. Aged'
  <2>1. UsedFinite /\ UsedFinite'
    <3>1. (Types => UsedFinite)'
      BY UsedFacts, PTL
    <3> QED  BY <3>1, UsedFacts DEF IInv
  <2>2. Cardinality(Used) <= Cardinality(Used')
    BY <2>1, FS_Subset DEF UsedFinite
  <2>3. \A m \in Known : m.xid \in Xids /\ Age(m.xid)' = Age(m.xid)
    BY KnownMessages DEF Age, IInv, Message
  <2>4. \A m \in Known : Age(m.xid) \in Int
    <3>1. xid \in 0..(XidMod - 1) /\ XidMod \in Nat
      BY ClientAssumption DEF ClientAssumption, Xids, IInv, Types
    <3> QED  BY ONLY <2>3, <3>1, SMTT(30) DEF Age, AgeSince, Xids
  <2>5. ASSUME NEW m \in Known' PROVE m.call \in Used' /\ Age(m.xid)' < Cardinality(Used')
    <3>1. m \in Known /\ m.call \in Used /\ Age(m.xid) < Cardinality(Used)
      BY <2>5 DEF IInv, Aged
    <3>2. Cardinality(Used) \in Nat /\ Cardinality(Used') \in Nat
      BY <2>1 DEF UsedFinite
    <3> QED  BY <2>2, <2>3, <2>4, <3>1, <3>2, SMTT(30)
  <2> QED  BY <2>5 DEF Aged
<1>2. Paired'
  BY DEF IInv, Paired
<1>3. Waiting' /\ CallbackOnce'
  BY DEF IInv, Waiting, CallbackOnce
<1> QED  BY <1>1, <1>2, <1>3 DEF IInv

\* send_buffers moves records from one side to the other, none is lost or
\* doubled, and no more than fit are moved.
LEMMA SendFacts ==
  ASSUME Types, NEW list \in Seq(Record), NEW k \in 0 .. Fitting(list),
         Send(list, k)
  PROVE  /\ k <= Len(list)
         /\ requests' \in Seq(Record) /\ Len(requests') <= room.snd
         /\ ct_sndlist' \in Seq(Record)
         /\ Len(ct_sndlist') + Len(requests') = Len(list) + Len(requests)
         /\ Range(ct_sndlist') \cup Range(requests') = Range(list) \cup Range(requests)
         /\ Inside(ct_sndlist') \cup Inside(requests') = Inside(list) \cup Inside(requests)
         /\ IsInjective(list) /\ IsInjective(requests)
              /\ Range(list) \cap Range(requests) = {} =>
              /\ IsInjective(ct_sndlist') /\ IsInjective(requests')
              /\ Range(ct_sndlist') \cap Range(requests') = {}
<1> DEFINE a == SubSeq(list, 1, k)
           b == SubSeq(list, k + 1, Len(list))
<1>1. Len(requests) <= room.snd /\ Len(requests) \in Nat /\ Len(list) \in Nat
      /\ room.snd \in Nat /\ requests \in Seq(Record)
  BY SMTT(30) DEF Types
<1>2. k \in 0 .. Len(list) /\ Len(requests) + k <= room.snd
  BY <1>1, SMTT(30) DEF Fitting
<1>3. /\ a \in Seq(Record) /\ Len(a) = k
      /\ b \in Seq(Record) /\ Len(b) = Len(list) - k
      /\ Range(list) = Range(a) \cup Range(b)
      /\ IsInjective(list) => /\ IsInjective(a) /\ IsInjective(b)
                              /\ Range(a) \cap Range(b) = {}
  BY <1>2, CutValues
<1>4. requests' = requests \o a /\ ct_sndlist' = b
  BY DEF Send
<1> HIDE DEF a, b
<1>5. /\ requests \o a \in Seq(Record) /\ Len(requests \o a) = Len(requests) + Len(a)
      /\ Range(requests \o a) = Range(requests) \cup Range(a)
      /\ IsInjective(requests) /\ IsInjective(a) /\ Range(requests) \cap Range(a) = {} =>
           IsInjective(requests \o a)
  BY <1>1, <1>3, ConcatValues
<1>6. /\ requests' \in Seq(Record) /\ ct_sndlist' \in Seq(Record)
      /\ Range(requests') = Range(requests) \cup Range(a)
      /\ Range(ct_sndlist') = Range(b)
  BY ONLY <1>3, <1>4, <1>5
<1>7. /\ Len(requests') = Len(requests) + k /\ Len(ct_sndlist') = Len(list) - k
  BY ONLY <1>3, <1>4, <1>5
<1>8. /\ Len(requests') <= room.snd
      /\ Len(ct_sndlist') + Len(requests') = Len(list) + Len(requests)
  BY ONLY <1>1, <1>2, <1>7, SMTT(30)
<1>9. Range(ct_sndlist') \cup Range(requests') = Range(list) \cup Range(requests)
  BY ONLY <1>3, <1>6
<1>10. Inside(ct_sndlist') \cup Inside(requests') = Inside(list) \cup Inside(requests)
  <2>1. Inside(requests') = Inside(requests) \cup Inside(a)
    BY ONLY <1>6 DEF Inside
  <2>2. Inside(ct_sndlist') = Inside(b)
    BY ONLY <1>6 DEF Inside
  <2>3. Inside(list) = Inside(a) \cup Inside(b)
    BY ONLY <1>3 DEF Inside
  <2> QED  BY ONLY <2>1, <2>2, <2>3
<1>11. ASSUME IsInjective(list), IsInjective(requests),
              Range(list) \cap Range(requests) = {}
       PROVE  /\ IsInjective(ct_sndlist') /\ IsInjective(requests')
              /\ Range(ct_sndlist') \cap Range(requests') = {}
  <2>1. IsInjective(requests')
    BY <1>3, <1>4, <1>5, <1>11
  <2>2. IsInjective(ct_sndlist')
    BY <1>3, <1>4, <1>11
  <2>3. Range(ct_sndlist') \cap Range(requests') = {}
    BY <1>3, <1>6, <1>11
  <2> QED  BY <2>1, <2>2, <2>3
<1> QED  BY <1>2, <1>6, <1>8, <1>9, <1>10, <1>11, SMTT(30)

\* A call takes the next xid; its callback is registered, or there is no memory
\* for that.
Registering(c) == Register(c) \/ NotRegistered

\* A call registers its callback: the hash table has no other under its xid.
LEMMA RegisterFacts ==
  ASSUME XidsSuffice, IInv, NEW c \in Calls \ Used, Registering(c)
  PROVE  /\ xid' \in Xids /\ xid' = NextXid
         /\ [xid |-> xid', call |-> c] \in Message
         /\ [xid |-> xid', call |-> c] \notin Known
         /\ ct_xid_to_ucb' \subseteq ct_xid_to_ucb \cup {[xid |-> xid', call |-> c]}
         /\ Register(c) =>
              ct_xid_to_ucb' = ct_xid_to_ucb \cup {[xid |-> xid', call |-> c]}
<1>1. xid' = NextXid
  BY DEF Registering, Register, NotRegistered
<1>2. xid' \in Xids
  BY <1>1, NextXidValue DEF IInv, Types
<1>3. \A m \in Known : m.xid # xid' /\ m.call # c
  BY <1>1, FreshXid
<1>4. ct_xid_to_ucb \subseteq Known
  BY DEF Known
<1>5. /\ Register(c) => ct_xid_to_ucb' = ct_xid_to_ucb \cup {[xid |-> xid', call |-> c]}
      /\ NotRegistered => ct_xid_to_ucb' = ct_xid_to_ucb
  BY <1>3, <1>4 DEF Register, NotRegistered
<1>6. [xid |-> xid', call |-> c] \in Message
  BY <1>2 DEF Message
<1>7. [xid |-> xid', call |-> c] \notin Known
  BY <1>3
<1> QED  BY <1>1, <1>2, <1>5, <1>6, <1>7 DEF Registering

\* A step that registers a call.
LEMMA RegisterStep ==
  ASSUME XidsSuffice, IInv, Types', NEW c \in Calls \ Used, Registering(c),
         Known' \subseteq Known \cup {[xid |-> xid', call |-> c]},
         Used' = Used \cup {c}, answered' = answered,
         \A d \in Calls : result'[d] = "new" => result[d] = "new"
  PROVE  IInv'
<1> DEFINE new == [xid |-> xid', call |-> c]
<1>1. xid' = NextXid /\ xid' \in Xids /\ new.xid = xid' /\ new.call = c
      /\ ct_xid_to_ucb' \subseteq ct_xid_to_ucb \cup {new}
  BY RegisterFacts
<1>2. \A m \in Known : m.xid # xid' /\ m.call # c /\ Age(m.xid)' = Age(m.xid) + 1
  BY <1>1, FreshXid DEF Age
<1> HIDE DEF new
<1>3. Aged'
  <2>1. Cardinality(Used') = Cardinality(Used) + 1 /\ Cardinality(Used) \in Nat
    BY UsedFacts DEF IInv, UsedFinite
  <2>2. ASSUME NEW m \in Known PROVE m.call \in Used' /\ Age(m.xid)' < Cardinality(Used')
    <3>1. m.call \in Used /\ Age(m.xid) < Cardinality(Used)
      BY DEF IInv, Aged
    <3>2. Age(m.xid) \in Int
      <4>1. m.xid \in Xids
        BY KnownMessages DEF IInv, Message
      <4>2. xid \in Xids /\ XidMod \in Nat
        BY ClientAssumption DEF ClientAssumption, IInv, Types
      <4> QED  BY ONLY <4>1, <4>2, SMTT(30) DEF Age, AgeSince, Xids
    <3>3. Age(m.xid)' = Age(m.xid) + 1
      BY <1>2
    <3> QED  BY <2>1, <3>1, <3>2, <3>3, SMTT(30)
  <2>3. new.call \in Used' /\ AgeSince(new.xid, xid') < Cardinality(Used')
    <3>1. AgeSince(new.xid, xid') = 0
      BY ONLY <1>1, ClientAssumption, SMTT(30) DEF ClientAssumption, AgeSince, Xids
    <3> QED  BY <1>1, <2>1, <3>1, SMTT(30)
  <2>4. \A m \in Known' : m \in Known \/ m = new
    BY DEF new
  <2> QED  BY <2>2, <2>3, <2>4 DEF Aged, Age
<1>4. Paired'
  <2>1. \A m \in Known' : m \in Known \/ m = new
    BY DEF new
  <2> QED  BY <1>1, <1>2, <2>1 DEF IInv, Paired
<1>5. Waiting' /\ CallbackOnce'
  <2>1. answered[c] = <<>>
    BY DEF IInv, Waiting, Used
  <2> QED  BY <1>1, <2>1 DEF IInv, Waiting, CallbackOnce
<1> QED  BY <1>3, <1>4, <1>5 DEF IInv

-----------------------------------------------------------------------------
(* Every action keeps the invariant.                                       *)

\* A new handle knows of no call.
LEMMA InitIInv == Init => IInv
<1> SUFFICES ASSUME Init PROVE IInv  OBVIOUS
<1>1. Types
  BY ClientAssumption, FS_EmptySet, SMTT(30) DEF Init, Types, ClientAssumption, Xids, Message, Results
<1>2. Range(outbuf) = {} /\ Range(replies) = {} /\ Range(batch) = {}
      /\ Range(ct_sndlist) = {} /\ Range(requests) = {}
  BY SMTT(30) DEF Init, Range
<1>3. Known = {}
  BY <1>2 DEF Known, Inside, Init
<1> QED  BY <1>1, <1>3 DEF IInv, Aged, Paired, Waiting, CallbackOnce, Init

\* A call for which there is no memory returns before it gets an xid.
LEMMA CallNoMemStep ==
  ASSUME IInv, NEW c \in Calls, CallNoMem(c)
  PROVE  IInv'
<1>1. Types'
  BY SMTT(30) DEF IInv, Types, CallNoMem, Fault, Returned, ct, net, receive, Results
<1>2. Known' = Known /\ xid' = xid /\ ct_xid_to_ucb' = ct_xid_to_ucb /\ answered' = answered
  BY DEF CallNoMem, Known, ct, net, receive
<1>3. Used \subseteq Used' /\ \A d \in Calls : result'[d] = "new" => result[d] = "new"
  BY DEF IInv, Types, CallNoMem, Returned, Used, Writing, ct
<1> QED  BY <1>1, <1>2, <1>3, QuietStep

\* Entering clnttcp_nb_receive.
LEMMA ReceiveKeeps ==
  ASSUME IInv, NEW f, Receive(f)
  PROVE  IInv'
<1>1. Types'
  BY DEF IInv, Types, Receive, Enter, ct, net, history
<1>2. Known' \subseteq Known /\ xid' = xid /\ ct_xid_to_ucb' = ct_xid_to_ucb
      /\ answered' = answered
  <2>1. Range(batch') = {}
    BY SMTT(30) DEF Receive, Enter, Range
  <2> QED  BY <2>1 DEF Receive, Known, ct, net, history
<1>3. Used \subseteq Used' /\ \A d \in Calls : result'[d] = "new" => result[d] = "new"
  BY DEF IInv, Types, Receive, Enter, Used, Writing, ct, history
<1> QED  BY <1>1, <1>2, <1>3, QuietStep

\* A part of a reply is read.
LEMMA ReadPartStep ==
  ASSUME IInv, ReadPart
  PROVE  IInv'
<1>1. Types'
  BY DEF IInv, Types, ReadPart, Stay, Leave, ct, receive, history
<1>2. Known' \subseteq Known /\ xid' = xid /\ ct_xid_to_ucb' = ct_xid_to_ucb
      /\ answered' = answered
  <2>1. batch' = batch
    BY DEF IInv, Types, ReadPart, Stay, Leave, receive
  <2> QED  BY <2>1 DEF ReadPart, Known, ct, history
<1>3. Used \subseteq Used' /\ \A d \in Calls : result'[d] = "new" => result[d] = "new"
  BY DEF ReadPart, Stay, Leave, Used, Writing, ct, history
<1> QED  BY <1>1, <1>2, <1>3, QuietStep

\* The replies a read() completed are some of those that were on the socket.
LEMMA ReadRepliesStep ==
  ASSUME IInv, NEW n \in 1 .. Len(replies), NEW part \in BOOLEAN, ReadReplies(n, part)
  PROVE  IInv'
<1>1. replies \in Seq(Reply) /\ n \in 0 .. Len(replies)
  BY SMTT(30) DEF IInv, Types
<1>2. /\ batch' \in Seq(Reply) /\ replies' \in Seq(Reply)
      /\ Range(replies) = Range(batch') \cup Range(replies')
  BY <1>1, CutValues DEF ReadReplies
<1>3. Types'
  BY <1>2 DEF IInv, Types, ReadReplies, ct, history
<1>4. Known' \subseteq Known /\ xid' = xid /\ ct_xid_to_ucb' = ct_xid_to_ucb
      /\ answered' = answered
  BY <1>2 DEF ReadReplies, Known, ct, history
<1>5. Used \subseteq Used' /\ \A d \in Calls : result'[d] = "new" => result[d] = "new"
  BY DEF ReadReplies, Used, Writing, ct, history
<1> QED  BY <1>3, <1>4, <1>5, QuietStep

\* A read() that finds nothing.
LEMMA ReadNothingStep ==
  ASSUME IInv, ReadNothing
  PROVE  IInv'
<1>1. Types'
  <2>1. faults' \in Nat
    BY SMTT(30) DEF IInv, Types, ReadNothing, Fault
  <2> QED  BY <2>1 DEF IInv, Types, ReadNothing, Leave, ct, net
<1>2. Known' \subseteq Known /\ xid' = xid /\ ct_xid_to_ucb' = ct_xid_to_ucb
      /\ answered' = answered
  <2>1. batch' = batch
    BY DEF IInv, Types, ReadNothing, Leave
  <2> QED  BY <2>1 DEF ReadNothing, Known, ct, net
<1>3. Used \subseteq Used' /\ \A d \in Calls : result'[d] = "new" => result[d] = "new"
  BY DEF ReadNothing, Leave, Used, Writing, ct
<1> QED  BY <1>1, <1>2, <1>3, QuietStep

\* clnttcp_nb_receive returns.
LEMMA ReturnStep ==
  ASSUME IInv, Return
  PROVE  IInv'
<1>1. Types'
  BY SMTT(30) DEF IInv, Types, Return, Leave, net, history
<1>2. Known' \subseteq Known /\ xid' = xid /\ ct_xid_to_ucb' = ct_xid_to_ucb
      /\ answered' = answered
  <2>1. batch' = batch
    BY DEF Return, Leave
  <2> QED  BY <2>1 DEF Return, Known, net, history
<1>3. Used \subseteq Used' /\ \A d \in Calls : result'[d] = "new" => result[d] = "new"
  BY DEF Return, Leave, Used, Writing, history
<1> QED  BY <1>1, <1>2, <1>3, QuietStep

\* The server closes the connection.
LEMMA ServerCloseStep ==
  ASSUME IInv, ServerClose
  PROVE  IInv'
<1>1. Types'
  BY DEF IInv, Types, ServerClose, ct, receive, history
<1>2. Known' \subseteq Known /\ xid' = xid /\ ct_xid_to_ucb' = ct_xid_to_ucb
      /\ answered' = answered
  BY DEF ServerClose, Known, ct, receive, history
<1>3. Used \subseteq Used' /\ \A d \in Calls : result'[d] = "new" => result[d] = "new"
  BY DEF ServerClose, Used, Writing, ct, history
<1> QED  BY <1>1, <1>2, <1>3, QuietStep

\* The records that are left when the k-th is taken out.
LEMMA WithoutValues ==
  ASSUME NEW S, NEW list \in Seq(S), NEW k \in 1 .. Len(list)
  PROVE  /\ Without(list, k) \in Seq(S) /\ Len(Without(list, k)) = Len(list) - 1
         /\ Range(list) = Range(Without(list, k)) \cup {list[k]}
         /\ IsInjective(list) => /\ IsInjective(Without(list, k))
                                 /\ list[k] \notin Range(Without(list, k))
<1> DEFINE w == Without(list, k)
           n == Len(list)
           a == SubSeq(list, 1, k - 1)
           b == SubSeq(list, k + 1, n)
<1>1. n \in Nat /\ k \in Int /\ 1 <= k /\ k <= n /\ DOMAIN list = 1 .. n
  BY SMTT(30)
<1>2. /\ a \in Seq(S) /\ Len(a) = k - 1
      /\ \A i \in 1 .. k - 1 : a[i] = list[i]
  BY SMTT(30)
<1>3. /\ b \in Seq(S) /\ Len(b) = n - k
      /\ \A i \in 1 .. n - k : b[i] = list[k + i]
  BY SMTT(30)
<1>4. w = a \o b
  BY DEF Without
<1> HIDE DEF w, n, a, b
<1>5. /\ w \in Seq(S) /\ Len(w) = n - 1 /\ DOMAIN w = 1 .. n - 1
  <2>1. w \in Seq(S) /\ Len(w) = Len(a) + Len(b)
    BY <1>2, <1>3, <1>4, ConcatValues
  <2>2. Len(w) = n - 1
    BY ONLY <1>1, <1>2, <1>3, <2>1, SMTT(30)
  <2> QED  BY ONLY <2>1, <2>2, SMTT(30)
<1>6. \A i \in 1 .. n - 1 : w[i] = IF i < k THEN list[i] ELSE list[i + 1]
  <2> SUFFICES ASSUME NEW i \in 1 .. n - 1
               PROVE  w[i] = IF i < k THEN list[i] ELSE list[i + 1]
    OBVIOUS
  <2>1. CASE i < k
    BY <1>1, <1>2, <1>3, <1>4, <2>1, SMTT(30)
  <2>2. CASE ~(i < k)
    <3>1. w[i] = b[i - (k - 1)] /\ i - (k - 1) \in 1 .. n - k
      BY <1>1, <1>2, <1>3, <1>4, <2>2, SMTT(30)
    <3> QED  BY <1>1, <1>3, <2>2, <3>1, SMTT(30)
  <2> QED  BY <2>1, <2>2
<1>7. Range(list) = Range(w) \cup {list[k]}
  <2>1. ASSUME NEW x \in Range(list) PROVE x \in Range(w) \cup {list[k]}
    <3>1. PICK i \in 1 .. n : x = list[i]
      BY <1>1, <2>1 DEF Range
    <3>2. CASE i < k
      BY <1>1, <1>5, <1>6, <3>1, <3>2, SMTT(30) DEF Range
    <3>3. CASE i > k
      <4>1. i - 1 \in 1 .. n - 1 /\ ~(i - 1 < k) /\ (i - 1) + 1 = i
        BY <1>1, <3>1, <3>3, SMTT(30)
      <4>2. w[i - 1] = list[i]
        BY <1>6, <4>1
      <4> QED  BY <1>5, <3>1, <4>1, <4>2 DEF Range
    <3> QED  BY <1>1, <3>1, <3>2, <3>3, SMTT(30)
  <2>2. ASSUME NEW x \in Range(w) PROVE x \in Range(list)
    <3>1. PICK i \in 1 .. n - 1 : x = w[i]
      BY <1>5, <2>2 DEF Range
    <3>2. i \in 1 .. n /\ i + 1 \in 1 .. n
      BY <1>1, <3>1, SMTT(30)
    <3>3. x = list[i] \/ x = list[i + 1]
      BY <1>6, <3>1
    <3> QED  BY <1>1, <3>2, <3>3 DEF Range
  <2>3. list[k] \in Range(list)
    BY <1>1, SMTT(30) DEF Range
  <2> QED  BY <2>1, <2>2, <2>3
<1>8. ASSUME IsInjective(list) PROVE IsInjective(w) /\ list[k] \notin Range(w)
  <2>1. \A i, j \in 1 .. n : list[i] = list[j] => i = j
    BY <1>1, <1>8 DEF IsInjective
  <2>2. ASSUME NEW i \in 1 .. n - 1, NEW j \in 1 .. n - 1, w[i] = w[j] PROVE i = j
    BY <1>1, <1>6, <2>1, <2>2, SMTT(30)
  <2>3. ASSUME NEW i \in 1 .. n - 1 PROVE w[i] # list[k]
    BY <1>1, <1>6, <2>1, SMTT(30)
  <2>4. IsInjective(w)
    BY <1>5, <2>2 DEF IsInjective
  <2>5. list[k] \notin Range(w)
    BY <1>5, <2>3 DEF Range
  <2> QED  BY <2>4, <2>5
<1> QED  BY <1>5, <1>7, <1>8 DEF w, n

\* A flush sends some of the records, and may fail half-way.
LEMMA FlushStep ==
  ASSUME IInv, Flush
  PROVE  IInv'
<1>1. Types /\ pc = "flush" /\ batch = <<>> /\ called_back = 0
  BY DEF IInv, Types, Flush
<1>2. /\ UNCHANGED <<blocking, xid, ct_xid_to_ucb, ct_pendingcalls, outbuf, room,
                     replies, half, eof, result, answered>>
      /\ pc' # "write" /\ batch' = batch /\ called_back' = called_back
      /\ pc' # "dispatch" /\ faults' \in Nat
  BY <1>1, SMTT(30) DEF Flush, AfterFlush, Stay, Leave, receive, WriteFails, Fault, Types
<1>3. /\ requests' \in Seq(Record) /\ Len(requests') <= room.snd
      /\ ct_sndlist' \in Seq(Record)
      /\ Inside(ct_sndlist') \cup Inside(requests') = Inside(ct_sndlist) \cup Inside(requests)
  <2>1. CASE \E k \in 0 .. Fitting(ct_sndlist) : Send(ct_sndlist, k)
    BY <1>1, <2>1, SendFacts DEF Types
  <2>2. CASE UNCHANGED <<requests, ct_sndlist>>
    BY <1>1, <2>2 DEF Types
  <2>3. ASSUME NEW p, NEW k \in Sendable(ct_sndlist, p) PROVE k \in 0 .. Fitting(ct_sndlist)
    <3>1. Fitting(ct_sndlist) \in Nat
      BY <1>1, SMTT(30) DEF Fitting, Types
    <3> QED  BY <3>1, SMTT(30) DEF Sendable
  <2> QED  BY <2>1, <2>2, <2>3 DEF Flush
<1>4. Types'
  BY <1>1, <1>2, <1>3 DEF Types
<1>5. Known' \subseteq Known
  BY <1>2, <1>3 DEF Known
<1>6. Used \subseteq Used'
  BY <1>1, <1>2 DEF Used, Writing
<1> QED  BY <1>2, <1>4, <1>5, <1>6, QuietStep

\* The write() of a blocking call ends: all is sent, or some more of it is, or
\* it fails.  The call has its xid already.
LEMMA WriteStep ==
  ASSUME IInv, Write
  PROVE  IInv'
<1> DEFINE c == outbuf[Len(outbuf)].call
<1>1. Types /\ pc = "write" /\ batch = <<>> /\ called_back = 0
  BY DEF IInv, Types, Write
<1>2. c \in Calls /\ result[c] = "new" /\ Writing = {c}
  <2>1. Len(outbuf) \in DOMAIN outbuf /\ outbuf \in Seq(Message)
    BY <1>1, SMTT(30) DEF Types
  <2>2. outbuf[Len(outbuf)] \in Message
    BY <2>1, SMTT(30)
  <2> QED  BY <1>1, <2>2 DEF Writing, Message, Types
<1>3. /\ UNCHANGED <<blocking, xid, ct_xid_to_ucb, room, replies, half, eof, answered>>
      /\ batch' = batch /\ called_back' = called_back /\ faults' \in Nat
      /\ pc' # "dispatch"
  BY <1>1, SMTT(30) DEF Write, Stay, Leave, receive, WriteFails, Fault, Types
<1>4. /\ requests' \in Seq(Record) /\ Len(requests') <= room.snd
      /\ ct_sndlist' \in Seq(Record)
      /\ Inside(ct_sndlist') \cup Inside(requests') = Inside(ct_sndlist) \cup Inside(requests)
  <2>1. CASE Send(ct_sndlist, Fitting(ct_sndlist))
    <3>1. Fitting(ct_sndlist) \in 0 .. Fitting(ct_sndlist)
      BY <1>1, SMTT(30) DEF Fitting, Types
    <3> QED  BY <1>1, <2>1, <3>1, SendFacts DEF Types
  <2>2. CASE UNCHANGED <<requests, ct_sndlist>>
    BY <1>1, <2>2 DEF Types
  <2> QED  BY <2>1, <2>2 DEF Write
<1>5. \/ /\ pc' = "write" /\ ct_sndlist' # <<>>
         /\ UNCHANGED <<outbuf, ct_pendingcalls, result>>
      \/ /\ pc' \in {"flush", "idle"}
         /\ outbuf' \in {<<>>, outbuf} /\ ct_pendingcalls' \in Int
         /\ \E r \in Results \ {"new"} : result' = [result EXCEPT ![c] = r]
  BY <1>1, SMTT(30) DEF Write, Stay, Leave, Accepted, Returned, Results, Types
<1> HIDE DEF c
<1>6. Types'
  <2>1. result' \in [Calls -> Results] /\ outbuf' \in Seq(Message) /\ ct_pendingcalls' \in Int
    <3>1. /\ result \in [Calls -> Results] /\ outbuf \in Seq(Message) /\ <<>> \in Seq(Message)
          /\ ct_pendingcalls \in Int
      BY <1>1, SMTT(30) DEF Types
    <3> QED  BY ONLY <1>5, <3>1, ZenonT(60)
  <2>2. pc' = "write" => /\ outbuf' # <<>> /\ result'[outbuf'[Len(outbuf')].call] = "new"
                         /\ ct_sndlist' # <<>>
    BY <1>1, <1>5 DEF Types
  <2> QED  BY <1>1, <1>3, <1>4, <2>1, <2>2 DEF Types
<1>7. Known' \subseteq Known
  <2>1. Range(outbuf') \subseteq Range(outbuf)
    BY <1>5, SMTT(30) DEF Range
  <2> QED  BY <1>3, <1>4, <2>1 DEF Known
<1>8. \A d \in Calls : result'[d] = "new" => result[d] = "new"
  BY <1>1, <1>5 DEF Types
<1>9. Used \subseteq Used'
  <2>1. CASE pc' = "write"
    BY <1>1, <1>5, <2>1 DEF Used, Writing
  <2>2. CASE pc' # "write"
    <3>1. result'[c] # "new"
      BY <1>1, <1>2, <1>5, <2>2 DEF Types
    <3> QED  BY <1>2, <1>8, <3>1 DEF Used
  <2> QED  BY <2>1, <2>2
<1> QED  BY <1>3, <1>6, <1>7, <1>8, <1>9, QuietStep

\* The server answers: what it sends back has the xid of a call that is known.
LEMMA ServerReplyStep ==
  ASSUME IInv, NEW k \in 1 .. Len(requests), ServerReply(k)
  PROVE  IInv'
<1> DEFINE r == requests[k]
<1>1. Types /\ requests \in Seq(Record) /\ replies \in Seq(Reply)
  BY DEF IInv, Types
<1>2. /\ requests' \in Seq(Record) /\ Len(requests') = Len(requests) - 1
      /\ Range(requests) = Range(requests') \cup {r}
  BY <1>1, WithoutValues DEF ServerReply
<1>3. r \in Record /\ Head(r) \in Range(r) /\ Head(r) \in Message
  <2>1. r \in Record
    BY <1>1, SMTT(30)
  <2> QED  BY <2>1, TailValues, SMTT(30) DEF Record
<1>4. PICK e \in {Head(r), [Head(r) EXCEPT !.call = Garbled]} : replies' = Append(replies, e)
  BY DEF ServerReply
<1>5. e \in Reply /\ (e.call # Garbled => e = Head(r))
  BY <1>3, <1>4 DEF Message, Reply
<1> HIDE DEF r
<1>6. replies' \in Seq(Reply) /\ Range(replies') = Range(replies) \cup {e}
  BY <1>1, <1>4, <1>5, AppendValues, SMTT(30)
<1>7. Types'
  <2>1. Len(requests') <= room.snd /\ faults' \in Nat
    BY <1>1, <1>2, SMTT(30) DEF Types, ServerReply, Fault
  <2> QED  BY <1>1, <1>2, <1>6, <2>1 DEF Types, ServerReply, ct, receive
<1>8. Known' \subseteq Known
  <2>1. Range(r) \subseteq Inside(requests) /\ Inside(requests') \subseteq Inside(requests)
    BY <1>2 DEF Inside
  <2> QED  BY <1>3, <1>5, <1>6, <2>1 DEF Known, ServerReply, ct, receive
<1>9. /\ UNCHANGED <<xid, ct_xid_to_ucb, answered, result>> /\ Used' = Used
  BY DEF ServerReply, ct, Used, Writing
<1> QED  BY <1>7, <1>8, <1>9, QuietStep

\* A callback is run for a reply: that of the call the reply answers, which has
\* not been run, and is not registered any more.
LEMMA DispatchStep ==
  ASSUME IInv, Dispatch
  PROVE  IInv'
<1> DEFINE m == Head(batch)
<1>1. Types /\ batch \in Seq(Reply) /\ batch # <<>>
  BY DEF IInv, Types, Dispatch
<1>2. /\ m \in Reply /\ m \in Range(batch)
      /\ batch' \in Seq(Reply) /\ Range(batch') \subseteq Range(batch)
  BY <1>1, TailValues, SMTT(30) DEF Dispatch
<1>3. UNCHANGED <<blocking, xid, ct_pendingcalls, outbuf, ct_sndlist, net, pc, flag,
                  faults, result>>
  BY DEF Dispatch
<1>4. \/ UNCHANGED <<ct_xid_to_ucb, answered>>
      \/ \E e \in ct_xid_to_ucb :
           /\ m.call # Garbled /\ e.xid = m.xid
           /\ ct_xid_to_ucb' = ct_xid_to_ucb \ {e}
           /\ answered' = [answered EXCEPT ![e.call] = Append(@, m.call)]
  BY DEF Dispatch, call_user_cb, RunNone, Unclaimed
<1> HIDE DEF m
<1>5. ASSUME ct_xid_to_ucb' \subseteq ct_xid_to_ucb, answered' \in [Calls -> Seq(Calls)]
      PROVE  Types' /\ Known' \subseteq Known
  <2>1. IsFiniteSet(ct_xid_to_ucb')
    BY <1>1, <1>5, FS_Subset DEF Types
  <2>2. called_back' \in Nat
    BY <1>1, SMTT(30) DEF Types, Dispatch
  <2>3. Types'
    BY <1>1, <1>2, <1>3, <1>5, <2>1, <2>2 DEF Types, Dispatch, net
  <2> QED  BY <1>2, <1>3, <1>5, <2>3 DEF Known, net
<1>6. Used' = Used
  BY <1>3 DEF Used, Writing
<1>7. CASE UNCHANGED <<ct_xid_to_ucb, answered>>
  <2>1. Types' /\ Known' \subseteq Known
    BY <1>1, <1>5, <1>7 DEF Types
  <2> QED  BY <1>3, <1>6, <1>7, <2>1, QuietStep
<1>8. ASSUME NEW e \in ct_xid_to_ucb, m.call # Garbled, e.xid = m.xid,
             ct_xid_to_ucb' = ct_xid_to_ucb \ {e},
             answered' = [answered EXCEPT ![e.call] = Append(@, m.call)]
      PROVE  IInv'
  <2>1. e \in Known /\ m \in Known
    BY <1>2, <1>8 DEF Known
  <2>2. m.call = e.call /\ e.call \in Calls
    BY <1>1, <1>8, <2>1 DEF IInv, Paired, Types, Message
  <2>3. answered[e.call] = <<>>
    BY DEF IInv, Waiting
  <2>4. answered' = [answered EXCEPT ![e.call] = <<e.call>>]
    BY <1>8, <2>2, <2>3, SMTT(30)
  <2>5. Types' /\ Known' \subseteq Known
    <3>1. answered' \in [Calls -> Seq(Calls)]
      BY <1>1, <2>2, <2>4, SMTT(30) DEF Types
    <3> QED  BY <1>5, <1>8, <3>1
  <2>6. Aged' /\ Paired'
    BY <1>3, <1>6, <2>5 DEF IInv, Aged, Paired, Age
  <2>7. Waiting'
    <3>1. ASSUME NEW d \in ct_xid_to_ucb' PROVE answered'[d.call] = <<>>
      <4>1. d \in ct_xid_to_ucb /\ d # e /\ d \in Known /\ d \in Message /\ e \in Message
        BY <1>1, <1>8 DEF Known, Types
      <4>2. d.call # e.call
        BY <2>1, <4>1, SMTT(30) DEF IInv, Paired, Message
      <4> QED  BY <1>1, <2>4, <4>1, <4>2 DEF IInv, Waiting, Types, Message
    <3>2. ASSUME NEW c \in Calls, result'[c] = "new" PROVE answered'[c] = <<>>
      <4>1. e.call \in Used
        BY <2>1 DEF IInv, Aged
      <4>2. pc # "write"
        BY DEF Dispatch
      <4>3. result[e.call] # "new" /\ result[c] = "new"
        BY <1>3, <3>2, <4>1, <4>2 DEF Used, Writing
      <4> QED  BY <1>1, <2>4, <4>3 DEF IInv, Waiting, Types
    <3> QED  BY <3>1, <3>2 DEF Waiting
  <2>8. CallbackOnce'
    BY <1>1, <2>2, <2>4 DEF IInv, CallbackOnce, Types
  <2> QED  BY <2>5, <2>6, <2>7, <2>8 DEF IInv
<1> QED  BY <1>4, <1>7, <1>8

\* A new call is put behind what the stream still has, and its record behind
\* those that are still to be sent.
LEMMA EncodeFacts ==
  ASSUME XidsSuffice, IInv, NEW c \in Calls, pc = "idle", result[c] = "new",
         Registering(c)
  PROVE  LET new == [xid |-> xid', call |-> c]
             list == Append(ct_sndlist, Encoded(c))
         IN /\ c \in Calls \ Used /\ Writing = {}
            /\ new \in Message /\ Encoded(c) \in Record /\ Encoded(c) # <<>>
            /\ Encoded(c)[Len(Encoded(c))] = new
            /\ Range(Encoded(c)) = Range(outbuf) \cup {new}
            /\ Len(Encoded(c)) = Len(outbuf) + 1
            /\ list \in Seq(Record) /\ Len(list) = Len(ct_sndlist) + 1
            /\ Range(list) = Range(ct_sndlist) \cup {Encoded(c)}
            /\ Inside(list) = Inside(ct_sndlist) \cup Range(outbuf) \cup {new}
            /\ IsInjective(ct_sndlist) /\ Encoded(c) \notin Range(ct_sndlist) =>
                 IsInjective(list)
<1> DEFINE new == [xid |-> xid', call |-> c]
           list == Append(ct_sndlist, Encoded(c))
<1>1. c \in Calls \ Used /\ Writing = {}
  BY DEF Used, Writing
<1>2. new \in Message
  BY <1>1, RegisterFacts
<1>3. Encoded(c) = Append(outbuf, new) /\ outbuf \in Seq(Message) /\ ct_sndlist \in Seq(Record)
  BY DEF Encoded, IInv, Types
<1> HIDE DEF new
<1>4. /\ Encoded(c) \in Seq(Message) /\ Encoded(c) # <<>>
      /\ Encoded(c)[Len(Encoded(c))] = new
      /\ Range(Encoded(c)) = Range(outbuf) \cup {new}
      /\ Len(Encoded(c)) = Len(outbuf) + 1
  BY <1>2, <1>3, AppendValues, SMTT(30)
<1>5. Encoded(c) \in Record
  BY <1>4 DEF Record
<1>6. /\ list \in Seq(Record) /\ Len(list) = Len(ct_sndlist) + 1
      /\ Range(list) = Range(ct_sndlist) \cup {Encoded(c)}
      /\ IsInjective(ct_sndlist) /\ Encoded(c) \notin Range(ct_sndlist) => IsInjective(list)
  <2>1. ct_sndlist \in Seq(Record)
    BY <1>3
  <2> QED  BY ONLY <1>5, <2>1, AppendValues, SMTT(30)
<1> HIDE DEF list
<1>7. Inside(list) = Inside(ct_sndlist) \cup Range(outbuf) \cup {new}
  BY <1>4, <1>6 DEF Inside
<1> QED  BY <1>1, <1>2, <1>4, <1>5, <1>6, <1>7 DEF new, list

\* What a call registers is finite.
LEMMA TableGrows ==
  ASSUME Types, NEW m \in Message, ct_xid_to_ucb' \subseteq ct_xid_to_ucb \cup {m}
  PROVE  ct_xid_to_ucb' \subseteq Message /\ IsFiniteSet(ct_xid_to_ucb')
<1>1. IsFiniteSet(ct_xid_to_ucb \cup {m})
  BY FS_AddElement DEF Types
<1> QED  BY <1>1, FS_Subset DEF Types

\* A call that fails before anything is sent leaves its callback and its bytes.
LEMMA CallNotEncodedStep ==
  ASSUME XidsSuffice, IInv, NEW c \in Calls, CallNotEncoded(c)
  PROVE  IInv'
<1> DEFINE new == [xid |-> xid', call |-> c]
<1>1. Types /\ Registering(c) /\ pc = "idle" /\ result[c] = "new"
  BY DEF IInv, CallNotEncoded, Registering
<1>2. /\ c \in Calls \ Used /\ Writing = {} /\ new \in Message
      /\ Encoded(c) \in Seq(Message) /\ Range(Encoded(c)) = Range(outbuf) \cup {new}
  BY <1>1, EncodeFacts DEF Record
<1>3. xid' \in Xids /\ ct_xid_to_ucb' \subseteq ct_xid_to_ucb \cup {new}
  BY <1>1, <1>2, RegisterFacts
<1> HIDE DEF new
<1>4. /\ UNCHANGED <<blocking, ct_pendingcalls, ct_sndlist, net, pc, receive, answered>>
      /\ outbuf' = Encoded(c)
      /\ result' = [result EXCEPT ![c] = "RPC_CANTENCODEARGS"] /\ faults' \in Nat
  BY <1>1, SMTT(30) DEF CallNotEncoded, Returned, NotRegistered, Fault, Types
<1>5. Types'
  <2>1. result' \in [Calls -> Results]
    BY <1>1, <1>4 DEF Types, Results
  <2> QED  BY <1>1, <1>2, <1>3, <1>4, <2>1, TableGrows DEF Types, net, receive
<1>6. Known' \subseteq Known \cup {new}
  BY <1>2, <1>3, <1>4 DEF Known, net, receive
<1>7. /\ Used' = Used \cup {c}
      /\ \A d \in Calls : result'[d] = "new" => result[d] = "new"
  BY <1>1, <1>4 DEF Used, Writing, Types
<1> QED  BY <1>1, <1>2, <1>4, <1>5, <1>6, <1>7, RegisterStep DEF new

\* So does a call whose write() fails; earlier records may have been sent.
LEMMA CallNotSentStep ==
  ASSUME XidsSuffice, IInv, NEW c \in Calls, CallNotSent(c)
  PROVE  IInv'
<1> DEFINE new == [xid |-> xid', call |-> c]
           list == Append(ct_sndlist, Encoded(c))
<1>1. Types /\ Registering(c) /\ pc = "idle" /\ result[c] = "new"
  BY DEF IInv, CallNotSent, Registering
<1>2. /\ c \in Calls \ Used /\ Writing = {} /\ new \in Message
      /\ Encoded(c) \in Seq(Message) /\ Range(Encoded(c)) = Range(outbuf) \cup {new}
      /\ list \in Seq(Record)
      /\ Inside(list) = Inside(ct_sndlist) \cup Range(outbuf) \cup {new}
  BY <1>1, EncodeFacts DEF Record
<1>3. xid' \in Xids /\ ct_xid_to_ucb' \subseteq ct_xid_to_ucb \cup {new}
  BY <1>1, <1>2, RegisterFacts
<1>4. /\ UNCHANGED <<blocking, ct_pendingcalls, room, replies, half, eof, pc, receive,
                     answered>>
      /\ outbuf' = Encoded(c)
      /\ result' = [result EXCEPT ![c] = "RPC_CANTENCODEARGS"] /\ faults' \in Nat
  BY <1>1, SMTT(30) DEF CallNotSent, Returned, WriteFails, NotRegistered, Fault, Types
<1>5. PICK k \in 0 .. Fitting(list) : Send(list, k)
  BY <1>4 DEF CallNotSent
<1> HIDE DEF new, list
<1>6. /\ requests' \in Seq(Record) /\ Len(requests') <= room.snd
      /\ ct_sndlist' \in Seq(Record)
      /\ Inside(ct_sndlist') \cup Inside(requests') = Inside(list) \cup Inside(requests)
  BY <1>1, <1>2, <1>5, SendFacts
<1>7. Types'
  <2>1. result' \in [Calls -> Results]
    BY <1>1, <1>4 DEF Types, Results
  <2> QED  BY <1>1, <1>2, <1>3, <1>4, <1>6, <2>1, TableGrows DEF Types, receive
<1>8. Known' \subseteq Known \cup {new}
  BY <1>2, <1>3, <1>4, <1>6 DEF Known, receive
<1>9. /\ Used' = Used \cup {c}
      /\ \A d \in Calls : result'[d] = "new" => result[d] = "new"
  BY <1>1, <1>4 DEF Used, Writing, Types
<1> QED  BY <1>1, <1>2, <1>4, <1>7, <1>8, <1>9, RegisterStep DEF new

\* A call is accepted, or waits in its write().
LEMMA CallAccepted ==
  ASSUME XidsSuffice, IInv, NEW c \in Calls, NEW f, Call(c, f)
  PROVE  IInv'
<1> DEFINE new == [xid |-> xid', call |-> c]
           list == Append(ct_sndlist, Encoded(c))
<1>1. Types /\ Registering(c) /\ pc = "idle" /\ result[c] = "new"
  BY DEF IInv, Call, Registering
<1>2. /\ c \in Calls \ Used /\ Writing = {} /\ new \in Message
      /\ Encoded(c) \in Seq(Message) /\ Range(Encoded(c)) = Range(outbuf) \cup {new}
      /\ Encoded(c) # <<>> /\ Encoded(c)[Len(Encoded(c))] = new
      /\ list \in Seq(Record)
      /\ Inside(list) = Inside(ct_sndlist) \cup Range(outbuf) \cup {new}
  BY <1>1, EncodeFacts DEF Record
<1>3. xid' \in Xids /\ ct_xid_to_ucb' \subseteq ct_xid_to_ucb \cup {new}
  BY <1>1, <1>2, RegisterFacts
<1>4. /\ UNCHANGED <<blocking, room, replies, half, eof, answered>>
      /\ batch' = <<>> /\ called_back' = 0
      /\ \/ /\ pc' = "write" /\ ct_sndlist' # <<>>
            /\ outbuf' = Encoded(c)
            /\ UNCHANGED <<ct_pendingcalls, result>>
         \/ /\ pc' = "flush"
            /\ outbuf' = <<>>
            /\ ct_pendingcalls' = ct_pendingcalls + 1
            /\ result' = [result EXCEPT ![c] = "RPC_SUCCESS"]
  BY DEF Call, Enter, Accepted, Returned
<1>5. PICK k \in 0 .. Fitting(list) : Send(list, k)
  <2>1. PICK k \in Sendable(list, blocking) : Send(list, k)
    BY DEF Call
  <2>2. Fitting(list) \in Nat
    BY <1>1, <1>2, SMTT(30) DEF Fitting, Types
  <2> QED  BY <2>1, <2>2, SMTT(30) DEF Sendable
<1> HIDE DEF list
<1>6. /\ requests' \in Seq(Record) /\ Len(requests') <= room.snd
      /\ ct_sndlist' \in Seq(Record)
      /\ Inside(ct_sndlist') \cup Inside(requests') = Inside(list) \cup Inside(requests)
  BY <1>1, <1>2, <1>5, SendFacts
<1>7. new.call = c
  OBVIOUS
<1> HIDE DEF new
<1>8. Types'
  <2>1. result' \in [Calls -> Results] /\ ct_pendingcalls' \in Int /\ outbuf' \in Seq(Message)
    <3>1. /\ result \in [Calls -> Results] /\ ct_pendingcalls \in Int
          /\ "RPC_SUCCESS" \in Results /\ <<>> \in Seq(Message)
      BY <1>1, SMTT(30) DEF Types, Results
    <3>2. Encoded(c) \in Seq(Message)
      BY <1>2
    <3>3. result' \in [Calls -> Results]
      BY ONLY <1>4, <3>1
    <3>4. ct_pendingcalls' \in Int
      BY ONLY <1>4, <3>1, SMTT(30)
    <3>5. outbuf' \in Seq(Message)
      BY ONLY <1>4, <3>1, <3>2, ZenonT(60)
    <3> QED  BY ONLY <3>3, <3>4, <3>5
  <2>2. pc' = "write" => /\ outbuf' # <<>> /\ result'[outbuf'[Len(outbuf')].call] = "new"
                         /\ ct_sndlist' # <<>>
    BY <1>1, <1>2, <1>4, <1>7
  <2>3. pc' # "dispatch" /\ batch' \in Seq(Reply) /\ called_back' \in Nat
    BY <1>4, SMTT(30)
  <2>4. ct_xid_to_ucb' \subseteq Message /\ IsFiniteSet(ct_xid_to_ucb')
    BY <1>1, <1>2, <1>3, TableGrows
  <2>5. faults' \in Nat
    BY <1>1, SMTT(30) DEF Call, NotRegistered, Fault, Types
  <2> QED  BY <1>1, <1>3, <1>4, <1>6, <2>1, <2>2, <2>3, <2>4, <2>5 DEF Types
<1>9. Known' \subseteq Known \cup {new}
  <2>1. Range(batch') = {}
    BY <1>4, SMTT(30) DEF Range
  <2>2. Range(outbuf') \subseteq Range(outbuf) \cup {new}
    <3>1. CASE outbuf' = <<>>
      BY <3>1, SMTT(30) DEF Range
    <3>2. CASE outbuf' = Encoded(c)
      BY <1>2, <3>2
    <3> QED  BY <1>4, <3>1, <3>2
  <2> QED  BY <1>2, <1>3, <1>4, <1>6, <2>1, <2>2 DEF Known
<1>10. \A d \in Calls : result'[d] = "new" => result[d] = "new"
  BY <1>1, <1>4 DEF Types
<1>11. Used' = Used \cup {c}
  <2>1. CASE pc' = "write"
    BY <1>2, <1>4, <1>7, <2>1 DEF Used, Writing
  <2>2. CASE pc' # "write"
    BY <1>1, <1>4, <2>2 DEF Used, Writing, Types
  <2> QED  BY <2>1, <2>2
<1> QED  BY <1>1, <1>2, <1>4, <1>8, <1>9, <1>10, <1>11, RegisterStep DEF new

\* A step of the connection, in whichever order the calls are made.
Step ==
  \/ \E c \in Calls : CallStep(c, Flags)
  \/ \E f \in Flags : Receive(f)
  \/ ReceiveStep
  \/ AnyReply
  \/ ServerClose

\* Every step of the specification is one.
LEMMA NextIsStep == [Next]_vars => [Step]_vars
BY DEF Next, Step

\* Every step keeps the invariant.
LEMMA StepIInv ==
  ASSUME XidsSuffice, IInv, [Step]_vars
  PROVE  IInv'
<1>1. CASE \E c \in Calls : CallStep(c, Flags)
  BY <1>1, CallNoMemStep, CallNotEncodedStep, CallNotSentStep, CallAccepted DEF CallStep
<1>2. CASE \E f \in Flags : Receive(f)
  BY <1>2, ReceiveKeeps
<1>3. CASE ReceiveStep
  BY <1>3, WriteStep, FlushStep, ReadPartStep, ReadRepliesStep, ReadNothingStep,
     DispatchStep, ReturnStep DEF ReceiveStep
<1>4. CASE AnyReply \/ ServerClose
  BY <1>4, ServerReplyStep, ServerCloseStep DEF AnyReply
<1>5. CASE UNCHANGED vars
  <2>1. Types' /\ Known' = Known /\ Used' = Used
    BY <1>5 DEF vars, ct, net, receive, history, IInv, Types, Known, Used, Writing
  <2> QED  BY <1>5, <2>1, QuietStep DEF vars, ct, history
<1> QED  BY <1>1, <1>2, <1>3, <1>4, <1>5 DEF Step

\* A callback is run once at most, and with the reply to its own call, for any
\* number of calls up to the number of xids, whatever fails and in whichever
\* order the server answers.
THEOREM CallbackOnceHolds ==
  ASSUME XidsSuffice
  PROVE  Spec => []CallbackOnce
<1>1. Init => IInv
  BY InitIInv
<1>2. IInv /\ [Next]_vars => IInv'
  BY NextIsStep, StepIInv
<1>3. IInv => CallbackOnce
  BY DEF IInv
<1> QED  BY <1>1, <1>2, <1>3, PTL DEF Spec

\* The count, with the call whose write() is still to end, is not more than the
\* records and replies on their way.
OnTheWay ==
  ct_pendingcalls + (IF pc = "write" THEN 1 ELSE 0) - called_back <= InFlight

\* The lengths that are added up.
LEMMA Lengths ==
  ASSUME Types
  PROVE  /\ Len(ct_sndlist) \in Nat /\ Len(requests) \in Nat
         /\ Len(replies) \in Nat /\ Len(batch) \in Nat
         /\ ct_pendingcalls \in Int /\ called_back \in Nat
         /\ InFlight \in Nat
BY SMTT(30) DEF Types, InFlight

\* A step after which no more is on its way and counted than before.
LEMMA SameOnTheWay ==
  ASSUME Types, OnTheWay, InFlight' = InFlight, UNCHANGED <<ct_pendingcalls, called_back>>,
         pc' # "write" \/ pc = "write"
  PROVE  OnTheWay'
BY Lengths, SMTT(30) DEF OnTheWay

\* A record is sent or stays in ct_sndlist: the record of a new call is added.
LEMMA CallOnTheWay ==
  ASSUME XidsSuffice, IInv, OnTheWay, NEW c \in Calls, CallNotSent(c) \/ \E f \in Flags : Call(c, f)
  PROVE  OnTheWay'
<1> DEFINE list == Append(ct_sndlist, Encoded(c))
<1>1. Types /\ Registering(c) /\ pc = "idle" /\ result[c] = "new" /\ batch = <<>>
      /\ called_back = 0
  BY DEF IInv, Types, CallNotSent, Call, Registering
<1>2. list \in Seq(Record) /\ Len(list) = Len(ct_sndlist) + 1
  BY <1>1, EncodeFacts
<1>3. PICK k \in 0 .. Fitting(list) : Send(list, k)
  <2>1. CASE CallNotSent(c)
    BY <2>1 DEF CallNotSent
  <2>2. CASE \E f \in Flags : Call(c, f)
    <3>1. PICK k \in Sendable(list, blocking) : Send(list, k)
      BY <2>2 DEF Call
    <3>2. Fitting(list) \in Nat
      BY <1>1, <1>2, SMTT(30) DEF Fitting, Types
    <3> QED  BY <3>1, <3>2, SMTT(30) DEF Sendable
  <2> QED  BY <2>1, <2>2
<1> HIDE DEF list
<1>4. Len(ct_sndlist') + Len(requests') = Len(list) + Len(requests)
  BY <1>1, <1>2, <1>3, SendFacts
<1>5. /\ replies' = replies /\ batch' = <<>> /\ called_back' = 0
      /\ \/ pc' # "write" /\ ct_pendingcalls' \in {ct_pendingcalls, ct_pendingcalls + 1}
         \/ pc' = "write" /\ ct_pendingcalls' = ct_pendingcalls
  BY <1>1 DEF CallNotSent, Call, Enter, Accepted, receive
<1>6. InFlight' = InFlight + 1
  <2>1. /\ Len(ct_sndlist) \in Nat /\ Len(requests) \in Nat /\ Len(replies) \in Nat
    BY <1>1, Lengths
  <2>2. InFlight' = Len(list) + Len(requests) + Len(replies) + Len(batch)
    BY <1>1, <1>4, <1>5 DEF InFlight
  <2> QED  BY ONLY <1>1, <1>2, <2>1, <2>2, SMTT(30) DEF InFlight
<1> QED  BY <1>1, <1>5, <1>6, Lengths, SMTT(30) DEF OnTheWay

\* Nothing is lost or doubled by the flush and the write().
LEMMA SendOnTheWay ==
  ASSUME IInv, OnTheWay, Write \/ Flush
  PROVE  OnTheWay'
<1>1. Types /\ replies' = replies /\ batch' = batch /\ batch = <<>>
      /\ called_back' = called_back
  BY DEF IInv, Types, Write, Flush, AfterFlush, Stay, Leave, receive
<1>2. Len(ct_sndlist') + Len(requests') = Len(ct_sndlist) + Len(requests)
  <2>1. \/ \E k \in 0 .. Fitting(ct_sndlist) : Send(ct_sndlist, k)
        \/ UNCHANGED <<ct_sndlist, requests>>
    <3>1. Fitting(ct_sndlist) \in Nat
      BY <1>1, SMTT(30) DEF Fitting, Types
    <3>2. /\ Fitting(ct_sndlist) \in 0 .. Fitting(ct_sndlist)
          /\ \A p : Sendable(ct_sndlist, p) \subseteq 0 .. Fitting(ct_sndlist)
      BY <3>1, SMTT(30) DEF Sendable
    <3> QED  BY <3>2 DEF Write, Flush
  <2>2. CASE \E k \in 0 .. Fitting(ct_sndlist) : Send(ct_sndlist, k)
    BY <1>1, <2>2, SendFacts DEF Types
  <2> QED  BY <2>1, <2>2
<1>3. InFlight' = InFlight
  BY <1>1, <1>2 DEF InFlight
<1>4. \/ pc' # "write" /\ ct_pendingcalls' = ct_pendingcalls
      \/ pc = "write" /\ pc' = "write" /\ ct_pendingcalls' = ct_pendingcalls
      \/ pc = "write" /\ pc' # "write" /\ ct_pendingcalls' = ct_pendingcalls + 1
  BY DEF Write, Flush, AfterFlush, Stay, Leave, Accepted, receive
<1> QED  BY <1>1, <1>3, <1>4, Lengths, SMTT(30) DEF OnTheWay

\* A reply is read, is counted as a callback, and is taken off the count.
LEMMA ReplyOnTheWay ==
  ASSUME IInv, OnTheWay, AnyReply \/ ReceiveStep, ~Write, ~Flush
  PROVE  OnTheWay'
<1>1. Types
  BY DEF IInv
<1>2. CASE AnyReply
  <2>1. PICK k \in 1 .. Len(requests) : ServerReply(k)
    BY <1>2 DEF AnyReply
  <2>2. requests \in Seq(Record) /\ replies \in Seq(Reply)
    BY <1>1 DEF Types
  <2>3. Len(requests') = Len(requests) - 1
    BY <2>1, <2>2, WithoutValues DEF ServerReply
  <2>4. Len(replies') = Len(replies) + 1
    <3>1. \A e : Len(Append(replies, e)) = Len(replies) + 1
      BY <2>2, SMTT(30)
    <3> QED  BY <2>1, <3>1 DEF ServerReply
  <2>5. UNCHANGED <<ct_sndlist, batch, ct_pendingcalls, called_back, pc>>
    BY <2>1 DEF ServerReply, ct, receive
  <2>6. InFlight' = InFlight
    BY <1>1, <2>3, <2>4, <2>5, Lengths, SMTT(30) DEF InFlight
  <2> QED  BY <1>1, <2>5, <2>6, SameOnTheWay
<1>3. CASE ReadPart \/ ReadNothing
  <2>1. /\ UNCHANGED <<ct_sndlist, requests, replies, batch, ct_pendingcalls, called_back>>
        /\ pc' # "write"
    BY <1>1, <1>3 DEF ReadPart, ReadNothing, Stay, Leave, ct, net, receive, Types
  <2>2. InFlight' = InFlight
    BY <2>1 DEF InFlight
  <2> QED  BY <1>1, <2>1, <2>2, SameOnTheWay
<1>4. CASE \E n \in 1 .. Len(replies), part \in BOOLEAN : ReadReplies(n, part)
  <2>1. PICK n \in 1 .. Len(replies), part \in BOOLEAN : ReadReplies(n, part)
    BY <1>4
  <2>2. n \in 0 .. Len(replies) /\ replies \in Seq(Reply)
    BY <1>1, SMTT(30) DEF Types
  <2>3. Len(batch') = n /\ Len(replies') = Len(replies) - n /\ Len(batch) = 0
    BY <1>1, <2>1, <2>2, CutValues, SMTT(30) DEF ReadReplies, Types
  <2>4. UNCHANGED <<ct_sndlist, requests, ct_pendingcalls, called_back>> /\ pc' # "write"
    BY <2>1 DEF ReadReplies, ct
  <2>5. InFlight' = InFlight
    BY <1>1, <2>2, <2>3, <2>4, Lengths, SMTT(30) DEF InFlight
  <2> QED  BY <1>1, <2>4, <2>5, SameOnTheWay
<1>5. CASE Dispatch
  <2>1. Len(batch') = Len(batch) - 1
    BY <1>1, <1>5, TailValues DEF Dispatch, Types
  <2>2. UNCHANGED <<ct_sndlist, requests, replies, ct_pendingcalls, pc>>
        /\ called_back' = called_back + 1
    BY <1>5 DEF Dispatch, net
  <2> QED  BY <1>1, <2>1, <2>2, Lengths, SMTT(30) DEF OnTheWay, InFlight
<1>6. CASE Return
  <2>1. /\ UNCHANGED <<ct_sndlist, requests, replies, batch>>
        /\ pc = "dispatch" /\ pc' = "idle"
        /\ ct_pendingcalls' = ct_pendingcalls - called_back /\ called_back' = 0
    BY <1>6 DEF Return, Leave, net
  <2>2. InFlight' = InFlight
    BY <2>1 DEF InFlight
  <2> QED  BY <1>1, <2>1, <2>2, Lengths, SMTT(30) DEF OnTheWay
<1> QED  BY <1>2, <1>3, <1>4, <1>5, <1>6 DEF ReceiveStep

\* Every step keeps the count within what is on its way.
LEMMA StepOnTheWay ==
  ASSUME XidsSuffice, IInv, OnTheWay, [Step]_vars
  PROVE  OnTheWay'
<1>1. Types
  BY DEF IInv
<1>2. CASE \E c \in Calls : CallStep(c, Flags)
  <2>1. PICK c \in Calls : CallStep(c, Flags)
    BY <1>2
  <2>2. CASE CallNoMem(c) \/ CallNotEncoded(c)
    <3>1. UNCHANGED <<ct_sndlist, requests, replies, batch, ct_pendingcalls, called_back, pc>>
      BY <2>2 DEF CallNoMem, CallNotEncoded, ct, net, receive
    <3>2. InFlight' = InFlight
      BY <3>1 DEF InFlight
    <3> QED  BY <1>1, <3>1, <3>2, SameOnTheWay
  <2> QED  BY <2>1, <2>2, CallOnTheWay DEF CallStep
<1>3. CASE (\E f \in Flags : Receive(f)) \/ ServerClose \/ UNCHANGED vars
  <2>1. /\ UNCHANGED <<ct_sndlist, requests, replies, batch, ct_pendingcalls, called_back>>
        /\ pc' # "write" \/ pc = "write"
    BY <1>1, <1>3 DEF Receive, ServerClose, Enter, vars, ct, net, receive, Types
  <2>2. InFlight' = InFlight
    BY <2>1 DEF InFlight
  <2> QED  BY <1>1, <2>1, <2>2, SameOnTheWay
<1>4. CASE Write \/ Flush
  BY <1>4, SendOnTheWay
<1>5. CASE (AnyReply \/ ReceiveStep) /\ ~Write /\ ~Flush
  BY <1>5, ReplyOnTheWay
<1> QED  BY <1>2, <1>3, <1>4, <1>5 DEF Step

\* ct_pendingcalls never counts a reply that cannot come any more, whatever
\* fails and whatever the replies are: clnttcp_nb_receive does not read on for
\* more than is on its way.
THEOREM PendingOnTheWayHolds ==
  ASSUME XidsSuffice
  PROVE  Spec => []PendingOnTheWay
<1>1. Init => IInv /\ OnTheWay
  <2>1. Init => OnTheWay
    BY SMTT(30) DEF Init, OnTheWay, InFlight
  <2> QED  BY <2>1, InitIInv
<1>2. IInv /\ OnTheWay /\ [Next]_vars => IInv' /\ OnTheWay'
  BY NextIsStep, StepIInv, StepOnTheWay
<1>3. IInv /\ OnTheWay => PendingOnTheWay
  BY Lengths, SMTT(30) DEF IInv, OnTheWay, PendingOnTheWay
<1> QED  BY <1>1, <1>2, <1>3, PTL DEF Spec

-----------------------------------------------------------------------------
(* ct_pendingcalls, as long as no call is cut short.                       *)

\* The sets that are counted are finite, and one more or less in them counts.
LEMMA CountFacts ==
  ASSUME Types
  PROVE  /\ IsFiniteSet(ct_xid_to_ucb) /\ Cardinality(ct_xid_to_ucb) \in Nat
         /\ IsFiniteSet(Outstanding) /\ Cardinality(Outstanding) \in Nat
         /\ \A S, x : IsFiniteSet(S) /\ x \notin S =>
              Cardinality(S \cup {x}) = Cardinality(S) + 1
         /\ \A S, x : IsFiniteSet(S) /\ x \in S =>
              Cardinality(S \ {x}) = Cardinality(S) - 1
         /\ Cardinality(Writing) = IF pc = "write" THEN 1 ELSE 0
         /\ Len(ct_sndlist) \in Nat /\ Len(requests) \in Nat
         /\ Len(replies) \in Nat /\ Len(batch) \in Nat
<1>1. IsFiniteSet(ct_xid_to_ucb) /\ Cardinality(ct_xid_to_ucb) \in Nat
  BY FS_CardinalityType DEF Types
<1>2. IsFiniteSet(Outstanding) /\ Cardinality(Outstanding) \in Nat
  <2>1. Outstanding \subseteq Calls
    BY DEF Outstanding
  <2> QED  BY <2>1, ClientAssumption, FS_Subset, FS_CardinalityType DEF ClientAssumption
<1>3. ASSUME NEW S, NEW x, IsFiniteSet(S), x \notin S
      PROVE  Cardinality(S \cup {x}) = Cardinality(S) + 1
  BY <1>3, FS_AddElement
<1>4. ASSUME NEW S, NEW x, IsFiniteSet(S), x \in S
      PROVE  Cardinality(S \ {x}) = Cardinality(S) - 1
  BY <1>4, FS_RemoveElement
<1>5. Cardinality(Writing) = IF pc = "write" THEN 1 ELSE 0
  BY FS_Singleton, FS_EmptySet DEF Writing
<1>6. /\ Len(ct_sndlist) \in Nat /\ Len(requests) \in Nat
      /\ Len(replies) \in Nat /\ Len(batch) \in Nat
  BY SMTT(30) DEF Types
<1> QED  BY <1>1, <1>2, <1>3, <1>4, <1>5, <1>6

\* What the counts come to, in numbers.
LEMMA CountValues ==
  Types => (Counts <=> /\ InFlight = Cardinality(ct_xid_to_ucb)
                       /\ ct_pendingcalls + (IF pc = "write" THEN 1 ELSE 0)
                            = Cardinality(ct_xid_to_ucb) + called_back
                       /\ Cardinality(Outstanding) + (IF pc = "write" THEN 1 ELSE 0)
                            = Cardinality(ct_xid_to_ucb))
BY CountFacts DEF Counts

\* A call that was cut short is never forgotten.
LEMMA CleanBefore ==
  ASSUME Types, [Step]_vars, Clean'
  PROVE  Clean
<1>1. faults' = 0 => faults = 0
  <2>1. faults' \in {faults, faults + 1}
    BY DEF Step, CallStep, CallNoMem, CallNotEncoded, CallNotSent, Call, Receive,
       ReceiveStep, Write, Flush, ReadPart, ReadReplies, ReadNothing, Dispatch, Return,
       AnyReply, ServerReply, ServerClose, WriteFails, NotRegistered, Fault, history, vars
  <2> QED  BY <2>1, SMTT(30) DEF Types
<1>2. ASSUME NEW c \in Calls, result[c] = "RPC_CANTENCODEARGS"
      PROVE  result'[c] = "RPC_CANTENCODEARGS"
  <2>1. CASE Write
    <3>1. pc = "write"
      BY <2>1 DEF Write
    <3>2. result[outbuf[Len(outbuf)].call] = "new"
      BY <3>1 DEF Types
    <3> QED  BY <1>2, <2>1, <3>2 DEF Write, Accepted, Returned, Types
  <2>2. CASE \E d \in Calls : CallStep(d, Flags)
    BY <1>2, <2>2 DEF CallStep, CallNoMem, CallNotEncoded, CallNotSent, Call, Accepted,
       Returned, Types
  <2>3. CASE ~Write /\ ~\E d \in Calls : CallStep(d, Flags)
    <3>1. result' = result
      BY <2>3 DEF Step, Receive, ReceiveStep, Flush, ReadPart, ReadReplies, ReadNothing,
         Dispatch, Return, AnyReply, ServerReply, ServerClose, history, vars
    <3> QED  BY <1>2, <3>1
  <2> QED  BY <2>1, <2>2, <2>3
<1> QED  BY <1>1, <1>2 DEF Clean

\* Lengths are natural numbers, before and after a step.
LEMMA LengthsBoth ==
  ASSUME Types, Types'
  PROVE  /\ Len(ct_sndlist) \in Nat /\ Len(requests) \in Nat
         /\ Len(ct_sndlist') \in Nat /\ Len(requests') \in Nat
         /\ Len(replies) \in Nat /\ Len(batch) \in Nat
<1>1. /\ ct_sndlist \in Seq(Record) /\ requests \in Seq(Record)
      /\ ct_sndlist' \in Seq(Record) /\ requests' \in Seq(Record)
      /\ replies \in Seq(Reply) /\ batch \in Seq(Reply)
  BY DEF Types
<1> QED  BY ONLY <1>1, SMTT(30)

\* The same after a step.
LEMMA CountsAfter ==
  ASSUME Types', NEW w \in {0, 1}, w = IF pc' = "write" THEN 1 ELSE 0,
         InFlight' = Cardinality(ct_xid_to_ucb'),
         ct_pendingcalls' + w = Cardinality(ct_xid_to_ucb') + called_back',
         Cardinality(Outstanding') + w = Cardinality(ct_xid_to_ucb')
  PROVE  Counts'
<1>1. (Types => (Counts <=> /\ InFlight = Cardinality(ct_xid_to_ucb)
                            /\ ct_pendingcalls + (IF pc = "write" THEN 1 ELSE 0)
                                 = Cardinality(ct_xid_to_ucb) + called_back
                            /\ Cardinality(Outstanding) + (IF pc = "write" THEN 1 ELSE 0)
                                 = Cardinality(ct_xid_to_ucb)))'
  BY CountValues, PTL
<1> QED  BY <1>1

\* Steps that move no call: a part of a reply is read, a read finds nothing, the
\* application enters clnttcp_nb_receive, or the server closes.
LEMMA CountSame ==
  ASSUME IInv, IInv', Tidy, Counts, pc # "write", pc' # "write",
         UNCHANGED <<ct_xid_to_ucb, ct_pendingcalls, outbuf, ct_sndlist, requests, replies,
                     batch, called_back, result, answered>>
  PROVE  Tidy' /\ Counts'
<1>1. Tidy'
  BY DEF Tidy, Records, Answers
<1>2. InFlight' = InFlight /\ Outstanding' = Outstanding
  BY DEF InFlight, Outstanding
<1>3. Counts'
  <2>1. /\ InFlight = Cardinality(ct_xid_to_ucb)
        /\ ct_pendingcalls + 0 = Cardinality(ct_xid_to_ucb) + called_back
        /\ Cardinality(Outstanding) + 0 = Cardinality(ct_xid_to_ucb)
    BY CountValues DEF IInv
  <2> QED  BY <1>2, <2>1, CountsAfter DEF IInv
<1> QED  BY <1>1, <1>3

\* A flush moves records from the client to the server.
LEMMA CountFlush ==
  ASSUME IInv, IInv', Tidy, Counts, Flush
  PROVE  Tidy' /\ Counts'
<1>1. Types /\ pc = "flush" /\ pc' # "write"
  BY DEF IInv, Flush, AfterFlush, Stay, Leave
<1>2. UNCHANGED <<ct_xid_to_ucb, ct_pendingcalls, outbuf, replies, result, answered, batch,
                  called_back>>
  BY <1>1 DEF Flush, AfterFlush, Stay, Leave, receive, Types
<1>3. /\ Len(ct_sndlist') + Len(requests') = Len(ct_sndlist) + Len(requests)
      /\ Range(ct_sndlist') \cup Range(requests') = Range(ct_sndlist) \cup Range(requests)
      /\ IsInjective(ct_sndlist') /\ IsInjective(requests')
      /\ Range(ct_sndlist') \cap Range(requests') = {}
  <2>1. CASE \E k \in 0 .. Fitting(ct_sndlist) : Send(ct_sndlist, k)
    BY <1>1, <2>1, SendFacts DEF Types, Tidy
  <2>2. CASE UNCHANGED <<requests, ct_sndlist>>
    BY <1>1, <2>2 DEF Types, Tidy
  <2>3. ASSUME NEW p, NEW k \in Sendable(ct_sndlist, p) PROVE k \in 0 .. Fitting(ct_sndlist)
    <3>1. Fitting(ct_sndlist) \in Nat
      BY <1>1, SMTT(30) DEF Fitting, Types
    <3> QED  BY <3>1, SMTT(30) DEF Sendable
  <2> QED  BY <2>1, <2>2, <2>3 DEF Flush
<1>4. Tidy'
  BY <1>1, <1>2, <1>3 DEF Tidy, Records, Answers
<1>5. InFlight' = InFlight /\ Outstanding' = Outstanding
  <2>1. Len(replies') = Len(replies) /\ Len(batch') = Len(batch)
    BY <1>2
  <2>2. /\ Len(ct_sndlist) \in Nat /\ Len(requests) \in Nat
        /\ Len(ct_sndlist') \in Nat /\ Len(requests') \in Nat
        /\ Len(replies) \in Nat /\ Len(batch) \in Nat
    BY LengthsBoth DEF IInv
  <2> QED  BY <1>2, <1>3, <2>1, <2>2 DEF InFlight, Outstanding
<1>6. Counts'
  <2>1. /\ InFlight = Cardinality(ct_xid_to_ucb)
        /\ ct_pendingcalls + 0 = Cardinality(ct_xid_to_ucb) + called_back
        /\ Cardinality(Outstanding) + 0 = Cardinality(ct_xid_to_ucb)
    BY <1>1, CountValues
  <2> QED  BY <1>1, <1>2, <1>5, <2>1, CountsAfter DEF IInv
<1> QED  BY <1>4, <1>6

\* Replies are read.
LEMMA CountRead ==
  ASSUME IInv, IInv', Tidy, Counts, NEW n \in 1 .. Len(replies), NEW part \in BOOLEAN,
         ReadReplies(n, part)
  PROVE  Tidy' /\ Counts'
<1>1. /\ Types /\ pc = "read" /\ pc' = "dispatch" /\ batch = <<>>
      /\ UNCHANGED <<ct_xid_to_ucb, ct_pendingcalls, outbuf, ct_sndlist, requests, result,
                     answered, called_back>>
  BY DEF IInv, Types, ReadReplies, ct, history
<1>2. /\ Len(batch') = n /\ Len(replies') = Len(replies) - n
      /\ Range(replies) = Range(batch') \cup Range(replies')
      /\ IsInjective(batch') /\ IsInjective(replies') /\ Range(batch') \cap Range(replies') = {}
  <2>1. n \in 0 .. Len(replies) /\ replies \in Seq(Reply)
    BY <1>1, SMTT(30) DEF Types
  <2> QED  BY <2>1, CutValues, SMTT(30) DEF ReadReplies, Tidy
<1>3. Range(batch) = {} /\ Len(batch) = 0
  BY <1>1, SMTT(30) DEF Range
<1>4. Tidy'
  BY <1>1, <1>2, <1>3 DEF Tidy, Records, Answers
<1>5. InFlight' = InFlight /\ Outstanding' = Outstanding
  <2>1. Len(ct_sndlist) \in Nat /\ Len(requests) \in Nat /\ Len(replies) \in Nat
    BY LengthsBoth DEF IInv
  <2> QED  BY <1>1, <1>2, <1>3, <2>1, SMTT(30) DEF InFlight, Outstanding
<1>6. Counts'
  <2>1. /\ InFlight = Cardinality(ct_xid_to_ucb)
        /\ ct_pendingcalls + 0 = Cardinality(ct_xid_to_ucb) + called_back
        /\ Cardinality(Outstanding) + 0 = Cardinality(ct_xid_to_ucb)
    BY <1>1, CountValues
  <2> QED  BY <1>1, <1>5, <2>1, CountsAfter DEF IInv
<1> QED  BY <1>4, <1>6

\* The callbacks that were run are taken off ct_pendingcalls.
LEMMA CountReturn ==
  ASSUME IInv, IInv', Tidy, Counts, Return
  PROVE  Tidy' /\ Counts'
<1>1. /\ Types /\ pc = "dispatch" /\ pc' = "idle" /\ batch = <<>> /\ batch' = <<>>
      /\ ct_pendingcalls' = ct_pendingcalls - called_back /\ called_back' = 0
      /\ UNCHANGED <<ct_xid_to_ucb, outbuf, ct_sndlist, requests, replies, result, answered>>
  BY DEF IInv, Return, Leave, net, history
<1>2. Tidy'
  BY <1>1 DEF Tidy, Records, Answers
<1>3. InFlight' = InFlight /\ Outstanding' = Outstanding
  BY <1>1 DEF InFlight, Outstanding
<1>4. Counts'
  <2>1. /\ InFlight = Cardinality(ct_xid_to_ucb)
        /\ ct_pendingcalls + 0 = Cardinality(ct_xid_to_ucb) + called_back
        /\ Cardinality(Outstanding) + 0 = Cardinality(ct_xid_to_ucb)
    BY <1>1, CountValues
  <2>2. ct_pendingcalls' + 0 = Cardinality(ct_xid_to_ucb') + called_back'
    BY <1>1, <2>1, CountFacts, SMTT(30) DEF Types
  <2> QED  BY <1>1, <1>3, <2>1, <2>2, CountsAfter DEF IInv
<1> QED  BY <1>2, <1>4

\* The server answers a request, which is one call.
LEMMA CountReply ==
  ASSUME IInv, IInv', Tidy, Counts, Clean', NEW k \in 1 .. Len(requests), ServerReply(k)
  PROVE  Tidy' /\ Counts'
<1> DEFINE r == requests[k]
<1>1. /\ Types /\ requests \in Seq(Record) /\ replies \in Seq(Reply)
      /\ UNCHANGED <<ct_xid_to_ucb, ct_pendingcalls, outbuf, ct_sndlist, result, answered,
                     pc, batch, called_back>>
  BY DEF IInv, Types, ServerReply, ct, receive
<1>2. /\ Len(requests') = Len(requests) - 1
      /\ Range(requests) = Range(requests') \cup {r}
      /\ IsInjective(requests') /\ r \notin Range(requests')
  BY <1>1, WithoutValues DEF ServerReply, Tidy
<1>3. PICK e \in ct_xid_to_ucb \ Answers : r = <<e>>
  BY <1>2 DEF Tidy, Records
<1>4. replies' = Append(replies, e)
  <2>1. ~Fault("reply")
    BY <1>1, SMTT(30) DEF Clean, Fault, Types
  <2>2. Head(r) = e
    BY <1>3, SMTT(30)
  <2> QED  BY <2>1, <2>2 DEF ServerReply
<1> HIDE DEF r
<1>5. e \in Reply
  BY <1>1, <1>3 DEF Types, Message, Reply
<1>6. /\ Len(replies') = Len(replies) + 1
      /\ Range(replies') = Range(replies) \cup {e} /\ IsInjective(replies')
  BY <1>1, <1>3, <1>4, <1>5, AppendValues, SMTT(30) DEF Tidy, Answers
<1>7. Tidy'
  <2>1. Answers' = Answers \cup {e} /\ Records' \subseteq Records /\ r \notin Records'
    BY <1>1, <1>2, <1>6 DEF Answers, Records, Tidy
  <2>2. ASSUME NEW s \in Records' PROVE \E d \in ct_xid_to_ucb' \ Answers' : s = <<d>>
    <3>1. PICK d \in ct_xid_to_ucb \ Answers : s = <<d>>
      BY <2>1 DEF Tidy
    <3>2. d # e
      BY <1>3, <2>1, <3>1
    <3> QED  BY <1>1, <2>1, <3>1, <3>2
  <2>3. Answers' \subseteq ct_xid_to_ucb'
    BY <1>1, <1>3, <2>1 DEF Tidy
  <2>4. /\ IsInjective(ct_sndlist') /\ IsInjective(batch')
        /\ Range(ct_sndlist') \cap Range(requests') = {}
        /\ Range(replies') \cap Range(batch') = {}
    <3>1. /\ IsInjective(ct_sndlist) /\ IsInjective(batch)
          /\ Range(ct_sndlist) \cap Range(requests) = {}
          /\ Range(replies) \cap Range(batch) = {}
      BY DEF Tidy
    <3>2. e \notin Range(batch)
      BY ONLY <1>3 DEF Answers
    <3>3. ct_sndlist' = ct_sndlist /\ batch' = batch
      BY ONLY <1>1
    <3>4. Range(ct_sndlist) \cap Range(requests') = {}
      BY ONLY <1>2, <3>1
    <3>5. Range(replies') \cap Range(batch) = {}
      BY ONLY <1>6, <3>1, <3>2
    <3> QED  BY ONLY <3>1, <3>3, <3>4, <3>5
  <2>5. (IF pc = "write" THEN Len(outbuf) = 1 ELSE outbuf = <<>>)'
        /\ \A c \in Calls : result'[c] \in {"new", "RPC_SUCCESS"}
    BY <1>1 DEF Tidy
  <2> QED  BY <1>2, <1>6, <2>2, <2>3, <2>4, <2>5 DEF Tidy
<1>8. InFlight' = InFlight /\ Outstanding' = Outstanding
  <2>1. Len(ct_sndlist) \in Nat /\ Len(requests) \in Nat /\ Len(replies) \in Nat
        /\ Len(batch) \in Nat
    BY <1>1, CountFacts
  <2> QED  BY <1>1, <1>2, <1>6, <2>1, SMTT(30) DEF InFlight, Outstanding
<1>9. Counts'
  <2> DEFINE w == IF pc = "write" THEN 1 ELSE 0
  <2>1. /\ InFlight = Cardinality(ct_xid_to_ucb)
        /\ ct_pendingcalls + w = Cardinality(ct_xid_to_ucb) + called_back
        /\ Cardinality(Outstanding) + w = Cardinality(ct_xid_to_ucb)
        /\ w \in {0, 1}
    BY <1>1, CountValues
  <2> QED  BY <1>1, <1>8, <2>1, CountsAfter DEF IInv
<1> QED  BY <1>7, <1>9

\* The reply that is dispatched is to a call that waits, and its callback is the
\* one that is taken out of the table.
LEMMA DispatchFacts ==
  ASSUME IInv, Tidy, Dispatch
  PROVE  LET m == Head(batch)
         IN /\ Len(batch') = Len(batch) - 1 /\ Range(batch) = {m} \cup Range(batch')
            /\ IsInjective(batch') /\ m \notin Range(batch')
            /\ m \in ct_xid_to_ucb /\ m \in Message
            /\ ct_xid_to_ucb' = ct_xid_to_ucb \ {m}
            /\ answered' = [answered EXCEPT ![m.call] = Append(@, m.call)]
<1> DEFINE m == Head(batch)
<1>1. Types /\ batch \in Seq(Reply) /\ batch # <<>>
  BY DEF IInv, Types, Dispatch
<1>2. /\ Len(batch') = Len(batch) - 1 /\ Range(batch) = {m} \cup Range(batch')
      /\ IsInjective(batch') /\ m \notin Range(batch')
  BY <1>1, TailValues DEF Dispatch, Tidy
<1>3. m \in ct_xid_to_ucb /\ m \in Message /\ m.call # Garbled
  BY <1>1, <1>2, ClientAssumption, SMTT(30) DEF ClientAssumption, Tidy, Answers, Types, Message
<1>4. PICK e \in ct_xid_to_ucb :
        /\ e.xid = m.xid
        /\ ct_xid_to_ucb' = ct_xid_to_ucb \ {e}
        /\ answered' = [answered EXCEPT ![e.call] = Append(@, m.call)]
  BY <1>3 DEF Dispatch, call_user_cb, RunNone, Unclaimed
<1>5. e \in Known /\ m \in Known /\ e \in Message
  BY <1>1, <1>3 DEF Known, Types
<1>6. e = m
  BY <1>3, <1>4, <1>5, SMTT(30) DEF IInv, Paired, Message
<1> QED  BY <1>2, <1>3, <1>4, <1>6

\* A callback is run, and there is one reply less.
LEMMA CountDispatch ==
  ASSUME IInv, IInv', Tidy, Counts, Dispatch
  PROVE  Tidy' /\ Counts'
<1> DEFINE m == Head(batch)
           n == Cardinality(ct_xid_to_ucb)
<1>1. /\ Types /\ batch \in Seq(Reply) /\ batch # <<>> /\ pc = "dispatch"
      /\ UNCHANGED <<ct_pendingcalls, outbuf, ct_sndlist, requests, replies, result, pc>>
      /\ called_back' = called_back + 1
  BY DEF IInv, Types, Dispatch, net
<1>2. /\ Len(batch') = Len(batch) - 1 /\ Range(batch) = {m} \cup Range(batch')
      /\ IsInjective(batch') /\ m \notin Range(batch')
  BY DispatchFacts
<1>3. m \in ct_xid_to_ucb /\ m \in Message
  BY DispatchFacts
<1>4. ct_xid_to_ucb' = ct_xid_to_ucb \ {m}
      /\ answered' = [answered EXCEPT ![m.call] = Append(@, m.call)]
  BY DispatchFacts
<1> HIDE DEF m
<1>5. Tidy'
  <2>1. Answers' = Answers \ {m} /\ m \in Answers /\ Records' = Records
    BY <1>1, <1>2 DEF Answers, Records, Tidy
  <2>2. \A r \in Records' : \E e \in ct_xid_to_ucb' \ Answers' : r = <<e>>
    BY <1>4, <2>1 DEF Tidy
  <2>3. Answers' \subseteq ct_xid_to_ucb'
    BY <1>4, <2>1 DEF Tidy
  <2> QED  BY <1>1, <1>2, <2>2, <2>3 DEF Tidy
<1>6. Outstanding' = Outstanding \ {m.call} /\ m.call \in Outstanding
  <2>1. m.call \in Calls /\ answered[m.call] = <<>> /\ result[m.call] = "RPC_SUCCESS"
    <3>1. m \in Known
      BY <1>3 DEF Known
    <3>2. result[m.call] # "new"
      BY <1>1, <1>3, <3>1 DEF IInv, Aged, Used, Writing
    <3> QED  BY <1>3, <3>2 DEF IInv, Waiting, Message, Tidy
  <2>2. answered'[m.call] # <<>>
    <3>1. Append(answered[m.call], m.call) # <<>>
      BY <1>1, <2>1, AppendValues, SMTT(30) DEF Types
    <3> QED  BY <1>1, <1>4, <2>1, <3>1 DEF Types
  <2>3. \A c \in Calls \ {m.call} : answered'[c] = answered[c]
    BY <1>1, <1>4 DEF Types
  <2> QED  BY <1>1, <2>1, <2>2, <2>3 DEF Outstanding
<1>7. Counts'
  <2>1. InFlight = n /\ ct_pendingcalls + 0 = n + called_back /\ Cardinality(Outstanding) + 0 = n
    BY <1>1, CountValues
  <2>2. Cardinality(ct_xid_to_ucb') = n - 1 /\ Cardinality(Outstanding') = Cardinality(Outstanding) - 1
    BY <1>1, <1>3, <1>4, <1>6, CountFacts
  <2>3. InFlight' = InFlight - 1
    BY <1>1, <1>2, CountFacts, SMTT(30) DEF InFlight
  <2>4. n \in Nat /\ Cardinality(Outstanding) \in Nat /\ ct_pendingcalls \in Int
        /\ called_back \in Nat
    BY <1>1, CountFacts DEF Types
  <2> HIDE DEF n
  <2>5. /\ InFlight' = Cardinality(ct_xid_to_ucb')
        /\ ct_pendingcalls' + 0 = Cardinality(ct_xid_to_ucb') + called_back'
        /\ Cardinality(Outstanding') + 0 = Cardinality(ct_xid_to_ucb')
    BY <1>1, <2>1, <2>2, <2>3, <2>4, SMTT(30)
  <2> QED  BY <1>1, <2>5, CountsAfter DEF IInv
<1> QED  BY <1>5, <1>7

\* A call is made.  It is accepted at once, or when its write() ends.
LEMMA CountCall ==
  ASSUME XidsSuffice, IInv, IInv', Tidy, Counts, NEW c \in Calls, NEW f, Call(c, f),
         Register(c)
  PROVE  Tidy' /\ Counts'
<1> DEFINE new == [xid |-> xid', call |-> c]
           list == Append(ct_sndlist, Encoded(c))
           n == Cardinality(ct_xid_to_ucb)
<1>1. Types /\ Registering(c) /\ pc = "idle" /\ result[c] = "new" /\ batch = <<>>
      /\ called_back = 0 /\ outbuf = <<>>
  BY DEF IInv, Call, Types, Tidy, Registering
<1>2. /\ c \in Calls \ Used
      /\ list \in Seq(Record) /\ Len(list) = Len(ct_sndlist) + 1
      /\ Range(list) = Range(ct_sndlist) \cup {Encoded(c)}
      /\ IsInjective(ct_sndlist) /\ Encoded(c) \notin Range(ct_sndlist) => IsInjective(list)
  BY <1>1, EncodeFacts
<1>3. /\ ct_xid_to_ucb' = ct_xid_to_ucb \cup {new} /\ new \notin Known
      /\ ct_xid_to_ucb \subseteq Known
  BY <1>1, <1>2, RegisterFacts DEF Known
<1>4. Encoded(c) = <<new>>
  BY <1>1, SMTT(30) DEF Encoded
<1>5. /\ UNCHANGED <<replies, answered>> /\ batch' = <<>> /\ called_back' = 0
      /\ \/ /\ pc' = "write"
            /\ outbuf' = Encoded(c)
            /\ UNCHANGED <<ct_pendingcalls, result>>
         \/ /\ pc' = "flush"
            /\ outbuf' = <<>>
            /\ ct_pendingcalls' = ct_pendingcalls + 1
            /\ result' = [result EXCEPT ![c] = "RPC_SUCCESS"]
  BY DEF Call, Enter, Accepted, Returned
<1>6. PICK k \in 0 .. Fitting(list) : Send(list, k)
  <2>1. PICK k \in Sendable(list, blocking) : Send(list, k)
    BY DEF Call
  <2>2. Fitting(list) \in Nat
    BY <1>1, <1>2, SMTT(30) DEF Fitting, Types
  <2> QED  BY <2>1, <2>2, SMTT(30) DEF Sendable
<1> HIDE DEF list, new
<1>7. <<new>> \notin Records
  <2>1. \A e : <<e>>[1] = e
    OBVIOUS
  <2> QED  BY <1>3, <2>1 DEF Tidy
<1>8. /\ Len(ct_sndlist') + Len(requests') = Len(ct_sndlist) + 1 + Len(requests)
      /\ Records' = Records \cup {<<new>>}
      /\ IsInjective(ct_sndlist') /\ IsInjective(requests')
      /\ Range(ct_sndlist') \cap Range(requests') = {}
  <2>1. IsInjective(list) /\ IsInjective(requests) /\ Range(list) \cap Range(requests) = {}
    BY <1>2, <1>4, <1>7 DEF Tidy, Records
  <2>2. /\ Len(ct_sndlist') + Len(requests') = Len(list) + Len(requests)
        /\ Range(ct_sndlist') \cup Range(requests') = Range(list) \cup Range(requests)
        /\ IsInjective(ct_sndlist') /\ IsInjective(requests')
        /\ Range(ct_sndlist') \cap Range(requests') = {}
    BY <1>1, <1>2, <1>6, <2>1, SendFacts
  <2> QED  BY <1>2, <1>4, <2>2 DEF Records
<1>9. Tidy'
  <2>1. Answers' = Answers
    BY <1>1, <1>5 DEF Answers
  <2>2. new \in ct_xid_to_ucb' \ Answers'
    BY <1>3, <2>1 DEF Tidy
  <2>3. \A r \in Records' : \E e \in ct_xid_to_ucb' \ Answers' : r = <<e>>
    BY <1>3, <1>8, <2>1, <2>2 DEF Tidy
  <2>4. Answers' \subseteq ct_xid_to_ucb'
    BY <1>3, <2>1 DEF Tidy
  <2>5. (IF pc = "write" THEN Len(outbuf) = 1 ELSE outbuf = <<>>)'
    BY <1>4, <1>5, SMTT(30)
  <2>6. \A d \in Calls : result'[d] \in {"new", "RPC_SUCCESS"}
    BY <1>1, <1>5 DEF Tidy, Types
  <2>7. /\ IsInjective(replies') /\ IsInjective(batch')
        /\ Range(replies') \cap Range(batch') = {}
    BY <1>1, <1>5 DEF Tidy
  <2> QED  BY <1>8, <2>3, <2>4, <2>5, <2>6, <2>7 DEF Tidy
<1>10. InFlight' = InFlight + 1 /\ InFlight \in Nat
  <2>1. Len(replies') = Len(replies) /\ Len(batch') = Len(batch)
    BY <1>1, <1>5
  <2>2. /\ Len(ct_sndlist) \in Nat /\ Len(requests) \in Nat
        /\ Len(ct_sndlist') \in Nat /\ Len(requests') \in Nat
        /\ Len(replies) \in Nat /\ Len(batch) \in Nat
    BY LengthsBoth DEF IInv
  <2> QED  BY <1>8, <2>1, <2>2, SMTT(30) DEF InFlight
<1>11. InFlight = n /\ ct_pendingcalls + 0 = n + called_back /\ Cardinality(Outstanding) + 0 = n
  BY <1>1, CountValues
<1>12. Cardinality(ct_xid_to_ucb') = n + 1 /\ n \in Nat
  BY <1>1, <1>3, CountFacts
<1>13. ct_pendingcalls \in Int /\ Cardinality(Outstanding) \in Nat
  BY <1>1, CountFacts DEF Types
<1> HIDE DEF n
<1>14. CASE pc' = "write"
  <2>1. Outstanding' = Outstanding /\ ct_pendingcalls' = ct_pendingcalls
    BY <1>5, <1>14 DEF Outstanding
  <2>2. /\ InFlight' = Cardinality(ct_xid_to_ucb')
        /\ ct_pendingcalls' + 1 = Cardinality(ct_xid_to_ucb') + called_back'
        /\ Cardinality(Outstanding') + 1 = Cardinality(ct_xid_to_ucb')
    BY <1>1, <1>5, <1>10, <1>11, <1>12, <1>13, <2>1, SMTT(30)
  <2> QED  BY <1>9, <1>14, <2>2, CountsAfter DEF IInv
<1>15. CASE pc' # "write"
  <2>1. Outstanding' = Outstanding \cup {c} /\ c \notin Outstanding
        /\ ct_pendingcalls' = ct_pendingcalls + 1
    <3>1. /\ DOMAIN result = Calls /\ result[c] = "new" /\ answered[c] = <<>>
      BY <1>1 DEF Types, IInv, Waiting
    <3>2. /\ result' = [result EXCEPT ![c] = "RPC_SUCCESS"] /\ answered' = answered
          /\ ct_pendingcalls' = ct_pendingcalls + 1
      BY <1>5, <1>15
    <3> QED  BY <3>1, <3>2, SMTT(30) DEF Outstanding
  <2>2. Cardinality(Outstanding') = Cardinality(Outstanding) + 1
    BY <1>1, <2>1, CountFacts
  <2>3. /\ InFlight' = Cardinality(ct_xid_to_ucb')
        /\ ct_pendingcalls' + 0 = Cardinality(ct_xid_to_ucb') + called_back'
        /\ Cardinality(Outstanding') + 0 = Cardinality(ct_xid_to_ucb')
    BY <1>1, <1>5, <1>10, <1>11, <1>12, <1>13, <2>1, <2>2, SMTT(30)
  <2> QED  BY <1>9, <1>15, <2>3, CountsAfter DEF IInv
<1> QED  BY <1>14, <1>15

\* The write() of a call goes on or ends.
LEMMA CountWrite ==
  ASSUME IInv, IInv', Tidy, Counts, Clean', Write
  PROVE  Tidy' /\ Counts'
<1> DEFINE c == outbuf[Len(outbuf)].call
           n == Cardinality(ct_xid_to_ucb)
<1>1. Types /\ pc = "write" /\ called_back = 0 /\ batch = <<>> /\ result[c] = "new"
  BY DEF IInv, Types, Write
<1>2. c \in Calls
  <2>1. Len(outbuf) \in DOMAIN outbuf /\ outbuf \in Seq(Message)
    BY <1>1, SMTT(30) DEF Types
  <2>2. outbuf[Len(outbuf)] \in Message
    BY <2>1, SMTT(30)
  <2> QED  BY <2>2 DEF Message
<1>3. /\ Send(ct_sndlist, Fitting(ct_sndlist))
      /\ IF ct_sndlist' = <<>>
         THEN Stay("flush") /\ Accepted(c)
         ELSE Stay("write") /\ UNCHANGED <<outbuf, ct_pendingcalls, result>>
  <2>1. ~Returned(c, "RPC_CANTENCODEARGS")
    BY <1>1, <1>2 DEF Clean, Returned, Types
  <2> QED  BY <2>1 DEF Write
<1>4. /\ UNCHANGED <<ct_xid_to_ucb, replies, answered, batch, called_back>>
      /\ \/ /\ pc' = "write"
            /\ UNCHANGED <<outbuf, ct_pendingcalls, result>>
         \/ /\ pc' = "flush"
            /\ outbuf' = <<>>
            /\ ct_pendingcalls' = ct_pendingcalls + 1
            /\ result' = [result EXCEPT ![c] = "RPC_SUCCESS"]
  BY <1>3 DEF Write, Stay, receive, Accepted, Returned
<1> HIDE DEF c
<1>5. /\ Len(ct_sndlist') + Len(requests') = Len(ct_sndlist) + Len(requests)
      /\ Range(ct_sndlist') \cup Range(requests') = Range(ct_sndlist) \cup Range(requests)
      /\ IsInjective(ct_sndlist') /\ IsInjective(requests')
      /\ Range(ct_sndlist') \cap Range(requests') = {}
  <2>1. Fitting(ct_sndlist) \in 0 .. Fitting(ct_sndlist)
    BY <1>1, SMTT(30) DEF Fitting, Types
  <2> QED  BY <1>1, <1>3, <2>1, SendFacts DEF Types, Tidy
<1>6. Tidy'
  <2>1. (IF pc = "write" THEN Len(outbuf) = 1 ELSE outbuf = <<>>)'
    BY <1>1, <1>4 DEF Tidy
  <2>2. \A d \in Calls : result'[d] \in {"new", "RPC_SUCCESS"}
    BY <1>1, <1>4 DEF Tidy, Types
  <2> QED  BY <1>4, <1>5, <2>1, <2>2 DEF Tidy, Records, Answers
<1>7. InFlight' = InFlight
  <2>1. Len(replies') = Len(replies) /\ Len(batch') = Len(batch)
    BY <1>4
  <2>2. /\ Len(ct_sndlist) \in Nat /\ Len(requests) \in Nat
        /\ Len(ct_sndlist') \in Nat /\ Len(requests') \in Nat
        /\ Len(replies) \in Nat /\ Len(batch) \in Nat
    BY LengthsBoth DEF IInv
  <2> QED  BY <1>5, <2>1, <2>2 DEF InFlight
<1>8. InFlight = n /\ ct_pendingcalls + 1 = n + called_back /\ Cardinality(Outstanding) + 1 = n
  BY <1>1, CountValues
<1>9. Cardinality(ct_xid_to_ucb') = n /\ n \in Nat
      /\ ct_pendingcalls \in Int /\ Cardinality(Outstanding) \in Nat
  BY <1>1, <1>4, CountFacts DEF Types
<1> HIDE DEF n
<1>10. CASE pc' = "write"
  <2>1. Outstanding' = Outstanding /\ ct_pendingcalls' = ct_pendingcalls
    BY <1>4, <1>10 DEF Outstanding
  <2>2. /\ InFlight' = Cardinality(ct_xid_to_ucb')
        /\ ct_pendingcalls' + 1 = Cardinality(ct_xid_to_ucb') + called_back'
        /\ Cardinality(Outstanding') + 1 = Cardinality(ct_xid_to_ucb')
    BY <1>4, <1>7, <1>8, <1>9, <2>1
  <2> QED  BY <1>6, <1>10, <2>2, CountsAfter DEF IInv
<1>11. CASE pc' # "write"
  <2>1. Outstanding' = Outstanding \cup {c} /\ c \notin Outstanding
        /\ ct_pendingcalls' = ct_pendingcalls + 1
    <3>1. /\ DOMAIN result = Calls /\ result[c] = "new" /\ answered[c] = <<>>
      BY <1>1, <1>2 DEF Types, IInv, Waiting, c
    <3>2. /\ result' = [result EXCEPT ![c] = "RPC_SUCCESS"] /\ answered' = answered
          /\ ct_pendingcalls' = ct_pendingcalls + 1
      BY <1>4, <1>11
    <3> QED  BY ONLY <1>2, <3>1, <3>2, SMTT(30) DEF Outstanding
  <2>2. Cardinality(Outstanding') = Cardinality(Outstanding) + 1
    BY <1>1, <2>1, CountFacts
  <2>3. /\ InFlight' = Cardinality(ct_xid_to_ucb')
        /\ ct_pendingcalls' + 0 = Cardinality(ct_xid_to_ucb') + called_back'
        /\ Cardinality(Outstanding') + 0 = Cardinality(ct_xid_to_ucb')
    BY <1>4, <1>7, <1>8, <1>9, <2>1, <2>2, SMTT(30)
  <2> QED  BY <1>6, <1>11, <2>3, CountsAfter DEF IInv
<1> QED  BY <1>10, <1>11

\* Every step keeps the counts.
LEMMA StepCInv ==
  ASSUME XidsSuffice, IInv, IInv', CInv, [Step]_vars
  PROVE  CInv'
<1> SUFFICES ASSUME Clean' PROVE Tidy' /\ Counts'
  BY DEF CInv
<1>1. Clean /\ Tidy /\ Counts /\ Types
  BY CleanBefore DEF CInv, IInv
<1>2. CASE \E c \in Calls : CallStep(c, Flags)
  <2>1. PICK c \in Calls : CallStep(c, Flags)
    BY <1>2
  <2>2. ~CallNoMem(c)
    BY <1>1, SMTT(30) DEF CallNoMem, Fault, Clean
  <2>3. ~CallNotEncoded(c) /\ ~CallNotSent(c)
    BY <1>1 DEF CallNotEncoded, CallNotSent, Returned, Clean, Types
  <2>4. PICK f \in Flags : Call(c, f)
    BY <2>1, <2>2, <2>3 DEF CallStep
  <2>5. Register(c)
    BY <1>1, <2>4, SMTT(30) DEF Call, NotRegistered, Fault, Clean
  <2> QED  BY <1>1, <2>4, <2>5, CountCall
<1>3. CASE \E f \in Flags : Receive(f)
  BY <1>1, <1>3, CountSame DEF Receive, Enter, ct, net, history, Types
<1>4. CASE ReadPart
  BY <1>1, <1>4, CountSame DEF ReadPart, Stay, Leave, ct, receive, history, Types
<1>5. CASE ReadNothing
  BY <1>1, <1>5, CountSame DEF ReadNothing, Leave, ct, net, Types
<1>6. CASE Write \/ Flush \/ Dispatch \/ Return
  BY <1>1, <1>6, CountWrite, CountFlush, CountDispatch, CountReturn
<1>7. CASE \E m \in 1 .. Len(replies), part \in BOOLEAN : ReadReplies(m, part)
  BY <1>1, <1>7, CountRead
<1>8. CASE AnyReply
  BY <1>1, <1>8, CountReply DEF AnyReply
<1>9. CASE ServerClose \/ UNCHANGED vars
  <2>1. UNCHANGED <<ct_xid_to_ucb, ct_pendingcalls, outbuf, ct_sndlist, requests, replies,
                    batch, called_back, result, answered, pc>>
    BY <1>9 DEF ServerClose, vars, ct, net, receive, history
  <2>2. Tidy'
    BY <1>1, <2>1 DEF Tidy, Records, Answers
  <2>3. Counts'
    BY <1>1, <2>1 DEF Counts, InFlight, Outstanding, Writing
  <2> QED  BY <2>2, <2>3
<1> QED  BY <1>2, <1>3, <1>4, <1>5, <1>6, <1>7, <1>8, <1>9 DEF Step, ReceiveStep

\* A new handle has nothing to count.
LEMMA InitCInv == Init => CInv
<1> SUFFICES ASSUME Init PROVE Tidy /\ Counts
  BY DEF CInv
<1>1. Types
  BY InitIInv DEF IInv
<1>2. Range(<<>>) = {} /\ IsInjective(<<>>)
  BY SMTT(30) DEF Range, IsInjective
<1>3. Tidy
  BY <1>2 DEF Init, Tidy, Records, Answers
<1>4. InFlight = 0 /\ Outstanding = {} /\ Writing = {} /\ Cardinality({}) = 0
  BY FS_EmptySet, SMTT(30) DEF Init, InFlight, Outstanding, Writing
<1> QED  BY <1>3, <1>4, SMTT(30) DEF Counts, Init

\* The inductive invariant holds throughout.
LEMMA CountsInvariant ==
  ASSUME XidsSuffice
  PROVE  Spec => [](IInv /\ CInv)
<1>1. Init => IInv /\ CInv
  BY InitIInv, InitCInv
<1>2. IInv /\ CInv /\ [Next]_vars => IInv' /\ CInv'
  BY NextIsStep, StepIInv, StepCInv
<1> QED  BY <1>1, <1>2, PTL DEF Spec

\* Whenever the application has the control, ct_pendingcalls is the number of
\* calls that were accepted and have not been answered, as long as no call was
\* cut short.
THEOREM PendingExactHolds ==
  ASSUME XidsSuffice
  PROVE  Spec => []PendingExact
<1>1. IInv /\ CInv => PendingExact
  <2> SUFFICES ASSUME Types, CInv, pc = "idle", Clean
               PROVE  ct_pendingcalls = Cardinality(Outstanding)
    BY DEF IInv, PendingExact
  <2>1. /\ ct_pendingcalls + 0 = Cardinality(ct_xid_to_ucb) + called_back
        /\ Cardinality(Outstanding) + 0 = Cardinality(ct_xid_to_ucb)
    BY CountValues DEF CInv
  <2>2. /\ ct_pendingcalls \in Int /\ called_back = 0 /\ Cardinality(Outstanding) \in Nat
        /\ Cardinality(ct_xid_to_ucb) \in Nat
    BY CountFacts DEF Types
  <2> QED  BY <2>1, <2>2, SMTT(30)
<1> QED  BY <1>1, CountsInvariant, PTL

\* Each registered callback has its call on its way once, and when ct_pendingcalls
\* is zero, so that clnttcp_nb_receive would not read, no reply is unread.
THEOREM NoStrandedReplyHolds ==
  ASSUME XidsSuffice
  PROVE  Spec => []NoStrandedReply
<1>1. IInv /\ CInv => NoStrandedReply
  <2> SUFFICES ASSUME Types, CInv, Clean
               PROVE  /\ InFlight = Cardinality(ct_xid_to_ucb)
                      /\ ct_pendingcalls = 0 => replies = <<>>
    BY DEF IInv, NoStrandedReply
  <2> DEFINE w == IF pc = "write" THEN 1 ELSE 0
             n == Cardinality(ct_xid_to_ucb)
  <2>1. InFlight = n /\ ct_pendingcalls + w = n + called_back
    BY CountValues DEF CInv
  <2>2. /\ n \in Nat /\ Len(ct_sndlist) \in Nat /\ Len(requests) \in Nat
        /\ Len(replies) \in Nat /\ Len(batch) \in Nat
        /\ called_back \in Nat /\ replies \in Seq(Reply)
    BY CountFacts DEF Types
  <2>3. pc = "write" => Len(ct_sndlist) > 0
    BY SMTT(30) DEF Types
  <2>4. ASSUME ct_pendingcalls = 0 PROVE Len(replies) = 0
    <3> HIDE DEF n
    <3> QED  BY <2>1, <2>2, <2>3, <2>4, SMTT(30) DEF InFlight
  <2> QED  BY <2>1, <2>2, <2>4, SMTT(30)
<1> QED  BY <1>1, CountsInvariant, PTL

-----------------------------------------------------------------------------
(* What a user of the client can rely on.                                  *)

\* A step runs one callback at most: that of a call which waits, for a reply that
\* has just been read.
LEMMA CallbackStep ==
  ASSUME IInv, [Step]_vars
  PROVE  \/ answered' = answered
         \/ /\ Dispatch
            /\ Head(batch) \in Range(batch) /\ Head(batch).call \in Calls
            /\ answered[Head(batch).call] = <<>>
            /\ answered' = [answered EXCEPT ![Head(batch).call] = <<Head(batch).call>>]
<1>1. CASE ~Dispatch
  BY <1>1 DEF Step, CallStep, CallNoMem, CallNotEncoded, CallNotSent, Call, Receive,
     ReceiveStep, Write, Flush, ReadPart, ReadReplies, ReadNothing, Return, AnyReply,
     ServerReply, ServerClose, history, vars
<1>2. CASE Dispatch
  <2> DEFINE m == Head(batch)
  <2>1. m \in Range(batch)
    BY <1>2, TailValues, SMTT(30) DEF IInv, Types, Dispatch
  <2>2. \/ answered' = answered
        \/ \E e \in ct_xid_to_ucb :
             /\ m.call # Garbled /\ e.xid = m.xid
             /\ answered' = [answered EXCEPT ![e.call] = Append(@, m.call)]
    BY <1>2 DEF Dispatch, call_user_cb, RunNone, Unclaimed
  <2> HIDE DEF m
  <2>3. ASSUME NEW e \in ct_xid_to_ucb, m.call # Garbled, e.xid = m.xid,
               answered' = [answered EXCEPT ![e.call] = Append(@, m.call)]
        PROVE  /\ m.call \in Calls /\ answered[m.call] = <<>>
               /\ answered' = [answered EXCEPT ![m.call] = <<m.call>>]
    <3>1. e \in Known /\ m \in Known /\ e.call \in Calls
      BY <2>1, <2>3 DEF Known, IInv, Types, Message
    <3>2. m.call = e.call
      BY <2>3, <3>1 DEF IInv, Paired
    <3>3. answered[e.call] = <<>>
      BY DEF IInv, Waiting
    <3> QED  BY <2>3, <3>1, <3>2, <3>3, SMTT(30)
  <2> QED  BY <1>2, <2>1, <2>2, <2>3 DEF m
<1> QED  BY <1>1, <1>2

\* A connection on which no reply is expected any more.
Quiet == Clean => Answers = {} /\ (eof \/ ct_xid_to_ucb = {})

\* One on which the replies to come are to one call, with which the application
\* waits (RPC_BLOCKING_WAIT).
OneCall(c) ==
  /\ flag = BlockingWait
  /\ Clean => /\ \A m \in Answers : m.call = c
              /\ eof \/ \A e \in ct_xid_to_ucb : e.call = c
  /\ pc = "idle" \/ (pc = "dispatch" /\ batch = <<>>) => Quiet

\* A call on a quiet connection is the only one.
LEMMA OneCallStarts ==
  ASSUME XidsSuffice, IInv, CInv, Quiet, flag = BlockingWait,
         BlockingWait \in Flags, NEW c \in Calls, CallStep(c, {BlockingWait})
  PROVE  OneCall(c)'
<1>1. Types /\ (Clean' => Clean)
  <2>1. [Step]_vars
    BY DEF Step, CallStep
  <2> QED  BY <2>1, CleanBefore DEF IInv
<1>2. CASE CallNoMem(c) \/ CallNotEncoded(c) \/ CallNotSent(c)
  <2>1. ~Clean'
    BY <1>1, <1>2, SMTT(30) DEF Clean, Types, CallNoMem, CallNotEncoded, CallNotSent, Fault, Returned
  <2>2. flag' = flag
    BY <1>2 DEF CallNoMem, CallNotEncoded, CallNotSent, receive
  <2> QED  BY <2>1, <2>2 DEF OneCall, Quiet, BlockingWait
<1>3. CASE Call(c, BlockingWait)
  <2> DEFINE new == [xid |-> xid', call |-> c]
  <2>1. /\ pc = "idle" /\ Registering(c) /\ result[c] = "new" /\ pc' \in {"write", "flush"}
        /\ flag' = BlockingWait /\ UNCHANGED <<replies, eof>> /\ batch' = <<>>
    BY <1>3 DEF Call, Enter, Registering
  <2>2. c \in Calls \ Used
    BY <2>1 DEF Used, Writing
  <2>3. ct_xid_to_ucb' \subseteq ct_xid_to_ucb \cup {new} /\ new.call = c
    BY <2>1, <2>2, RegisterFacts
  <2>4. Answers' = Answers
    BY <1>1, <2>1 DEF Types, Answers
  <2> HIDE DEF new
  <2>5. Clean' => /\ \A m \in Answers' : m.call = c
                  /\ eof' \/ \A e \in ct_xid_to_ucb' : e.call = c
    BY <1>1, <2>1, <2>3, <2>4 DEF Quiet
  <2> QED  BY <2>1, <2>5 DEF OneCall, BlockingWait
<1> QED  BY <1>2, <1>3 DEF CallStep

\* The server can do nothing about it but answer the call or close.
LEMMA OneCallServer ==
  ASSUME IInv, IInv', CInv, AnyReply \/ ServerClose
  PROVE  /\ Quiet => Quiet'
         /\ \A c \in Calls : OneCall(c) => OneCall(c)'
<1>1. Types /\ (Clean' => Clean /\ Tidy) /\ UNCHANGED <<pc, flag, batch, ct_xid_to_ucb>>
      /\ (eof => eof')
  <2>1. [Step]_vars
    BY DEF Step
  <2>2. Clean' => Clean
    BY <2>1, CleanBefore DEF IInv
  <2> QED  BY <2>2 DEF IInv, CInv, AnyReply, ServerReply, ServerClose, receive, ct
<1>2. CASE ServerClose
  <2>1. Answers' = Answers
    BY <1>2 DEF ServerClose, Answers, receive
  <2> QED  BY <1>1, <2>1 DEF Quiet, OneCall, BlockingWait
<1>3. CASE AnyReply
  <2>1. PICK k \in 1 .. Len(requests) : ServerReply(k)
    BY <1>3 DEF AnyReply
  <2>2. ~eof
    BY <2>1 DEF ServerReply
  <2>3. ASSUME Clean'
        PROVE  \E e \in ct_xid_to_ucb : Answers' = Answers \cup {e}
    <3>1. requests[k] \in Records
      BY <1>1, RangeElements, SMTT(30) DEF Types, Records
    <3>2. PICK e \in ct_xid_to_ucb : requests[k] = <<e>>
      BY <1>1, <2>3, <3>1 DEF Tidy
    <3>3. ~Fault("reply")
      <4>1. faults \in Nat /\ faults' = 0
        BY <1>1, <2>3 DEF Clean, Types
      <4> QED  BY ONLY <4>1, SMTT(30) DEF Fault
    <3>4. replies' = Append(replies, e)
      <4>1. Head(requests[k]) = e
        BY ONLY <3>2, SMTT(30)
      <4>2. replies' = Append(replies, Head(requests[k]))
        BY ONLY <2>1, <3>3 DEF ServerReply
      <4> QED  BY ONLY <4>1, <4>2
    <3>5. Range(replies') = Range(replies) \cup {e}
      <4>1. e \in Reply /\ replies \in Seq(Reply)
        BY <1>1 DEF Types, Message, Reply
      <4> QED  BY <3>4, <4>1, AppendValues, SMTT(30)
    <3> QED  BY <1>1, <3>5 DEF Answers
  <2>4. Quiet => Quiet'
    BY <1>1, <2>2, <2>3 DEF Quiet
  <2>5. ASSUME NEW c \in Calls, OneCall(c) PROVE OneCall(c)'
    <3>1. Clean' => /\ \A m \in Answers' : m.call = c
                    /\ eof' \/ \A e \in ct_xid_to_ucb' : e.call = c
      BY <1>1, <2>2, <2>3, <2>5 DEF OneCall
    <3> QED  BY <1>1, <2>4, <2>5, <3>1 DEF OneCall, BlockingWait
  <2> QED  BY <2>4, <2>5
<1> QED  BY <1>2, <1>3

\* It stays the only one until clnttcp_nb_receive returns, with its callback run
\* or at the end of the stream.
LEMMA OneCallGoesOn ==
  ASSUME IInv, CInv, NEW c \in Calls, OneCall(c), ReceiveStep
  PROVE  OneCall(c)'
<1>1. /\ Types /\ Persistent /\ flag.rx
      /\ (Clean' => Clean /\ Tidy /\ Counts)
      /\ Clean => /\ \A m \in Answers : m.call = c
                  /\ eof \/ \A e \in ct_xid_to_ucb : e.call = c
  <2>1. [Step]_vars
    BY DEF Step
  <2>2. Clean' => Clean
    BY <2>1, CleanBefore DEF IInv
  <2> QED  BY <2>2 DEF IInv, CInv, OneCall, Persistent, BlockingWait
<1>2. flag' = BlockingWait /\ eof' = eof
  BY DEF ReceiveStep, Write, Flush, AfterFlush, ReadPart, ReadReplies, ReadNothing, Dispatch,
     Return, Stay, Leave, receive, net, OneCall
<1>3. ASSUME ~Dispatch PROVE ct_xid_to_ucb' = ct_xid_to_ucb /\ Answers' = Answers
  <2>1. ct_xid_to_ucb' = ct_xid_to_ucb
    BY <1>3 DEF ReceiveStep, Write, Flush, ReadPart, ReadReplies, ReadNothing, Return, ct
  <2>2. CASE \E n \in 1 .. Len(replies), part \in BOOLEAN : ReadReplies(n, part)
    <3>1. PICK n \in 1 .. Len(replies), part \in BOOLEAN : ReadReplies(n, part)
      BY <2>2
    <3>2. batch = <<>> /\ replies \in Seq(Reply) /\ n \in 0 .. Len(replies)
      BY <1>1, <3>1, SMTT(30) DEF Types, ReadReplies
    <3>3. Range(replies) = Range(batch') \cup Range(replies')
      BY <3>1, <3>2, CutValues DEF ReadReplies
    <3>4. Range(batch) = {}
      BY <3>2, SMTT(30) DEF Range
    <3> QED  BY <2>1, <3>3, <3>4 DEF Answers
  <2>3. CASE Write \/ Flush \/ ReadPart \/ ReadNothing \/ Return
    <3>1. batch' = batch /\ replies' = replies
      BY <1>1, <2>3 DEF Types, Write, Flush, AfterFlush, ReadPart, ReadNothing, Return, Stay,
         Leave, receive, net
    <3> QED  BY <2>1, <3>1 DEF Answers
  <2> QED  BY <1>3, <2>2, <2>3 DEF ReceiveStep
<1>4. CASE Write
  <2>1. pc' = "idle" => Returned(outbuf[Len(outbuf)].call, "RPC_CANTENCODEARGS")
    BY <1>4 DEF Write, Stay
  <2>2. outbuf[Len(outbuf)].call \in Calls
    BY <1>1, <1>4, UsedFacts DEF Write, UsedFinite, Used, Writing
  <2>3. pc' = "idle" => ~Clean'
    BY <1>1, <2>1, <2>2 DEF Clean, Returned, Types
  <2>4. pc' # "dispatch" /\ ~Dispatch
    BY <1>4 DEF Write, Stay, Leave, Dispatch
  <2> QED  BY <1>1, <1>2, <1>3, <2>3, <2>4 DEF OneCall, Quiet, BlockingWait
<1>5. CASE Flush
  <2>1. pc' # "dispatch" /\ ~Dispatch /\ (pc' = "idle" => ct_pendingcalls = 0)
        /\ called_back = 0 /\ pc = "flush"
    BY <1>1, <1>5 DEF Flush, AfterFlush, Stay, Leave, Dispatch, Types
  <2>2. ASSUME pc' = "idle", Clean' PROVE ct_xid_to_ucb = {} /\ Answers = {}
    <3>1. ct_pendingcalls + 0 = Cardinality(ct_xid_to_ucb) + called_back
      BY <1>1, <2>1, <2>2, CountValues
    <3>2. Cardinality(ct_xid_to_ucb) = 0
      <4>1. Cardinality(ct_xid_to_ucb) \in Nat
        BY ONLY <1>1, CountFacts
      <4>2. ct_pendingcalls = 0 /\ called_back = 0
        BY ONLY <2>1, <2>2
      <4> QED  BY ONLY <3>1, <4>1, <4>2, SMTT(30)
    <3>3. ct_xid_to_ucb = {}
      BY <1>1, <3>2, FS_EmptySet DEF Types
    <3> QED  BY <1>1, <2>2, <3>3 DEF Tidy
  <2> QED  BY <1>1, <1>2, <1>3, <2>1, <2>2 DEF OneCall, Quiet, BlockingWait
<1>6. CASE ReadPart
  <2>1. pc' = "read" /\ ~Dispatch
    BY <1>1, <1>6 DEF ReadPart, Stay, Dispatch
  <2> QED  BY <1>1, <1>2, <1>3, <2>1 DEF OneCall, BlockingWait
<1>7. CASE \E n \in 1 .. Len(replies), part \in BOOLEAN : ReadReplies(n, part)
  <2>1. pc' = "dispatch" /\ batch' # <<>> /\ ~Dispatch
    <3>1. PICK n \in 1 .. Len(replies), part \in BOOLEAN : ReadReplies(n, part)
      BY <1>7
    <3>2. pc = "read" /\ pc' = "dispatch" /\ replies \in Seq(Reply) /\ n \in 0 .. Len(replies)
      BY <1>1, <3>1, SMTT(30) DEF ReadReplies, Types
    <3>3. Len(batch') = n
      BY <3>1, <3>2, CutValues, SMTT(30) DEF ReadReplies
    <3> QED  BY <3>1, <3>2, <3>3, SMTT(30) DEF Dispatch
  <2> QED  BY <1>1, <1>2, <1>3, <2>1 DEF OneCall, BlockingWait
<1>8. CASE ReadNothing
  <2>1. batch = <<>> /\ pc = "read" /\ pc' = "idle" /\ ~Dispatch
    BY <1>1, <1>8 DEF ReadNothing, Types, Leave, Dispatch
  <2>2. CASE Exhausted
    <3>1. replies = <<>> /\ eof
      BY <1>1, <2>2 DEF Exhausted
    <3>2. Answers = {}
      BY <2>1, <3>1, SMTT(30) DEF Answers, Range
    <3> QED  BY <1>1, <1>2, <1>3, <2>1, <3>1, <3>2 DEF OneCall, Quiet, BlockingWait
  <2>3. CASE Fault("read")
    <3>1. ~Clean'
      BY <1>1, <2>3, SMTT(30) DEF Fault, Clean, Types
    <3> QED  BY <1>2, <3>1 DEF OneCall, Quiet, BlockingWait
  <2> QED  BY <1>8, <2>2, <2>3 DEF ReadNothing
<1>9. CASE Dispatch
  <2> DEFINE m == Head(batch)
  <2>1. pc' = "dispatch" /\ replies' = replies
    BY <1>9 DEF Dispatch, net
  <2>2. ASSUME Clean'
        PROVE  /\ Answers' = {}
               /\ eof \/ ct_xid_to_ucb' = {}
    <3>1. /\ Range(batch) = {m} \cup Range(batch') /\ m \notin Range(batch')
          /\ m \in ct_xid_to_ucb
          /\ ct_xid_to_ucb' = ct_xid_to_ucb \ {m}
      BY <1>1, <1>9, <2>2, DispatchFacts
    <3> HIDE DEF m
    <3>2. ASSUME NEW e \in ct_xid_to_ucb, e.call = m.call PROVE e = m
      <4>1. e \in Known /\ m \in Known /\ e \in Message /\ m \in Message
        BY <1>1, <3>1 DEF Known, Types
      <4> QED  BY <3>2, <4>1, SMTT(30) DEF IInv, Paired, Message
    <3>3. Answers' = Answers \ {m} /\ Answers \subseteq ct_xid_to_ucb /\ m \in Answers
      BY <1>1, <2>1, <2>2, <3>1 DEF Answers, Tidy
    <3> QED  BY <1>1, <2>2, <3>1, <3>2, <3>3
  <2> QED  BY <1>2, <2>1, <2>2 DEF OneCall, Quiet, BlockingWait
<1>10. CASE Return
  <2>1. Quiet /\ ~Dispatch /\ pc' = "idle"
    BY <1>10 DEF OneCall, Return, Leave, Dispatch
  <2> QED  BY <1>1, <1>2, <1>3, <2>1 DEF OneCall, Quiet, BlockingWait
<1> QED  BY <1>4, <1>5, <1>6, <1>7, <1>8, <1>9, <1>10 DEF ReceiveStep
=============================================================================
