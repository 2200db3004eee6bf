-------------------------------- MODULE Fifo --------------------------------
(***************************************************************************)
(* What the queues and streams of the client promise, without a word on    *)
(* how: everything that was put in is handed out once, complete and in the *)
(* order it was put in.                                                    *)
(*                                                                         *)
(* `put' is the whole history of what went in, `got' the whole history of  *)
(* what came out.  Three components implement this specification: the      *)
(* metadata request queue (RequestQueue), the transmission list of an RPC  *)
(* connection (RpcTransmit) and the record stream of an RPC connection     *)
(* (RpcRecord).                                                            *)
(***************************************************************************)
EXTENDS Integers, Sequences

VARIABLES put, got

Init ==
  /\ put = <<>>
  /\ got = <<>>

\* Any number of elements enter at the end.
Put ==
  /\ Len(put) <= Len(put')
  /\ put = SubSeq(put', 1, Len(put))
  /\ UNCHANGED got

\* The elements that leave are the next ones in line.
Get ==
  /\ Len(got) <= Len(got')
  /\ Len(got') <= Len(put)
  /\ got' = SubSeq(put, 1, Len(got'))
  /\ UNCHANGED put

Next == Put \/ Get

Spec == Init /\ [][Next]_<<put, got>>

=============================================================================
