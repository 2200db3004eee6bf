---------------------------- MODULE MCRpcRecord -----------------------------
(* Record shapes for RpcRecord: of one fragment, empty or not, and of two. *)
(* No two bytes of the records are the same.                               *)
EXTENDS RpcRecord

MCShapes == {<<0>>, <<1>>, <<3>>, <<1, 1>>}
MCPayload(r, len) == [i \in 1 .. len |-> 16 * r + i]
=============================================================================
