---------------------------- MODULE MCRpcClient -----------------------------
(* Model values, flags and sizes for RpcClient.                            *)
EXTENDS RpcClient

MCCalls == 1 .. 3
\* Every combination of RPC_NONBLOCK_WAIT, RPC_NO_TX_FLUSH and RPC_NO_RX.
MCAllFlags == [block : BOOLEAN, tx : BOOLEAN, rx : BOOLEAN]
\* Buffers that three calls fill on both ways, and buffers that hold them all.
MCRooms == {[snd |-> 1, rcv |-> 1], [snd |-> 3, rcv |-> 3]}
=============================================================================
