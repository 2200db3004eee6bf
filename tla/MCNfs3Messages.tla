--------------------------- MODULE MCNfs3Messages ---------------------------
(* Every type, with both values of data_xdr where the functions take it.      *)
EXTENDS Nfs3Messages

MCCalls == AllTypes \X {TRUE} \cup {"READ3res", "WRITE3args"} \X {FALSE}
=============================================================================
