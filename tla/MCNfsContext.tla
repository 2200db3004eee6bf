---------------------------- MODULE MCNfsContext ----------------------------
(* Model values for NfsContext.                                            *)
EXTENDS NfsContext

CONSTANT t1

MCThreads == {t1}
\* The flags of nfsclientd, and the ones of an application with small requests.
MCConnFlags == {{"NONBLOCKING"}, {"DISABLE_NAGLE"}}
=============================================================================
