------------------------------ MODULE Nfs3Xdr ------------------------------
(***************************************************************************)
(* What the XDR routines of src/src/nfsv3/nfs3_xdr.c allocate while they   *)
(* decode a message.  A routine is the set of sequences of pointers that   *)
(* a message of its type can make it fill, in decoding order; an item of   *)
(* fixed size (attributes, counts, cookies, verifiers) fills none and is   *)
(* only a place where decoding may stop.  A pointer is <<field, i, j>>:    *)
(* i numbers the node of a list that holds it and j the group of an export *)
(* list (0 outside of one).                                                *)
(***************************************************************************)
EXTENDS Naturals, Sequences

CONSTANT MaxEntries   \* bound on the length of a list in a message

ASSUME EntriesAssumption == MaxEntries \in Nat

Then(A, B) == {a \o b : a \in A, b \in B}

Field(f) == <<f, 0, 0>>

NoPointers == {<<>>}

\* Zero to MaxEntries nodes, one after the other (xdr_pointer: a flag that says
\* whether a node follows, then the node).
ListOf(node) ==
  LET first[n \in 0..MaxEntries] ==
        IF n = 0 THEN NoPointers ELSE Then(first[n - 1], node[n])
  IN  UNION {first[n] : n \in 0..MaxEntries}

\* The library's counted bytes (no block when the count is zero) and string (a
\* block even for the empty string).
xdr_bytes(p) == {<<>>, <<p>>}
xdr_string(p) == {<<p>>}

xdr_nfs_fh3(p) == xdr_bytes(p)
xdr_filename3(p) == xdr_string(p)
xdr_nfspath3(p) == xdr_string(p)
xdr_post_op_fh3(p) == NoPointers \cup xdr_nfs_fh3(p)
xdr_diropargs3(d, n) == Then(xdr_nfs_fh3(Field(d)), xdr_filename3(Field(n)))

xdr_GETATTR3args == xdr_nfs_fh3(Field("object"))
xdr_GETATTR3res == NoPointers
xdr_SETATTR3args == xdr_nfs_fh3(Field("object"))
xdr_SETATTR3res == NoPointers
xdr_LOOKUP3args == xdr_diropargs3("dir", "name")
xdr_LOOKUP3res == xdr_nfs_fh3(Field("object"))
xdr_ACCESS3args == xdr_nfs_fh3(Field("object"))
xdr_ACCESS3res == NoPointers
xdr_READLINK3args == xdr_nfs_fh3(Field("symlink"))
xdr_READLINK3res == xdr_nfspath3(Field("data"))
xdr_READ3args == xdr_nfs_fh3(Field("file"))
xdr_READ3res(data_xdr) == IF data_xdr THEN xdr_bytes(Field("data")) ELSE NoPointers
xdr_WRITE3args(data_xdr) ==
  Then(xdr_nfs_fh3(Field("file")),
       IF data_xdr THEN xdr_bytes(Field("data")) ELSE NoPointers)
xdr_WRITE3res == NoPointers
xdr_CREATE3args == xdr_diropargs3("dir", "name")
xdr_CREATE3res == xdr_post_op_fh3(Field("obj"))
xdr_MKDIR3args == xdr_diropargs3("dir", "name")
xdr_MKDIR3res == xdr_post_op_fh3(Field("obj"))
xdr_SYMLINK3args ==
  Then(xdr_diropargs3("dir", "name"), xdr_nfspath3(Field("symlink_data")))
xdr_SYMLINK3res == xdr_post_op_fh3(Field("obj"))
xdr_MKNOD3args == xdr_diropargs3("dir", "name")
xdr_MKNOD3res == xdr_post_op_fh3(Field("obj"))
xdr_REMOVE3args == xdr_diropargs3("dir", "name")
xdr_REMOVE3res == NoPointers
xdr_RMDIR3args == xdr_diropargs3("dir", "name")
xdr_RMDIR3res == NoPointers
xdr_RENAME3args ==
  Then(xdr_diropargs3("from.dir", "from.name"), xdr_diropargs3("to.dir", "to.name"))
xdr_RENAME3res == NoPointers
xdr_LINK3args == Then(xdr_nfs_fh3(Field("file")), xdr_diropargs3("dir", "name"))
xdr_LINK3res == NoPointers

xdr_READDIR3args == xdr_nfs_fh3(Field("dir"))
xdr_entry3(i) == Then({<<<<"entry", i, 0>>>>}, xdr_filename3(<<"name", i, 0>>))
xdr_READDIR3res == ListOf([i \in 1..MaxEntries |-> xdr_entry3(i)])
xdr_READDIRPLUS3args == xdr_nfs_fh3(Field("dir"))
xdr_entryplus3(i) == Then(xdr_entry3(i), xdr_post_op_fh3(<<"handle", i, 0>>))
xdr_READDIRPLUS3res == ListOf([i \in 1..MaxEntries |-> xdr_entryplus3(i)])

xdr_FSSTAT3args == xdr_nfs_fh3(Field("fsroot"))
xdr_FSSTAT3res == NoPointers
xdr_FSINFOargs == xdr_nfs_fh3(Field("fsroot"))
xdr_FSINFO3res == NoPointers
xdr_PATHCONF3args == xdr_nfs_fh3(Field("object"))
xdr_PATHCONF3res == NoPointers
xdr_COMMIT3args == xdr_nfs_fh3(Field("file"))
xdr_COMMIT3res == NoPointers

\* xdr_array allocates nothing for an array without elements.
xdr_mountres3 ==
  Then(xdr_bytes(Field("fhandle")), NoPointers \cup {<<Field("auth_flavors")>>})
xdr_mountbody(i) ==
  Then({<<<<"entry", i, 0>>>>},
       Then(xdr_string(<<"hostname", i, 0>>), xdr_string(<<"directory", i, 0>>)))
xdr_mountlist == ListOf([i \in 1..MaxEntries |-> xdr_mountbody(i)])
xdr_groups(i) ==
  ListOf([j \in 1..MaxEntries |->
            Then({<<<<"group", i, j>>>>}, xdr_string(<<"gr_name", i, j>>))])
xdr_exportnode(i) ==
  Then({<<<<"entry", i, 0>>>>}, Then(xdr_string(<<"ex_dir", i, 0>>), xdr_groups(i)))
xdr_exports == ListOf([i \in 1..MaxEntries |-> xdr_exportnode(i)])
=============================================================================
