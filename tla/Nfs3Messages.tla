---------------------------- MODULE Nfs3Messages ----------------------------
(***************************************************************************)
(* The memory of decoded messages: the xdr_to_X and free_X functions of    *)
(* src/src/nfsv3/nfs3.c and src/src/nfsv3/mount3.c.                        *)
(*                                                                         *)
(* xdr_to_X allocates the message's structure, sets some of its pointers   *)
(* to NULL, has xdr_X fill them (a NULL pointer makes the decoder allocate *)
(* a block, any other is written through) and frees the structure when     *)
(* decoding fails.  free_X frees, pointer by pointer, what a caller got.   *)
(* A message type is a record:                                             *)
(*   head   the block xdr_to_X allocates itself;                           *)
(*   nulls  the pointers it sets to NULL;                                  *)
(*   xdr    what the decoder fills (module Nfs3Xdr);                       *)
(*   reply  whether a status decides what is decoded and what is freed;    *)
(*   frees  the pointers free_X frees, in order, and                       *)
(*   each   what it does for each node of the message's list before that;  *)
(*   self   whether it frees the structure in the end.                     *)
(***************************************************************************)
EXTENDS Nfs3Xdr

LOCAL INSTANCE SequencesExt

CONSTANT Calls   \* the <<type, data_xdr>> with which messages are decoded and freed

Self == Field("self")

Args(nulls, xdr, frees) ==
  [head |-> Self, nulls |-> {Field(f) : f \in nulls}, xdr |-> xdr, reply |-> FALSE,
   frees |-> frees, each |-> <<>>, self |-> TRUE]

Reply(nulls, xdr, frees) == [Args(nulls, xdr, frees) EXCEPT !.reply = TRUE]

\* A reply of items of fixed size.
Plain(xdr) == Reply({}, xdr, <<>>)

Entry(i) == <<"entry", i, 0>>
Group(i, j) == <<"group", i, j>>

\* A reply that holds a list: its pointer to the first node is set to NULL.
ListReply(xdr, each) == [Plain(xdr) EXCEPT !.nulls = {Entry(1)}, !.each = each]

\* A message that is a list: the structure xdr_to_X allocates is the first node.
List(nulls, xdr, each) ==
  [Args({}, xdr, <<>>) EXCEPT !.head = Entry(1), !.nulls = nulls, !.each = each,
                              !.self = FALSE]

LOOKUP3res == Reply({"object"}, xdr_LOOKUP3res, <<"object">>)
LOOKUP3args == Args({"name", "dir"}, xdr_LOOKUP3args, <<"name", "dir">>)
GETATTR3res == Plain(xdr_GETATTR3res)
GETATTR3args == Args({"object"}, xdr_GETATTR3args, <<"object">>)
SETATTR3res == Plain(xdr_SETATTR3res)
SETATTR3args == Args({"object"}, xdr_SETATTR3args, <<"object">>)
ACCESS3res == Plain(xdr_ACCESS3res)
ACCESS3args == Args({"object"}, xdr_ACCESS3args, <<"object">>)
READLINK3res == Reply({"data"}, xdr_READLINK3res, <<"data">>)
READLINK3args == Args({"symlink"}, xdr_READLINK3args, <<"symlink">>)
READ3res(dx) == Reply({"data"}, xdr_READ3res(dx), IF dx THEN <<"data">> ELSE <<>>)
READ3args == Args({"file"}, xdr_READ3args, <<"file">>)
WRITE3res == Plain(xdr_WRITE3res)
WRITE3args(dx) ==
  Args({"file"}, xdr_WRITE3args(dx), IF dx THEN <<"file", "data">> ELSE <<"file">>)

CREATE3res == Reply({"obj"}, xdr_CREATE3res, <<"obj">>)
CREATE3args == Args({"dir", "name"}, xdr_CREATE3args, <<"dir", "name">>)
MKDIR3res == Reply({"obj"}, xdr_MKDIR3res, <<"obj">>)
MKDIR3args == Args({"dir", "name"}, xdr_MKDIR3args, <<"name", "dir">>)
SYMLINK3res == Reply({"obj"}, xdr_SYMLINK3res, <<"obj">>)

\* The faulty variant forgets to set the link's text to NULL.
SYMLINK3args_unset ==
  Args({"dir", "name"}, xdr_SYMLINK3args, <<"dir", "name", "symlink_data">>)
SYMLINK3args ==
  Args({"dir", "name", "symlink_data"}, xdr_SYMLINK3args, <<"dir", "name", "symlink_data">>)

MKNOD3res == Reply({"obj"}, xdr_MKNOD3res, <<"obj">>)
MKNOD3args ==
  [Args({"dir", "name"}, xdr_MKNOD3args, <<"dir", "name">>) EXCEPT !.self = FALSE]
REMOVE3res == Plain(xdr_REMOVE3res)
REMOVE3args == Args({"dir", "name"}, xdr_REMOVE3args, <<"dir", "name">>)
RMDIR3res == Plain(xdr_RMDIR3res)
RMDIR3args == Args({"dir", "name"}, xdr_RMDIR3args, <<"dir", "name">>)
RENAME3res == Plain(xdr_RENAME3res)
RENAME3args ==
  LET names == <<"from.dir", "from.name", "to.dir", "to.name">>
  IN  Args({"from.dir", "from.name", "to.dir", "to.name"}, xdr_RENAME3args, names)
LINK3res == Plain(xdr_LINK3res)
LINK3args == Args({"file", "dir", "name"}, xdr_LINK3args, <<"file", "dir", "name">>)

\* The faulty variant frees a node before it reads the pointer to the next.
READDIR3res_late == ListReply(xdr_READDIR3res, <<"name", "entry", "nextentry">>)
READDIR3res == ListReply(xdr_READDIR3res, <<"name", "nextentry", "entry">>)
READDIR3args == Args({"dir"}, xdr_READDIR3args, <<"dir">>)

\* The faulty variant forgets the handles of the entries.
READDIRPLUS3res_names == ListReply(xdr_READDIRPLUS3res, <<"name", "nextentry", "entry">>)
READDIRPLUS3res ==
  ListReply(xdr_READDIRPLUS3res, <<"name", "handle", "nextentry", "entry">>)
READDIRPLUS3args == Args({"dir"}, xdr_READDIRPLUS3args, <<"dir">>)
FSSTAT3res == Plain(xdr_FSSTAT3res)
FSSTAT3args == Args({"fsroot"}, xdr_FSSTAT3args, <<"fsroot">>)
FSINFO3res == Plain(xdr_FSINFO3res)
FSINFOargs == Args({"fsroot"}, xdr_FSINFOargs, <<"fsroot">>)
PATHCONF3res == Plain(xdr_PATHCONF3res)
PATHCONF3args == Args({"object"}, xdr_PATHCONF3args, <<"object">>)
COMMIT3res == Plain(xdr_COMMIT3res)
COMMIT3args == Args({"file"}, xdr_COMMIT3args, <<"file">>)

mntres3 == Reply({"auth_flavors", "fhandle"}, xdr_mountres3, <<"fhandle">>)
mountlist ==
  List({<<"hostname", 1, 0>>, <<"directory", 1, 0>>, Entry(2)}, xdr_mountlist,
       <<"ml_next", "hostname", "directory", "entry">>)
exports ==
  List({<<"ex_dir", 1, 0>>, Group(1, 1), Entry(2)}, xdr_exports,
       <<"ex_next", "ex_dir", "groups">>)

Types ==
  [LOOKUP3res |-> LOOKUP3res, LOOKUP3args |-> LOOKUP3args, GETATTR3res |-> GETATTR3res,
   GETATTR3args |-> GETATTR3args, SETATTR3res |-> SETATTR3res,
   SETATTR3args |-> SETATTR3args, ACCESS3res |-> ACCESS3res, ACCESS3args |-> ACCESS3args,
   READLINK3res |-> READLINK3res, READLINK3args |-> READLINK3args,
   READ3args |-> READ3args, WRITE3res |-> WRITE3res, CREATE3res |-> CREATE3res,
   CREATE3args |-> CREATE3args, MKDIR3res |-> MKDIR3res, MKDIR3args |-> MKDIR3args,
   SYMLINK3res |-> SYMLINK3res, SYMLINK3args |-> SYMLINK3args, MKNOD3res |-> MKNOD3res,
   MKNOD3args |-> MKNOD3args, REMOVE3res |-> REMOVE3res, REMOVE3args |-> REMOVE3args,
   RMDIR3res |-> RMDIR3res, RMDIR3args |-> RMDIR3args, RENAME3res |-> RENAME3res,
   RENAME3args |-> RENAME3args, LINK3res |-> LINK3res, LINK3args |-> LINK3args,
   READDIR3res |-> READDIR3res, READDIR3args |-> READDIR3args,
   READDIRPLUS3res |-> READDIRPLUS3res, READDIRPLUS3args |-> READDIRPLUS3args,
   FSSTAT3res |-> FSSTAT3res, FSSTAT3args |-> FSSTAT3args, FSINFO3res |-> FSINFO3res,
   FSINFOargs |-> FSINFOargs, PATHCONF3res |-> PATHCONF3res,
   PATHCONF3args |-> PATHCONF3args, COMMIT3res |-> COMMIT3res,
   COMMIT3args |-> COMMIT3args, mntres3 |-> mntres3, mountlist |-> mountlist,
   exports |-> exports]

AllTypes == DOMAIN Types \cup {"READ3res", "WRITE3args"}

ASSUME CallsAssumption == Calls \subseteq AllTypes \X BOOLEAN

Message(c) ==
  IF c[1] = "READ3res" THEN READ3res(c[2])
  ELSE IF c[1] = "WRITE3args" THEN WRITE3args(c[2]) ELSE Types[c[1]]

Pointers(m) == UNION {Range(s) : s \in m.xdr}

\* The block that stores pointer p.
Owner(p) ==
  LET f == p[1] i == p[2] j == p[3]
  IN  IF f = "group" THEN IF j = 1 THEN Entry(i) ELSE Group(i, j - 1)
      ELSE IF f = "entry" THEN IF i = 1 THEN Self ELSE Entry(i - 1)
      ELSE IF j > 0 THEN Group(i, j) ELSE IF i > 0 THEN Entry(i) ELSE Self

\* The pointers in the structure itself; later nodes come zeroed.
OwnPointers(m) == {p \in Pointers(m) : Owner(p) = m.head}

VARIABLES
  pc,      \* "idle", "decode", "held", "free", "released", "empty" or "failed"
  call,    \* the message's type and data_xdr
  ok,      \* its status is NFS3_OK (or it has none)
  todo,    \* pointers still to be decoded, or steps of free_X still to be done
  heap,    \* blocks of this message that are allocated
  held,    \* pointers the decoder has filled
  wild     \* pointers that hold neither NULL nor a block of this message

vars == <<pc, call, ok, todo, heap, held, wild>>

msg == Message(call)

Init ==
  /\ pc = "idle" /\ call \in Calls /\ ok = TRUE /\ todo = <<>>
  /\ heap = {} /\ held = {} /\ wild = {}

Ready == pc \in {"idle", "released", "empty", "failed"}

\* No message, or no memory for its structure.
xdr_to_nothing ==
  /\ Ready
  /\ pc' = "failed" /\ todo' = <<>> /\ heap' = {} /\ held' = {} /\ wild' = {}
  /\ UNCHANGED <<call, ok>>

\* The structure is allocated; memory that is not set may hold anything.  A status
\* other than NFS3_OK has the failure branch decoded over the pointers.
xdr_to ==
  /\ Ready
  /\ pc' = "decode" /\ call' \in Calls
  /\ LET m == Message(call')
     IN  /\ ok' \in IF m.reply THEN BOOLEAN ELSE {TRUE}
         /\ todo' \in IF ok' THEN m.xdr ELSE NoPointers
         /\ heap' = {m.head} /\ held' = {}
         /\ IF ok' THEN wild' \in SUBSET (OwnPointers(m) \ m.nulls)
                   ELSE wild' = OwnPointers(m)

\* The decoder fills the next pointer: it allocates a block unless the pointer holds
\* something, which it takes for a block of the caller's and writes to.
DecodePointer ==
  /\ pc = "decode" /\ todo # <<>>
  /\ LET p == Head(todo)
     IN  /\ held' = held \cup {p}
         /\ heap' = IF p \in wild THEN heap ELSE heap \cup {p}
  /\ todo' = Tail(todo)
  /\ UNCHANGED <<pc, call, ok, wild>>

\* The message is short or malformed, or an allocation fails: only the structure
\* is freed.
DecodeFails ==
  /\ pc = "decode"
  /\ pc' = "failed" /\ todo' = <<>> /\ heap' = heap \ {msg.head}
  /\ UNCHANGED <<call, ok, held, wild>>

\* A list without nodes makes the decoder return NULL in place of the structure.
DecodeDone ==
  /\ pc = "decode" /\ todo = <<>>
  /\ pc' = IF msg.head = Entry(1) /\ Entry(1) \notin held THEN "empty" ELSE "held"
  /\ UNCHANGED <<call, ok, todo, heap, held, wild>>

\* free_groups: the next pointer is read before the node is freed.
free_groups(i) ==
  LET groups == {j \in 1..MaxEntries : Group(i, j) \in held}
      node(j) == <<<<"gr_next", i, j>>, <<"gr_name", i, j>>, Group(i, j)>>
  IN  FlattenSeq([j \in groups |-> node(j)])

\* What the loop over the list does for node i.
NodeSteps(i) ==
  FlattenSeq([s \in DOMAIN msg.each |->
                IF msg.each[s] = "groups" THEN free_groups(i) ELSE <<<<msg.each[s], i, 0>>>>])

ListSteps ==
  LET nodes == {i \in 1..MaxEntries : Entry(i) \in held}
  IN  FlattenSeq([i \in nodes |-> NodeSteps(i)])

FieldSteps == [s \in DOMAIN msg.frees |-> Field(msg.frees[s])]

\* free_X begins: the pointers are freed if the status says they were decoded.
FreeStart ==
  /\ pc = "held"
  /\ pc' = "free"
  /\ todo' = (IF ok THEN ListSteps \o FieldSteps ELSE <<>>)
             \o (IF msg.self THEN <<msg.head>> ELSE <<>>)
  /\ UNCHANGED <<call, ok, heap, held, wild>>

\* One step of free_X: reads the pointer and frees the block, if there is one.
FreeStep ==
  /\ pc = "free" /\ todo # <<>>
  /\ heap' = heap \ {Head(todo)} /\ todo' = Tail(todo)
  /\ UNCHANGED <<pc, call, ok, held, wild>>

FreeDone ==
  /\ pc = "free" /\ todo = <<>>
  /\ pc' = "released"
  /\ UNCHANGED <<call, ok, todo, heap, held, wild>>

Next ==
  \/ xdr_to_nothing \/ xdr_to \/ DecodePointer \/ DecodeFails \/ DecodeDone
  \/ FreeStart \/ FreeStep \/ FreeDone

Spec == Init /\ [][Next]_vars

-----------------------------------------------------------------------------
\* The one pointer that is filled, and freed, without having been set: the payload of
\* xdr_to_WRITE3args with NFS3_DATA_DEXDR (nfs3.c line 946 sets the file handle only),
\* a call that nfs3.h lines 420 to 423 offer.  Neither property below holds of it.
UnsetPayload(p) == call = <<"WRITE3args", TRUE>> /\ p = Field("data")

\* The decoder writes through no other pointer that xdr_to_X left unset: every pointer
\* xdr_X may fill, but for UnsetPayload, is NULL or a block of the message when the
\* decoder comes to it.
DecoderAllocates ==
  pc = "decode" /\ todo # <<>> => Head(todo) \notin wild \/ UnsetPayload(Head(todo))

\* Every pointer free_X reads is stored in a block not freed yet, and what it frees, but
\* for UnsetPayload, is NULL or a block still allocated: no use after free, no double
\* free, no free of the failure branch's bytes, under either value of data_xdr.
FreesLive ==
  pc = "free" /\ todo # <<>> =>
    LET p == Head(todo)
        holder == IF p[1] \in {"entry", "group", "self"} THEN p ELSE Owner(p)
    IN  /\ holder \in heap
        /\ UnsetPayload(p) \/ (p \notin wild /\ (p \in held => p \in heap))

\* Types whose free function leaves something behind: the flavours of mntres3, the
\* structure of MKNOD3args, the preallocated node of an empty mountlist or exports and
\* the nodes of exports.
Retained == {"mntres3", "MKNOD3args", "mountlist", "exports"}

\* Once a caller has passed the decoded message to free_X, or has got no message from a
\* successful decode, none of the message's blocks stays allocated, for all the other
\* types.
FreeReleasesAll ==
  pc \in {"released", "empty"} /\ call[1] \notin Retained => heap = {}
=============================================================================
