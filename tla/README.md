# Verification of unfsclient

TLA+ models of unfsclient, a FUSE-based NFSv3 client in C: model-checked with
TLC on small instances and, where it matters most, proved with TLAPS for every
instance. `PROJECT.json` lists the components, the runs, the faulty variants
that show each property can fail, the lines each definition models, the
findings, the hazards and the theorems.

## The system

A FUSE thread turns a file system operation into a request and puts it on a
queue. Actor threads take requests off the queue, call the NFS server through
an asynchronous RPC library of their own connection, and answer FUSE from a
callback. A monitor thread watches for actors that exit.

| part | source | state | operations |
|---|---|---|---|
| request queue | `src/src/nfscd_ops.c` | list, mutex, semaphore | enqueue, dequeue |
| actor pool | `src/src/nfscd_ops.c`, `src/src/nfs3actor.c` | list of actor_status, ast_lock, exit semaphore | start, notify exit, monitor, destroy |
| transmission | `src/src/clnt_tcp_nb.c` | ct_sndlist, socket | writetcp_nb, send_buffers, flush |
| reassembly | `src/src/clnt_tcp_nb.c` | rpc_record_state | rpc_cb, update_frag_state and below |
| calls and callbacks | `src/src/clnt_tcp_nb.c` | xid table, ct_pendingcalls | call, receive, dispatch |
| hash table | `src/src/hash_table.c` | buckets, list by age, counters, iterators | insert, get, replace, remove, rehash, iterate |
| messages | `src/src/nfsv3/*.c` | decoded structures on the heap | xdr_to_X, xdr_X, free_X |
| contexts, handles | `src/src/nfsclient.c`, `src/src/clnt_tcp_nb.c`, `nfs3_call`, `mount3_call` | nfs_ctx, two handles, descriptors, cached ports | init, lazy connect, create, destroy |
| NFSv3 actor | `src/src/nfs3actor.c` | the request at hand, its contexts | mount, look-up, callback |
| daemon, statistics, debug | `nfsclientd.c`, `nfs3stat.c`, `tickrate.c`, `debug_print.c` | options, counters | start-up, printing |

What is hard in it: threads that share lists, locks and semaphores; a byte
stream cut anywhere; writes that take a part; replies in any order and several
in one read; calls that fail half-way; a hash table whose entries stand on two
lists and whose iterators outlive other calls; unions of pointers that are
decoded by one function and freed by another; connections that fail half-way
while other threads open descriptors; a server that restarts on another port.
The hazards in `PROJECT.json` name the lines.

## Modules

| module | models | checked by |
|---|---|---|
| `Fifo` | what a queue promises: an unbounded first-in first-out queue | refined by `RequestQueue`, `RpcTransmit`, `RpcRecord` |
| `RequestQueue` | `nfscd_lookup`, `nfscd_enqueue_metadata_request`, `nfscd_dequeue_metadata_request` | `MCRequestQueue`, `RequestQueueProofs` |
| `ActorPool` | pool start-up, exit notification, monitor, teardown | `MCActorPool`, `ActorPoolProofs` |
| `RpcTransmit` | `writetcp_nb`, `add_buffer_list`, `send_buffers` | itself, `RpcTransmitProofs` |
| `RpcRecord` | `rpc_cb`, `update_frag_state`, `update_new_frag_state`, `update_record_state`, `collate_buf_list` | `MCRpcRecord`, `RpcRecordProofs` |
| `RpcClient` | `clnttcp_nb_call`, `clnttcp_nb_receive`, `call_user_cb`, composed with a server behind bounded buffers | `MCRpcClient`, `RpcClientProofs` |
| `NfsContext` | `nfs_init`, `nfs_destroy`, the context pool, `nfs3_call` and `mount3_call` up to the handle, `clnttcp_b_create`, `clnttcp_nb_create`, `clnttcp_nb_destroy` | `MCNfsContext`, `NfsContextProofs` |
| `Nfsclientd` | `nfs3_request_actor`, `nfs3_lookup_actor`, `nfs3_lookup_cb`, `nfsstat3_to_errno`, composed of `RequestQueue` and `RpcClient` (`INSTANCE`) | `MCNfsclientd`, `NfsclientdProofs` |
| `AgeMap` | what the hash table promises: a map that keeps the order of insertion and drops an entry only when a limit is set and reached | refined by `HashTable` |
| `HashTable` | every operation of `hash_table.c`, link by link | `MCHashTable` |
| `Nfs3Xdr` | which pointers each XDR routine fills, and in which order | used by `Nfs3Messages` |
| `Nfs3Messages` | `xdr_to_X` and `free_X` of 45 message types | `MCNfs3Messages` |
| `SequenceLemmas` | facts about sequences that the proofs cite | |

How the state corresponds to the code:

- **Threads** (`RequestQueue`, `ActorPool`) have a program counter; every lock,
  semaphore, list or join operation is a step of its own, and everything
  between two of them is part of the step. A mutex is the thread that holds it.
- **Lists** (`flist.h`) are sequences. The first element of an empty list is
  what the C macro would make of the list head: the actor crashes.
- **Transmission** knows a byte by its position in the stream, so a
  `frag_buffer` is a position and a length. The socket buffer is bounded; a
  write on a non-blocking socket takes any part that fits.
- **Reassembly** has real bytes: the marker is four of them, read with
  `LAST_FRAG` and `FRAG_SIZE`; what is in a record is a constant; memory that was never written is an arbitrary
  choice from `HeapBytes`, and an overrun of a heap buffer may crash the
  process or not.
- **Calls** abstract a request and a reply to their xid and the call they
  belong to. A reply may be half read. A fault is a failed allocation (also one
  that leaves a call without its callback in the table, which the code does not
  notice), a failed write or read, or a reply that does not decode. The network and the server hold a
  bounded number of requests and of replies (`room`): the server answers only
  while there is room for the reply, and a write waits, or stops, while there is
  none for the request.
- **Handles** are a socket and the port it is connected to. A descriptor knows
  the thread and program it was opened for, or the rest of the process, which
  opens and closes descriptors at any time. The heap is a bag of blocks, so
  that a block that nobody points to any more still shows. The server's two
  programs come up, stop, and come back on other ports.
- **The daemon** takes the actions of the queue and of the RPC client as they
  are; a callback run in `ReceiveStep` is the moment at which `nfs3_lookup_cb`
  answers FUSE. One actor serves, as by default: actors share the queue only.
- **Hash table** entries are named by their keys; all four links, the counters
  and the bucket index are there. Hash values are chosen so that keys collide
  at one size and part at the next.
- **Messages** are the set of blocks on the heap. A pointer that is neither
  NULL nor a block of the message is *wild*; decoding over the other branch of
  a union makes pointers wild.

Definitions commented "Faulty variant" are plausible mistakes, one per property;
a property is kept only if TLC finds it violated under its variant.

## Runs

| run | bounds | shows |
|---|---|---|
| `request_queue` | 2 FUSE threads, 2 actors, 3 requests | semaphore and list agree; no actor meets an empty list or another's request; first in, first out; every request is taken |
| `actor_pool` | pools of 1 and 2, 3 thread identifiers, statuses -2, 0, 5 | an exit finds its list entry, is not forgotten, no thread is joined twice, nothing outlives the pool; errors are reported, actors replaced and the teardown returns, but for the two waits named below |
| `rpc_transmit` | buffers of 1 and 3 bytes, socket buffer of 2, 7 bytes | the peer gets the bytes in order and once; a blocking flush drains and returns |
| `rpc_record` | 3 records of 0, 1 or 3 bytes or of two fragments, reads of up to 9 bytes, split markers, 2 failed allocations | no copy leaves its fragment buffer, a fragment fits the record it makes; while markers come whole, records have one fragment and memory lasts, each record is delivered with its own bytes, in order, by the read that completes it |
| `rpc_client` | 3 calls, all 8 flag combinations, buffers of 1 or 3 messages each way, one fault of any kind | a callback runs at most once and for its own reply; the pending counter never counts a reply that is not on its way; every accepted call is answered, but for the two waits named below; until something fails the pending counter is exact and no reply is stranded |
| `nfsclientd` | 1 FUSE thread, 1 actor, 3 requests, 3 outcomes, buffers of 2, one fault | a request is answered at most once and with its own error, in its turn, and in the end but for named reasons |
| `nfs_context` | 1 thread beside the rest of the process, 2 contexts, descriptors 0, 3, 4, 5, 2 ports, 1 restart, 1 fault | a thread works on its own descriptors, but for one setsockopt named below; while memory lasts, failed creations leave nothing behind but descriptor 0; until a restart a handle leads to its program; a creation that failed can be repeated |
| `hash_table` | 4 keys, 2 data, limit 3, rehashes by themselves and to 4 buckets | the table is a map by age; buckets stay bounded, also when one insertion rehashes and evicts |
| `hash_table_iterate` | 3 keys, 1 or 2 buckets, all heuristics, limit 2, failing allocations, rehashes at any time | both lists sound; an iteration is complete, unless the entry it was to go on with was freed |
| `messages` | every type, READ3res and WRITE3args with and without their payload; lists of 0 to 3 nodes | decoders allocate what they fill and frees are safe, but for one pointer named below; nothing is left allocated, but for four types |

The bounds are the smallest at which each case occurs. Two threads on each side
give every race for a lock, and a third request makes the queue hold two while
one is being taken. The buffer of three bytes does not fit a socket buffer of
two, so short writes and EAGAIN both happen, and seven bytes leave three
buffers pending. A read of nine bytes can end a record, hold one, and begin a
third; the shape of two fragments is there for the bounds of the copies only.
Three calls give replies out of order with one outstanding, and overfill buffers
of one message each way. Three requests let a call that fails meet the next and
the one after. Descriptor 0 is special to the code, and of the other three two
go to the handles, so that the rest of the process can take the last one; a
second thread would be to the first what the rest of the process is, and the
proof has any number. Three keys in one bucket make a middle element for the relinking code; the fourth passes
the threshold `i_items > 2*i_size` of a table with one bucket. In `hash_table` all
four hash values are even, so that the insertion which doubles the table still
finds its bucket full and evicts, and the four buckets of an explicit rehash part
the keys. An iteration meets rehashes as calls of `ght_rehash`; to the iterator
the one inside of `ght_insert` is the same. Thread
identifiers, requests, keys and data are model values; the data of `hash_table`,
which the code only stores and returns, are symmetric.

Deadlock is checked except where the system may stop: when all requests are
served (`request_queue`), all records are read (`rpc_record*`), the pool is
torn down or its monitor waits (`actor_pool*`), the actor has exited or an
assertion has ended the daemon (`nfsclientd`), or a thread has failed to make its
contexts (`nfs_context`).

**Fairness.** Threads that can run do run (weak fairness), and a thread that
waits for a mutex which is released again and again gets it (strong fairness on
the lock steps): what a preemptive scheduler and pthread mutexes give. For the
socket, the peer keeps reading and the server answers what it has received.
`rpc_client` also has the application wait again, as the loops around
`nfs_complete` in the tests do, and `nfs_context` has the thread call again a
program it has no handle for, as the next request does. No fairness forces a
fault, a request of the kernel, a server that stops or starts, or an unmount:
the fair actions are conjoined with `faults' = faults` where they could fail.

## What disagrees with the comments

Two runs are expected to fail; each checks one property that a comment states.

| run | comment | code |
|---|---|---|
| `rpc_record_marker` | markers may be split over two reads | the second part overwrites the first (`clnt_tcp_nb.c:556`) |
| `actor_pool_join` | the exit status is printed | the monitor first joins live actors (`nfscd_ops.c:153`) |

Other places where code and comment part are modelled as the code has them, and
the properties stay clear of them by a constant of the run or by a condition
that names the case:

| comment | code | kept out by |
|---|---|---|
| the record size is updated with each fragment | it is reset with each fragment (`clnt_tcp_nb.c:716`) | `CollateFits` and `ImplementsFifo` of `RpcRecord` are about records of one fragment |
| a record ends with its last fragment | one without bytes waits for the next read (`:733`) | the second half of `PromptDelivery` |
| the number of outstanding calls | a call that fails to encode spoils it (`:486`), downwards only (`PendingOnTheWay`) | `Clean` in `PendingExact` and `NoStrandedReply` |
| the count of callbacks executed | records are counted, callbacks run or not (`:710`) | no property about the count |
| a fixed number of elements per bucket | `ght_rehash` to fewer buckets ignores it (`hash_table.c:775`) | rehashes to more buckets only in `hash_table` |
| inserting during an iteration is harmless (`ght_hash_table.h:423-424`) | an eviction or a rehash may free the entry the iterator keeps, which `ght_next` then reads (`:672`) | `stale` in `IterationComplete`; the model's `ght_next` may return anything there |
| a rehash retains all elements | not those it has no memory for (`:790`) | no failing allocations in `hash_table` |
| pointers must be NULL before decoding | the payload pointer of `WRITE3args` is not set when it is decoded as well (`nfs3.c:946`) | `UnsetPayload` in `DecoderAllocates` and `FreesLive` |
| the caller frees the reply | `free_mntres3` leaves the flavours (`mount3.c:208`) | `Retained` |
| a flush sends what is left | it never reads, so it waits for ever when the buffers of both ways are full (`clnt_tcp_nb.c:855`) | `Flooded` in `EveryCallAnswered` |
| wait for replies without flushing | the call waited for may not have been sent | `Unflushed` in `EveryCallAnswered` |
| a failed creation frees everything | not without a read buffer (`clnt_tcp_nb.c:329`), nor when fcntl fails | `faults = 0` in `NothingLost` |
| the port is looked up when it is 0 | and never again, also after the server came back on another (`:297`) | `Stale`, and `restarts = 0` in `RightProgram` |
| Nagle is disabled on the new socket | also when there is none: the number may be another thread's (`nfs3.c:189`) | `NagleWithoutHandle` in `OwnDescriptor`, which says that the flag was asked for |
| an actor answers its request | not when the look-up succeeds, nor when the call fails (`nfs3actor.c:131`, `:162`) | `Excused` in `EveryErrorAnswered` |

`Retained` also has `MKNOD3args` (the structure is never freed, `nfs3.c:1301`),
`mountlist` and `exports` (the preallocated node is lost when the list is empty,
and `free_exports` frees no node).

`ExitHandled` and `DestroyReturns` hold for every pool and name what may stand in
the way. In a pool of several the monitor joins actors that still serve, and
keeps `ast_lock` meanwhile (`MonitorStuck`). In any pool `nfscd_destroy` joins,
under the same lock, an actor that may be waiting for that lock to announce its
exit: then neither goes on.

## Proofs

All are for every value of the constants, under the assumptions named in the
modules (the sets are disjoint or finite where that is said, sizes are positive
naturals).

- **`RequestQueueProofs`.** The semaphore alone is not inductive: between
  `flist_add_tail` and `sem_post` the list is one ahead, and between `sem_wait`
  and `flist_del` it is ahead by the actors that have claimed a request. The
  invariant `IInv` adds mutual exclusion (a thread is in the critical section
  exactly if it holds `md_lock`), that the actor between `first` and `del` holds
  the first element, and that the history of requests linked is the history of
  those taken followed by the list. With the exact count it follows that an
  actor inside finds a non-empty list (`DequeueCorrect`), and each step maps to
  a step of `Fifo` or a stutter (`QueueImplementsFifo`). `OneActorCorrect` needs
  a second invariant, `OInv`: a request is with at most one thread or in the
  list, and the list repeats none.
- **`RpcTransmitProofs`.** The invariant says that the wire is the stream's
  first bytes in order and that the pending buffers tile the rest, each starting
  where the one before ends (`Tiling`, `InOrder`, `InRange`). From it follow the
  refinement of `Fifo` and that a successful blocking flush leaves nothing
  (`FlushCorrect`, an action property).
- **`RpcRecordProofs`.** `CopyInBounds` for any record shapes and contents, split
  markers and failed allocations included: the offset and what remains always add
  up to the size of the buffer while a fragment is open, and the state is at a
  marker otherwise (`AtMarker`). `CollateCorrect` follows the record size as well:
  while a record has its first fragment only, the size is that of the fragment
  (`AtRecord`), and it is zero between records (`SizeZero`).
  On an orderly connection (markers come whole, one fragment to a record, memory
  lasts) a second invariant, `OInv`, ties the client to a place in the stream: the
  stream is the records one after the other, each behind its marker (`Layout`);
  the read buffer is what follows the bytes consumed (`Buffered`); these end where
  the next record starts (`Between`), or in the middle of it, and then the
  fragment buffer holds the bytes of that record so far (`Within`). Hence
  `RecordImplementsFifo`, the refinement of `Fifo`, and `PromptDeliveryHolds`.
  Records may have any size a marker can say (31 bits): `MarkerSays` proves that
  `FRAG_SIZE` reads back what the peer wrote.
- **`ActorPoolProofs`.** The properties speak of a thread when it has exited. The
  invariant follows it from `pthread_create` on: it belongs to the list, or to
  main while main holds the lock and has not listed it, and is joined exactly
  when it leaves the list (`Life`, with `Mutex` for the three kinds of thread and
  `Loops` for the two walks over the list). Its entry has its status but while
  the status is being set (`Recorded`), and a thread that has set it will still
  be looked at: the semaphore is up or the monitor is before or in its loop; when
  the monitor leaves the loop nobody on the list has exited (`Noticed`). The
  four safety properties follow.
- **`NfsContextProofs`.** `OwnDescriptor` is not inductive: closing the socket of
  a creation must not take it from a handle, hence a program that a thread
  creates a handle for has none yet (`Sound`). The port of a handle comes from
  the cache, so `RightProgram` needs that a cached port is the right one until
  the first restart, and that there is one before the socket is opened
  (`Fresh`). A step of one thread leaves the invariant of the others alone
  (`Framed`), so each action is a matter of the thread that takes it. A thread
  comes to the setsockopt of `nfs3_call` only in a context with
  `NFSC_CFL_DISABLE_NAGLE` (`Nagle`). There, after a failed creation, the number
  may be anybody's, and `OwnDescriptorCorrect` claims nothing more.
  `AlwaysOwnCorrect` assumes that no context has the flag, as nfsclientd sets none
  (`nfscd_ops.c:60`): then there is no exception at all.
  `NothingLost` counts blocks in a bag and is about a thread outside of a
  creation; `Kept` says for every place in a creation which blocks and which
  descriptors there are of the thread and program at hand: those of the structures
  made so far, once each, and the socket while it is open (descriptor 0 aside,
  which the code takes for none). It needs that `NULL` is no handle, which
  `ContextAssumption` says.
- **`RpcClientProofs`.** `CallbackOnce` depends on xids being distinct, over all
  traces a call may leave: its callback, its bytes in `outbuf` or a record, its
  reply. `Paired` says that one xid means one call among all of them, and `Aged`
  why a fresh xid is nobody's: xids are counted down modulo `XidMod`, so one that
  is still known is at most as many steps old as there were calls. The theorems
  assume `XidsSuffice`, no more calls than xids; with fewer xids a late reply does
  meet the wrong callback (TLC finds it for three calls and two xids, and none for
  three and three). `PendingExact` and `NoStrandedReply` have a second invariant,
  `CInv`, that holds while no call was cut short: records and replies are in
  one-to-one correspondence with registered callbacks (`Tidy`), so every step
  changes lists, counter and outstanding calls alike (`Counts`), with callbacks
  run but not yet subtracted and a call still in its `write()` accounted for.
  `PendingOnTheWayHolds` is about every step, failed ones included. By itself the
  property is not inductive, as a call is counted only when its `write()` has ended:
  `OnTheWay` says that until then its record is on its way and not counted yet.
- **`NfsclientdProofs`.** The daemon is a composition, and so are its proofs:
  `RpcClientProofs` is instantiated (`P`) and its lemmas used for the steps the
  daemon takes. `DaemonQueue` shows that the daemon refines `RequestQueue`;
  `Held`, that an actor at work holds a request, is then a matter of the queue's
  steps. `DInv` adds that an answer is
  sent exactly where a callback runs and, while no call was cut short, that in
  `nfs3_lookup` the only call on its way is that of the request held.
  `AnsweredOnceHolds` and `AnsweredInTurnHolds` follow, for any number of FUSE
  threads and requests, again under `XidsSuffice`.

The inductive invariants of `RequestQueueProofs`, `ActorPoolProofs`,
`RpcRecordProofs`, `NfsContextProofs`, `RpcClientProofs` and `NfsclientdProofs` were
checked with TLC as well, on the instances of the runs.

`SequenceLemmas` has the facts about sequences that `RequestQueueProofs` and
`RpcClientProofs` cite: what appending, concatenating and cutting do to the values
of a sequence and to their being distinct.

Only model-checked: all liveness properties, as liveness under fairness is out of
the prover's reach; the properties of `HashTable`, which speak of what is found by
following links (`Walk`, the loop of `ght_rehash`), and those of the messages,
which speak of nested structures (`Nfs3Xdr`). These are recursive functions, and
what they give for every input takes an induction over data, which the installed
provers do not do.

## Not modelled

- The wrappers `nfs3_X` and `mount3_X`, beyond the connection and the call: they
  choose a procedure number and an XDR routine.
- The window of outstanding requests in the read and write test programs.
- Two actors in the composition: they share the queue only, where `RequestQueue`
  has two, and each has connections of its own.
- A `pthread_create` that fails: the code ignores its result (`nfscd_ops.c:92`)
  and would list a thread identifier that was never set.
- Hash functions: the hash values are a constant, chosen so that keys collide.
- The contents of messages, the encoding of arguments, error strings,
  statistics, debug output, option parsing.
- Callbacks that call the library again, and the callback of bounded buckets
  inserting again: no caller in the repository does it.
- Libraries: pthreads, FUSE, the ONC RPC record stream and XDR primitives appear
  through what the code relies on.

## Plan

1. `SlotWindow`: the window of outstanding requests of the read and write tests
   against the callbacks counted by the library.
2. `RpcClient` on top of `AgeMap`, so that the xid table is the hash table's
   abstract specification.
3. Proofs: `FreesLive` of the messages and `ListsSound` of `HashTable`, once the
   structures they walk can be reasoned about without an induction.
