------------------------------- MODULE AgeMap -------------------------------
(***************************************************************************)
(* What the hash table of src/src/hash_table.c promises its callers: a     *)
(* finite map from keys to data that remembers the order in which its keys *)
(* were inserted.  A table with bounded buckets that holds as many entries *)
(* as one bucket may drop an older one when a new one comes in, no other   *)
(* does; an insertion may fail for want of memory.                         *)
(***************************************************************************)
EXTENDS Integers, Sequences, Functions

CONSTANTS
    Keys,      \* the keys
    Data,      \* the data stored with a key
    NULL       \* the pointer that points nowhere

VARIABLES
    map,       \* the data of every key, NULL for a key that has no entry
    order,     \* the keys that have an entry, oldest first
    limit,     \* how many entries a bucket may hold; 0 when there is no bound
    ret        \* what the last call returned

vars == <<map, order, limit, ret>>

Init ==
    /\ map = [k \in Keys |-> NULL] /\ order = <<>>
    /\ limit = 0
    /\ ret = NULL

Drop(ks) ==
    /\ map' = [k \in Keys |-> IF k \in ks THEN NULL ELSE map[k]]
    /\ order' = SelectSeq(order, LAMBDA k : k \notin ks)

Refuse(k) ==
    /\ ret' = IF map[k] = NULL THEN -2 ELSE -1
    /\ UNCHANGED <<map, limit, order>>

Insert(k, d) ==
    /\ ret' = 0
    /\ map[k] = NULL /\ map'[k] = d
    /\ \E dropped \in {{}} \cup {{e} : e \in Range(order)} :
          /\ dropped # {} => limit # 0 /\ Len(order) >= limit
          /\ map' = [e \in Keys |-> CASE e = k -> d
                                      [] e \in dropped -> NULL
                                      [] OTHER -> map[e]]
          /\ order' = Append(SelectSeq(order, LAMBDA e : e \notin dropped), k)
    /\ UNCHANGED limit

Get(k) == ret' = map[k] /\ UNCHANGED <<map, limit, order>>

Replace(k, d) ==
    /\ ret' = map[k] /\ map[k] # NULL
    /\ map' = [map EXCEPT ![k] = d]
    /\ UNCHANGED <<order, limit>>

Remove(k) == ret' = map[k] /\ Drop({k}) /\ UNCHANGED limit

Clear == UNCHANGED <<ret, limit>> /\ Drop(Keys)

\* The caller bounds an empty table, or goes on with a new one.
SetLimit == limit' \in Nat /\ UNCHANGED <<ret, map, order>> /\ order = <<>>

Finalize == UNCHANGED ret /\ limit' = 0 /\ Drop(Keys)

Next ==
    \/ \E k \in Keys : Refuse(k) \/ Get(k) \/ Remove(k)
    \/ \E k \in Keys, d \in Data : Insert(k, d) \/ Replace(k, d)
    \/ Clear \/ SetLimit \/ Finalize

Spec == Init /\ [][Next]_vars
=============================================================================
