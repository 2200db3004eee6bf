------------------------------ MODULE HashTable ------------------------------
(***************************************************************************)
(* The hash table of src/src/hash_table.c, link by link.  An entry stands  *)
(* on two doubly linked lists at once: the chain of its bucket (p_next,    *)
(* p_prev) and the list of all entries by age (p_older, p_newer).  A table *)
(* never holds two entries with one key, so an entry is named by its key   *)
(* and a pointer to it is that key, or NULL.                               *)
(*                                                                         *)
(* Every call of the library is one action: the library has no threads and *)
(* no locks of its own.  An iteration (ght_first, ght_next) is spread over *)
(* several calls, and other calls may come in between.                     *)
(***************************************************************************)
EXTENDS Integers, Sequences, FiniteSets, Functions

CONSTANTS
    Keys,          \* the keys, and so the entries
    Data,          \* the data stored; never the NULL pointer
    NULL,          \* the pointer that points nowhere
    Hash,          \* fn_hash
    Size,          \* the size given to ght_create
    RehashSizes,   \* the sizes given to ght_rehash
    Heuristics,    \* the heuristics the caller may set
    Rehashes,      \* the values the caller may give ght_set_rehash
    Limits,        \* the limits the caller may give ght_set_bounded_buckets
    Iterates,      \* TRUE when the caller iterates over the table
    AllocFails     \* TRUE when fn_alloc may return NULL

ASSUME TableAssumption ==
    /\ IsFiniteSet(Keys) /\ NULL \notin Keys /\ NULL \notin Data
    /\ Hash \in [Keys -> Nat]
    /\ Size \in Nat \ {0} /\ RehashSizes \subseteq Nat \ {0}
    /\ Heuristics \subseteq {"none", "transpose", "move_to_front"}
    /\ Rehashes \subseteq BOOLEAN /\ Limits \subseteq Nat
    /\ Iterates \in BOOLEAN /\ AllocFails \in BOOLEAN

VARIABLES
    ht,            \* the table: its buckets, counters, lists and entries
    opt,           \* i_heuristics, i_automatic_rehash and bucket_limit
    ret,           \* what the last call returned
    it,            \* ght_iterator_t of the caller's iteration
    stale,         \* the iteration has an entry before it that was freed
    seen,          \* how often the iteration returned a key, counted up to 2
    due            \* the keys the iteration owes the caller

tableVars == <<ht, opt, ret>>
iterVars == <<it, stale, seen, due>>
vars == <<tableVars, iterVars>>

\* The entries met by following the links from e; a cycle shows as a walk
\* longer than the number of entries there are.
Walk(link, e) ==
    LET walk[k \in Keys \cup {NULL}, n \in 0..Cardinality(Keys)] ==
            IF k = NULL THEN <<>>
            ELSE <<k>> \o IF n = 0 THEN <<>> ELSE walk[link[k], n - 1]
    IN  walk[e, Cardinality(Keys)]

\* What ght_create rounds a size up to.
Rounded(size) ==
    CHOOSE n \in {2^i : i \in 0..size} :
        /\ n >= size
        /\ \A i \in 0..size : 2^i >= size => n <= 2^i

NoLinks == [k \in Keys |-> NULL]

ght_create(size) ==
    LET buckets == 0..(Rounded(size) - 1)
    IN  [i_size |-> Rounded(size), i_items |-> 0,
         pp_entries |-> [b \in buckets |-> NULL],
         p_nr |-> [b \in buckets |-> 0],
         p_oldest |-> NULL, p_newest |-> NULL,
         entries |-> {}, p_data |-> NoLinks, p_bucketidx |-> [k \in Keys |-> 0],
         p_next |-> NoLinks, p_prev |-> NoLinks,
         p_older |-> NoLinks, p_newer |-> NoLinks]

\* The hash value under i_size_mask, which is i_size - 1.
Bucket(t, k) == Hash[k] % t.i_size

Chain(t, b) == Walk(t.p_next, t.pp_entries[b])

ByAge(t) == Walk(t.p_newer, t.p_oldest)

Found(t, k) == k \in Range(Chain(t, Bucket(t, k)))

Value(t, k) == IF Found(t, k) THEN t.p_data[k] ELSE NULL

\* Give one link of an entry a new value, when there is such an entry.
Put(t, link, e, v) == IF e = NULL THEN t ELSE [t EXCEPT ![link][e] = v]

\* The same for the link of the predecessor, or else for the list's head.
PutPrev(t, b, e, v) ==
    IF e = NULL THEN [t EXCEPT !.pp_entries[b] = v] ELSE Put(t, "p_next", e, v)

transpose(t, b, e) ==
    LET x == t.p_prev[e]
        a == t.p_prev[x]
        t1 == Put(PutPrev(t, b, a, e), "p_prev", t.p_next[e], x)
        t2 == [t1 EXCEPT !.p_next[x] = t.p_next[e], !.p_prev[x] = e]
    IN  IF x = NULL THEN t ELSE [t2 EXCEPT !.p_next[e] = x, !.p_prev[e] = a]

move_to_front(t, b, e) ==
    LET first == t.pp_entries[b]
        t1 == Put(t, "p_next", t.p_prev[e], t.p_next[e])
        t2 == Put(t1, "p_prev", t.p_next[e], t.p_prev[e])
    IN  IF e = first THEN t
        ELSE [t2 EXCEPT !.p_next[e] = first, !.p_prev =
                  [t2.p_prev EXCEPT ![e] = NULL, ![first] = e],
                  !.pp_entries[b] = e]

\* search_in_bucket, as far as it changes the table.
Searched(t, k) ==
    LET b == Bucket(t, k)
    IN  CASE ~Found(t, k) \/ opt.i_heuristics = "none" -> t
          [] Found(t, k) /\ opt.i_heuristics = "transpose" -> transpose(t, b, k)
          [] Found(t, k) /\ opt.i_heuristics = "move_to_front" ->
                 move_to_front(t, b, k)

\* Faulty variant: the newer neighbour keeps pointing at the removed entry.
remove_from_chain_halfway(t, b, e) ==
    LET t1 == PutPrev(t, b, t.p_prev[e], t.p_next[e])
        t2 == Put(t1, "p_prev", t.p_next[e], t.p_prev[e])
        t3 == IF t.p_older[e] = NULL THEN [t2 EXCEPT !.p_oldest = t.p_newer[e]]
              ELSE Put(t2, "p_newer", t.p_older[e], t.p_newer[e])
    IN  IF t.p_newer[e] = NULL THEN [t3 EXCEPT !.p_newest = t.p_older[e]]
        ELSE t3

remove_from_chain(t, b, e) ==
    LET t1 == PutPrev(t, b, t.p_prev[e], t.p_next[e])
        t2 == Put(t1, "p_prev", t.p_next[e], t.p_prev[e])
        t3 == IF t.p_older[e] = NULL THEN [t2 EXCEPT !.p_oldest = t.p_newer[e]]
              ELSE Put(t2, "p_newer", t.p_older[e], t.p_newer[e])
    IN  IF t.p_newer[e] = NULL THEN [t3 EXCEPT !.p_newest = t.p_older[e]]
        ELSE Put(t3, "p_older", t.p_newer[e], t.p_older[e])

\* The entries of ks are freed; he_finalize clears their links.
he_finalize(t, ks) ==
    LET Clear(f, v) == [k \in Keys |-> IF k \in ks THEN v ELSE f[k]]
    IN  [t EXCEPT !.entries = @ \ ks, !.p_data = Clear(@, NULL),
                  !.p_bucketidx = Clear(@, 0),
                  !.p_next = Clear(@, NULL), !.p_prev = Clear(@, NULL),
                  !.p_older = Clear(@, NULL), !.p_newer = Clear(@, NULL)]

\* ght_insert from the placing of the new entry at the front of its bucket.
PlaceFirst(t, k, d) ==
    LET b == Bucket(t, k)
        t1 == Put(t, "p_prev", t.pp_entries[b], k)
    IN  [t1 EXCEPT !.entries = @ \cup {k}, !.p_data[k] = d,
                   !.p_next[k] = t.pp_entries[b], !.p_bucketidx[k] = b,
                   !.pp_entries[b] = k]

\* The end of ght_insert: the new entry becomes the newest.
AppendByAge(t, k) ==
    LET t1 == Put(t, "p_newer", t.p_newest, k)
    IN  [t1 EXCEPT !.p_oldest = IF @ = NULL THEN k ELSE @,
                   !.p_older[k] = t.p_newest, !.p_newest = k]

Last(s) == s[Len(s)]

\* The entry a bounded bucket gives up for a new one, if it has to.
Evicted(t, limit, b) ==
    IF limit # 0 /\ t.p_nr[b] >= limit THEN {Last(Chain(t, b))} ELSE {}

\* Faulty variant: the last entry goes only once the bucket is over its limit.
insert_late(t, limit, k, d) ==
    LET b == Bucket(t, k)
        t1 == PlaceFirst(t, k, d)
        out == IF t.p_nr[b] > limit THEN Evicted(t1, limit, b) ELSE {}
        t2 == IF out = {} THEN [t1 EXCEPT !.p_nr[b] = @ + 1, !.i_items = @ + 1]
              ELSE he_finalize(remove_from_chain(t1, b, CHOOSE e \in out : TRUE), out)
    IN  AppendByAge(t2, k)

\* ght_insert once the key is known to be new and memory was found for it.
insert(t, limit, k, d) ==
    LET b == Bucket(t, k)
        t1 == PlaceFirst(t, k, d)
        out == Evicted(t1, limit, b)
        t2 == IF out = {} THEN [t1 EXCEPT !.p_nr[b] = @ + 1, !.i_items = @ + 1]
              ELSE he_finalize(remove_from_chain(t1, b, CHOOSE e \in out : TRUE), out)
    IN  AppendByAge(t2, k)

\* Faulty variant: the new table is filled from the newest entry back.
rehash_reversed(t, size, lost) ==
    LET order == SelectSeq(Walk(t.p_older, t.p_newest), LAMBDA k : k \notin lost)
        filled[n \in 0..Len(order)] ==
            IF n = 0 THEN ght_create(size)
            ELSE insert(filled[n - 1], 0, order[n], t.p_data[order[n]])
    IN  filled[Len(order)]

\* ght_rehash: the entries go by age into an unbounded new table, without
\* those for which fn_alloc has no memory; then the old entries are freed.
rehash(t, size, lost) ==
    LET order == SelectSeq(ByAge(t), LAMBDA k : k \notin lost)
        filled[n \in 0..Len(order)] ==
            IF n = 0 THEN ght_create(size)
            ELSE insert(filled[n - 1], 0, order[n], t.p_data[order[n]])
    IN  filled[Len(order)]

\* The sets of entries a rehash may have no memory for.
Losses == IF AllocFails THEN SUBSET ht.entries ELSE {{}}

\* ght_remove and ght_remove_first after the search.
unlink(t, b, e) ==
    he_finalize([remove_from_chain(t, b, e) EXCEPT !.i_items = @ - 1,
                                                   !.p_nr[b] = @ - 1], {e})

\* Every entry of every chain is freed and the table left empty.
remove_all_entries(t) ==
    LET chained == UNION {Range(Chain(t, b)) : b \in DOMAIN t.pp_entries}
    IN  [he_finalize(t, chained) EXCEPT !.pp_entries = [b \in DOMAIN @ |-> NULL]]

-----------------------------------------------------------------------------
NoOptions ==
    [i_heuristics |-> "none", i_automatic_rehash |-> FALSE, bucket_limit |-> 0]

NotSeen == [k \in Keys |-> 0]

NoIteration == it = [p_entry |-> NULL, p_next |-> NULL]

Init ==
    /\ ht = ght_create(Size)
    /\ opt = NoOptions
    /\ ret = NULL
    /\ NoIteration /\ stale = FALSE /\ seen = NotSeen /\ due = {}

\* What a call that frees the entries of `gone` does to the iteration.  Nothing
\* is counted of one whose next entry has been freed.
Freed(gone, removed) ==
    /\ stale' = (stale \/ it.p_next \in gone)
    /\ due' = IF stale' THEN {} ELSE due \ removed
    /\ seen' = IF stale' THEN NotSeen ELSE seen
    /\ UNCHANGED it

\* The caller removes an entry during an iteration only if the iteration is
\* not still to come to it (ght_hash_table.h lines 424 to 426).
MayRemove(k) == k \notin Range(Walk(ht.p_newer, it.p_next))

ght_set_heuristics(h) ==
    /\ opt' = [opt EXCEPT !.i_heuristics = h]
    /\ UNCHANGED <<ht, ret, iterVars>>

ght_set_rehash(b) ==
    /\ opt' = [opt EXCEPT !.i_automatic_rehash = b]
    /\ UNCHANGED <<ht, ret, iterVars>>

\* The caller bounds the buckets while the table is empty.
ght_set_bounded_buckets(limit) ==
    /\ ht.entries = {}
    /\ opt' = [opt EXCEPT !.bucket_limit = limit]
    /\ UNCHANGED <<ht, ret, iterVars>>

InsertPresent(k) ==
    /\ Found(ht, k)
    /\ ret' = -1
    /\ UNCHANGED <<ht, opt, iterVars>>

InsertNoMemory(k) ==
    /\ ~Found(ht, k) /\ AllocFails
    /\ ret' = -2
    /\ UNCHANGED <<ht, opt, iterVars>>

MustRehash == opt.i_automatic_rehash /\ ht.i_items > 2 * ht.i_size

ght_insert(k, d, lost) ==
    /\ ~Found(ht, k)
    /\ ~MustRehash => lost = {}
    /\ LET t == IF MustRehash THEN rehash(ht, 2 * ht.i_size, lost) ELSE ht
       IN  ht' = insert(t, opt.bucket_limit, k, d)
    /\ ret' = 0
    /\ Freed(IF MustRehash THEN ht.entries ELSE ht.entries \ ht'.entries,
             ht.entries \ ht'.entries)
    /\ UNCHANGED opt

ght_get(k) ==
    /\ ht' = Searched(ht, k)
    /\ ret' = Value(ht, k)
    /\ UNCHANGED <<opt, iterVars>>

ght_replace(k, d) ==
    /\ ht' = IF Found(ht, k) THEN [Searched(ht, k) EXCEPT !.p_data[k] = d] ELSE ht
    /\ ret' = Value(ht, k)
    /\ UNCHANGED <<opt, iterVars>>

ght_remove(k) ==
    /\ MayRemove(k)
    /\ ht' = IF Found(ht, k) THEN unlink(ht, Bucket(ht, k), k) ELSE ht
    /\ ret' = Value(ht, k)
    /\ Freed(ht.entries \ ht'.entries, {k})
    /\ UNCHANGED opt

ght_remove_first ==
    LET k == ht.p_oldest
    IN  /\ k # NULL => MayRemove(k)
        /\ ht' = IF k = NULL THEN ht ELSE unlink(ht, ht.p_bucketidx[k], k)
        /\ ret' = IF k = NULL THEN NULL ELSE ht.p_data[k]
        /\ Freed(ht.entries \ ht'.entries, {k})
        /\ UNCHANGED opt

ght_remove_all ==
    /\ it.p_entry = NULL
    /\ ht' = [remove_all_entries(ht) EXCEPT !.i_items = 0,
                  !.p_nr = [b \in DOMAIN @ |-> 0],
                  !.p_oldest = NULL, !.p_newest = NULL]
    /\ UNCHANGED <<opt, ret, iterVars>>

\* It frees every entry, also in the middle of an iteration.
ght_rehash(size, lost) ==
    /\ ht' = rehash(ht, size, lost)
    /\ Freed(ht.entries, ht.entries \ ht'.entries)
    /\ UNCHANGED <<opt, ret>>

Counted(count, e) ==
    [k \in Keys |-> IF k = e /\ count[k] < 2 THEN count[k] + 1 ELSE count[k]]

ght_first ==
    LET e == ht.p_oldest
    IN  /\ Iterates
        /\ it' = [p_entry |-> e, p_next |-> IF e = NULL THEN NULL ELSE ht.p_newer[e]]
        /\ stale' = FALSE
        /\ seen' = Counted(NotSeen, e)
        /\ due' = ht.entries
        /\ UNCHANGED tableVars

\* p_newer of the entry that comes next.  What is read of an entry that was
\* freed is anything; if it leads the program astray, the program stops.
AfterNext ==
    CASE it.p_next = NULL -> {NULL}
      [] it.p_next # NULL /\ ~stale -> {ht.p_newer[it.p_next]}
      [] it.p_next # NULL /\ stale -> Keys \cup {NULL}

\* Faulty variant: the entry after the next one is looked up a step too late.
next_skips ==
    /\ it.p_entry # NULL
    /\ \E n \in AfterNext :
         it' = [p_entry |-> it.p_next, p_next |-> IF n = NULL THEN NULL ELSE ht.p_newer[n]]
    /\ seen' = IF it.p_next = NULL \/ stale THEN NotSeen ELSE Counted(seen, it.p_next)
    /\ due' = IF it.p_next = NULL THEN {} ELSE due
    /\ UNCHANGED <<tableVars, stale>>

ght_next ==
    /\ it.p_entry # NULL
    /\ \E n \in AfterNext : it' = [p_entry |-> it.p_next, p_next |-> n]
    /\ seen' = IF it.p_next = NULL \/ stale THEN NotSeen ELSE Counted(seen, it.p_next)
    /\ due' = IF it.p_next = NULL THEN {} ELSE due
    /\ UNCHANGED <<tableVars, stale>>

\* ght_finalize frees every entry and then the table itself; the caller goes
\* on with a new one.
ght_finalize ==
    /\ it.p_entry = NULL
    /\ ht' = ght_create(Size)
    /\ opt' = NoOptions
    /\ UNCHANGED <<ret, iterVars>>

Next ==
    \/ \E h \in Heuristics : ght_set_heuristics(h)
    \/ \E b \in Rehashes : ght_set_rehash(b)
    \/ \E limit \in Limits : ght_set_bounded_buckets(limit)
    \/ \E k \in Keys : InsertPresent(k)
    \/ \E k \in Keys : InsertNoMemory(k)
    \/ \E k \in Keys, d \in Data, lost \in Losses : ght_insert(k, d, lost)
    \/ \E k \in Keys : ght_get(k)
    \/ \E k \in Keys, d \in Data : ght_replace(k, d)
    \/ \E k \in Keys : ght_remove(k)
    \/ ght_remove_first
    \/ ght_remove_all
    \/ \E size \in RehashSizes, lost \in Losses : ght_rehash(size, lost)
    \/ ght_first
    \/ ght_next
    \/ ght_finalize

Spec == Init /\ [][Next]_vars

-----------------------------------------------------------------------------
\* A list that `back` walks the other way round.
DoublyLinked(list, back) ==
    /\ IsInjective(list)
    /\ \A i \in 1..Len(list) :
          back[list[i]] = IF i = 1 THEN NULL ELSE list[i - 1]

\* The chains partition the entries by bucket, the list by age holds every
\* entry and ends at p_newest, both are proper doubly linked lists, and the
\* counters p_nr and i_items and the index p_bucketidx agree with them, whatever
\* mix of heuristics, removals, evictions and rehashes went before.  (ght_get
\* asserts a part of this at hash_table.c line 511; ght_remove_first and the
\* iterations rely on the rest.)
ListsSound ==
    LET list == ByAge(ht)
    IN  /\ \A b \in DOMAIN ht.pp_entries :
              LET chain == Chain(ht, b)
              IN  /\ DoublyLinked(chain, ht.p_prev)
                  /\ Range(chain) = {k \in ht.entries : Bucket(ht, k) = b}
                  /\ ht.p_nr[b] = Len(chain)
        /\ \A k \in ht.entries : ht.p_bucketidx[k] = Bucket(ht, k)
        /\ ht.i_items = Cardinality(ht.entries)
        /\ DoublyLinked(list, ht.p_older)
        /\ Range(list) = ht.entries
        /\ ht.p_newest = IF list = <<>> THEN NULL ELSE Last(list)

\* An iteration that runs to its end has returned every entry that was there
\* at ght_first and was not removed since, and each of them once, whatever the
\* caller looked up, replaced, removed or inserted in between.  The exception is
\* a call that frees the very entry the iterator keeps as p_next: an insertion
\* that evicts it from a bounded bucket, or a rehash, automatic or not, which
\* frees every entry.  ght_next then goes on from freed memory (hash_table.c
\* line 672), although ght_hash_table.h lines 423 and 424 allow insertions
\* during an iteration; nothing is claimed of the rest of that iteration.
IterationComplete ==
    [][it.p_entry # NULL /\ it'.p_entry = NULL =>
         stale \/ \A k \in due : seen[k] = 1]_vars

\* With bounded buckets the table holds "a fixed number of elements per
\* bucket" (ght_hash_table.h lines 288 and 289), however insertions, evictions
\* and automatic rehashes, which double the size, follow each other.
BucketBound ==
    opt.bucket_limit # 0 =>
        \A b \in DOMAIN ht.pp_entries : Len(Chain(ht, b)) <= opt.bucket_limit

AgeMapSpec ==
    INSTANCE AgeMap WITH map <- ht.p_data, order <- ByAge(ht), limit <- opt.bucket_limit

\* Link by link, every call does what it promises on the map and on the order
\* of the entries, and returns what it promises; look-ups and rehashes change
\* nothing a caller can see.
ImplementsAgeMap == AgeMapSpec!Spec
=============================================================================
