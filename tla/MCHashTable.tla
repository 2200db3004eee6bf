---------------------------- MODULE MCHashTable ----------------------------
(***************************************************************************)
(* Small instances of HashTable: three keys, two of which share a bucket   *)
(* in a table of two, and four keys that part in a table of four only.     *)
(***************************************************************************)
EXTENDS HashTable, TLC

CONSTANTS k1, k2, k3, k4, d1, d2

MCThree == {k1, k2, k3}

MCFour == {k1, k2, k3, k4}

MCOneDatum == {d1}

MCTwoData == {d1, d2}

\* The data are only stored and returned.
MCSymmetry == Permutations(MCTwoData)

\* k1 and k3 collide in a table of two buckets.
MCHash == [k \in Keys |-> CASE k = k1 -> 4 [] k = k2 -> 1 [] k = k3 -> 2]

\* All collide in a table of two: the automatic rehash of a full bucket leaves
\* it full, and the insertion that caused it evicts an entry too.
MCHashEven ==
    [k \in Keys |-> CASE k = k1 -> 0 [] k = k2 -> 2 [] k = k3 -> 4 [] k = k4 -> 6]

MCAllHeuristics == {"none", "transpose", "move_to_front"}
=============================================================================
