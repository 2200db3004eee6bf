--------------------------- MODULE SequenceLemmas ---------------------------
(* Facts about sequences that the proofs of the queues have in common.     *)
EXTENDS Integers, Sequences, Functions, TLAPS

\* Moving the first element of the second sequence to the end of the first.
LEMMA MoveHead ==
  ASSUME NEW S, NEW s \in Seq(S), NEW t \in Seq(S), t # <<>>
  PROVE  Append(s, Head(t)) \o Tail(t) = s \o t
BY SMTT(30)

\* The values of a sequence grow by the appended element only.
LEMMA RangeAppend ==
  ASSUME NEW S, NEW s \in Seq(S), NEW e \in S
  PROVE  Range(Append(s, e)) = Range(s) \cup {e}
<1>1. DOMAIN Append(s, e) = 1 .. Len(s) + 1 /\ DOMAIN s = 1 .. Len(s)
  OBVIOUS
<1>2. \A i \in 1 .. Len(s) + 1 :
        Append(s, e)[i] = IF i = Len(s) + 1 THEN e ELSE s[i]
  OBVIOUS
<1>3. Len(s) \in Nat
  OBVIOUS
<1> QED  BY <1>1, <1>2, <1>3 DEF Range

\* The values of a sequence are those of its elements.
LEMMA RangeElements ==
  ASSUME NEW S, NEW s \in Seq(S)
  PROVE  Range(s) = {s[i] : i \in 1 .. Len(s)} /\ Range(s) \subseteq S
BY DEF Range

\* The values of two sequences one after the other; none repeats if none does
\* in either, and none is in both.
LEMMA ConcatValues ==
  ASSUME NEW S, NEW s \in Seq(S), NEW t \in Seq(S)
  PROVE  /\ s \o t \in Seq(S) /\ Len(s \o t) = Len(s) + Len(t)
         /\ Range(s \o t) = Range(s) \cup Range(t)
         /\ IsInjective(s) /\ IsInjective(t) /\ Range(s) \cap Range(t) = {} =>
              IsInjective(s \o t)
<1>1. /\ s \o t \in Seq(S) /\ Len(s \o t) = Len(s) + Len(t)
      /\ DOMAIN s = 1 .. Len(s) /\ DOMAIN t = 1 .. Len(t)
      /\ DOMAIN (s \o t) = 1 .. Len(s) + Len(t)
      /\ Len(s) \in Nat /\ Len(t) \in Nat
  OBVIOUS
<1>2. \A i \in 1 .. Len(s) : (s \o t)[i] = s[i]
  OBVIOUS
<1>3. \A i \in 1 .. Len(t) : (s \o t)[Len(s) + i] = t[i]
  OBVIOUS
<1>4. \A i \in 1 .. Len(s) + Len(t) :
        i \notin 1 .. Len(s) => i - Len(s) \in 1 .. Len(t) /\ Len(s) + (i - Len(s)) = i
  BY <1>1
<1> DEFINE u == s \o t
<1> HIDE DEF u
<1>5. Range(u) = Range(s) \cup Range(t)
  <2>1. \A i \in DOMAIN u : u[i] \in Range(s) \cup Range(t)
    BY <1>1, <1>2, <1>3, <1>4 DEF Range, u
  <2>2. \A i \in DOMAIN s : s[i] \in Range(u)
    BY <1>1, <1>2 DEF Range, u
  <2>3. \A i \in DOMAIN t : Len(s) + i \in DOMAIN u
    BY <1>1 DEF u
  <2>4. \A i \in DOMAIN t : t[i] \in Range(u)
    BY <1>1, <1>3, <2>3 DEF Range, u
  <2> QED  BY <2>1, <2>2, <2>4 DEF Range
<1>6. ASSUME IsInjective(s), IsInjective(t), Range(s) \cap Range(t) = {}
      PROVE  IsInjective(u)
  <2>1. \A i \in DOMAIN s, j \in DOMAIN t : s[i] # t[j]
    BY <1>6 DEF Range
  <2> SUFFICES ASSUME NEW i \in DOMAIN u, NEW j \in DOMAIN u, u[i] = u[j]
               PROVE  i = j
    BY DEF IsInjective
  <2>2. CASE i \in 1 .. Len(s) /\ j \in 1 .. Len(s)
    BY <1>1, <1>2, <1>6, <2>2 DEF IsInjective, u
  <2>3. CASE i \in 1 .. Len(s) /\ j \notin 1 .. Len(s)
    BY <1>1, <1>2, <1>3, <1>4, <2>1, <2>3 DEF u
  <2>4. CASE i \notin 1 .. Len(s) /\ j \in 1 .. Len(s)
    BY <1>1, <1>2, <1>3, <1>4, <2>1, <2>4 DEF u
  <2>5. CASE i \notin 1 .. Len(s) /\ j \notin 1 .. Len(s)
    <3>1. i - Len(s) \in DOMAIN t /\ j - Len(s) \in DOMAIN t
      BY <1>1, <1>4, <2>5 DEF u
    <3>2. t[i - Len(s)] = t[j - Len(s)]
      BY <1>1, <1>3, <1>4, <2>5, <3>1 DEF u
    <3>3. i - Len(s) = j - Len(s)
      BY <1>6, <3>1, <3>2 DEF IsInjective
    <3> QED  BY <1>1, <3>3 DEF u
  <2> QED  BY <2>2, <2>3, <2>4, <2>5
<1> QED  BY <1>1, <1>5, <1>6 DEF u

\* A sequence cut in two.
LEMMA CutValues ==
  ASSUME NEW S, NEW s \in Seq(S), NEW k \in 0 .. Len(s)
  PROVE  LET a == SubSeq(s, 1, k)
             b == SubSeq(s, k + 1, Len(s))
         IN /\ a \in Seq(S) /\ Len(a) = k
            /\ b \in Seq(S) /\ Len(b) = Len(s) - k
            /\ Range(s) = Range(a) \cup Range(b)
            /\ IsInjective(s) => /\ IsInjective(a) /\ IsInjective(b)
                                 /\ Range(a) \cap Range(b) = {}
<1> DEFINE a == SubSeq(s, 1, k)
           b == SubSeq(s, k + 1, Len(s))
<1>1. /\ a \in Seq(S) /\ Len(a) = k /\ DOMAIN a = 1 .. k
      /\ \A i \in 1 .. k : a[i] = s[i]
  OBVIOUS
<1>2. /\ b \in Seq(S) /\ Len(b) = Len(s) - k /\ DOMAIN b = 1 .. Len(s) - k
      /\ \A i \in 1 .. Len(s) - k : b[i] = s[k + i]
  OBVIOUS
<1>3. DOMAIN s = 1 .. Len(s) /\ Len(s) \in Nat /\ k \in Nat /\ k <= Len(s)
  OBVIOUS
<1> HIDE DEF a, b
<1>4. \A i \in DOMAIN b : i \in Nat /\ k + i \in DOMAIN s /\ b[i] = s[k + i]
  BY <1>2, <1>3
<1>5. Range(s) = Range(a) \cup Range(b)
  <2>1. \A i \in DOMAIN a : a[i] \in Range(s)
    BY <1>1, <1>3 DEF Range
  <2>2. ASSUME NEW i \in DOMAIN s PROVE s[i] \in Range(a) \cup Range(b)
    <3>1. CASE i <= k
      BY <1>1, <1>3, <3>1 DEF Range
    <3>2. CASE i > k
      <4>1. i - k \in DOMAIN b /\ b[i - k] = s[i]
        BY <1>2, <1>3, <3>2
      <4> QED  BY <4>1 DEF Range
    <3> QED  BY <1>3, <3>1, <3>2
  <2> QED  BY <1>4, <2>1, <2>2 DEF Range
<1>6. ASSUME IsInjective(s)
      PROVE  IsInjective(a) /\ IsInjective(b) /\ Range(a) \cap Range(b) = {}
  <2>1. IsInjective(a)
    BY <1>1, <1>3, <1>6 DEF IsInjective
  <2>2. ASSUME NEW i \in DOMAIN b, NEW j \in DOMAIN b, b[i] = b[j] PROVE i = j
    <3>1. k + i \in DOMAIN s /\ k + j \in DOMAIN s /\ s[k + i] = s[k + j]
      BY <1>4, <2>2, Zenon
    <3>2. k + i = k + j
      BY <1>6, <3>1, Zenon DEF IsInjective
    <3>3. i \in Nat /\ j \in Nat /\ k \in Nat
      BY <1>3, <1>4
    <3> QED  BY <3>2, <3>3
  <2>3. ASSUME NEW i \in DOMAIN a, NEW j \in DOMAIN b PROVE a[i] # b[j]
    <3>1. i \in DOMAIN s /\ k + j \in DOMAIN s /\ i # k + j
      BY <1>1, <1>2, <1>3
    <3>2. s[i] # s[k + j]
      BY <1>6, <3>1 DEF IsInjective
    <3> QED  BY <1>1, <1>2, <3>2
  <2> QED  BY <2>1, <2>2, <2>3 DEF Range, IsInjective
<1> QED  BY <1>1, <1>2, <1>5, <1>6 DEF a, b

\* One more element at the end.
LEMMA AppendValues ==
  ASSUME NEW S, NEW s \in Seq(S), NEW e \in S
  PROVE  /\ Append(s, e) \in Seq(S) /\ Len(Append(s, e)) = Len(s) + 1
         /\ Append(s, e) # <<>> /\ Append(s, e)[Len(Append(s, e))] = e
         /\ Range(Append(s, e)) = Range(s) \cup {e}
         /\ IsInjective(s) /\ e \notin Range(s) => IsInjective(Append(s, e))
<1>1. /\ DOMAIN Append(s, e) = 1 .. Len(s) + 1 /\ DOMAIN s = 1 .. Len(s)
      /\ \A i \in 1 .. Len(s) + 1 :
           Append(s, e)[i] = IF i = Len(s) + 1 THEN e ELSE s[i]
      /\ Append(s, e) \in Seq(S) /\ Len(Append(s, e)) = Len(s) + 1
      /\ Len(s) \in Nat
  OBVIOUS
<1>2. Append(s, e) # <<>>
  <2> DEFINE u == Append(s, e)
  <2>1. u \in Seq(S) /\ Len(u) # 0
    BY <1>1
  <2> HIDE DEF u
  <2>2. u # <<>>
    BY <2>1
  <2> QED  BY <2>2 DEF u
<1>3. IsInjective(s) /\ e \notin Range(s) => IsInjective(Append(s, e))
  BY <1>1 DEF IsInjective, Range
<1> QED  BY <1>1, <1>2, <1>3, RangeAppend

\* The first element and the others.
LEMMA TailValues ==
  ASSUME NEW S, NEW s \in Seq(S), s # <<>>
  PROVE  /\ Head(s) \in S /\ Head(s) = s[1]
         /\ Tail(s) \in Seq(S) /\ Len(Tail(s)) = Len(s) - 1
         /\ Range(s) = {Head(s)} \cup Range(Tail(s))
         /\ IsInjective(s) => IsInjective(Tail(s)) /\ Head(s) \notin Range(Tail(s))
<1> DEFINE t == Tail(s)
<1>1. /\ Head(s) \in S /\ Head(s) = s[1]
      /\ t \in Seq(S) /\ Len(t) = Len(s) - 1
      /\ DOMAIN s = 1 .. Len(s) /\ DOMAIN t = 1 .. Len(s) - 1
      /\ \A i \in 1 .. Len(s) - 1 : t[i] = s[i + 1]
      /\ Len(s) \in Nat /\ Len(s) > 0
  OBVIOUS
<1> HIDE DEF t
<1>2. Range(s) = {Head(s)} \cup Range(t)
  <2>1. \A i \in DOMAIN t : i + 1 \in DOMAIN s /\ t[i] = s[i + 1]
    BY <1>1
  <2>2. ASSUME NEW i \in DOMAIN s, i # 1 PROVE s[i] \in Range(t)
    <3>1. i - 1 \in DOMAIN t /\ t[i - 1] = s[i]
      BY <1>1, <2>2
    <3> QED  BY <3>1 DEF Range
  <2>3. 1 \in DOMAIN s /\ Head(s) = s[1]
    BY <1>1
  <2>4. \A i \in DOMAIN t : t[i] \in Range(s)
    BY ONLY <2>1 DEF Range
  <2>5. \A i \in DOMAIN s : s[i] \in {Head(s)} \cup Range(t)
    BY ONLY <2>2, <2>3
  <2> QED  BY ONLY <2>3, <2>4, <2>5 DEF Range
<1>3. ASSUME IsInjective(s) PROVE IsInjective(t) /\ Head(s) \notin Range(t)
  <2>1. ASSUME NEW i \in DOMAIN t, NEW j \in DOMAIN t, t[i] = t[j] PROVE i = j
    <3>1. i + 1 \in DOMAIN s /\ j + 1 \in DOMAIN s /\ s[i + 1] = s[j + 1]
      BY <1>1, <2>1
    <3>2. i + 1 = j + 1
      BY <1>3, <3>1 DEF IsInjective
    <3> QED  BY <1>1, <3>2
  <2>2. ASSUME NEW i \in DOMAIN t PROVE t[i] # s[1]
    <3>1. i + 1 \in DOMAIN s /\ 1 \in DOMAIN s /\ i + 1 # 1 /\ t[i] = s[i + 1]
      BY <1>1
    <3> QED  BY <1>3, <3>1 DEF IsInjective
  <2> QED  BY <1>1, <2>1, <2>2 DEF Range, IsInjective
<1> QED  BY <1>1, <1>2, <1>3 DEF t
=============================================================================
