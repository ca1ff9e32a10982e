--------------------------- MODULE SequenceRanges ---------------------------
(* What the operations a queue needs do to the set of its elements, and      *)
(* whether they keep the elements distinct.                                  *)
EXTENDS SequencesExt, FiniteSetTheorems, SequenceTheorems, TLAPS

(* pendingJobs.append(id) adds id, and keeps the ids distinct if it is new. *)
LEMMA AppendRange ==
  ASSUME NEW S, NEW q \in Seq(S), NEW e \in S
  PROVE  /\ Append(q, e) \in Seq(S)
         /\ Range(Append(q, e)) = Range(q) \cup {e}
         /\ IsInjective(q) /\ e \notin Range(q) => IsInjective(Append(q, e))
<1>1. /\ Append(q, e) \in Seq(S) /\ Len(Append(q, e)) = Len(q) + 1
      /\ \A k \in 1..Len(q) : Append(q, e)[k] = q[k]
      /\ Append(q, e)[Len(q) + 1] = e
      /\ DOMAIN q = 1..Len(q) /\ DOMAIN Append(q, e) = 1..(Len(q) + 1) /\ Len(q) \in Nat
  BY AppendProperties, LenProperties
<1>2. Range(Append(q, e)) = Range(q) \cup {e}
  BY <1>1 DEF Range
<1>3. IsInjective(q) /\ e \notin Range(q) => IsInjective(Append(q, e))
  BY <1>1 DEF Range, IsInjective
<1> QED BY <1>1, <1>2, <1>3

(* removeFirst() takes the head away and, of distinct ids, nothing else.    *)
LEMMA TailRange ==
  ASSUME NEW S, NEW q \in Seq(S), q # <<>>
  PROVE  /\ Head(q) \in S /\ Tail(q) \in Seq(S)
         /\ Range(q) = Range(Tail(q)) \cup {Head(q)}
         /\ IsInjective(q) => IsInjective(Tail(q)) /\ Head(q) \notin Range(Tail(q))
<1>1. /\ Head(q) \in S /\ Tail(q) \in Seq(S) /\ Len(Tail(q)) = Len(q) - 1
      /\ \A k \in 1..Len(Tail(q)) : Tail(q)[k] = q[k + 1]
      /\ Len(q) \in Nat \ {0} /\ Head(q) = q[1]
      /\ DOMAIN q = 1..Len(q) /\ DOMAIN Tail(q) = 1..(Len(q) - 1)
  BY HeadTailProperties, LenProperties, EmptySeq
<1>2. Range(q) \subseteq Range(Tail(q)) \cup {Head(q)}
  <2> SUFFICES ASSUME NEW k \in 1..Len(q), k # 1 PROVE q[k] \in Range(Tail(q))
    BY <1>1 DEF Range
  <2> QED BY <1>1, k - 1 \in 1..(Len(q) - 1), q[k] = Tail(q)[k - 1] DEF Range
<1>3. Range(Tail(q)) \cup {Head(q)} \subseteq Range(q)
  BY <1>1 DEF Range
<1>4. IsInjective(q) => IsInjective(Tail(q)) /\ Head(q) \notin Range(Tail(q))
  BY <1>1 DEF Range, IsInjective
<1> QED BY <1>1, <1>2, <1>3, <1>4

(* Appending a whole sequence, or inserting an id in front.                 *)
LEMMA ConcatRange ==
  ASSUME NEW S, NEW p \in Seq(S), NEW q \in Seq(S)
  PROVE  /\ p \o q \in Seq(S)
         /\ Range(p \o q) = Range(p) \cup Range(q)
         /\ IsInjective(p) /\ IsInjective(q) /\ Range(p) \cap Range(q) = {}
              => IsInjective(p \o q)
<1>1. /\ p \o q \in Seq(S) /\ Len(p \o q) = Len(p) + Len(q)
      /\ \A k \in 1..Len(p) + Len(q) :
           (p \o q)[k] = IF k <= Len(p) THEN p[k] ELSE q[k - Len(p)]
      /\ Len(p) \in Nat /\ Len(q) \in Nat
      /\ DOMAIN p = 1..Len(p) /\ DOMAIN q = 1..Len(q)
      /\ DOMAIN (p \o q) = 1..(Len(p) + Len(q))
  BY ConcatProperties, LenProperties
<1>2. Range(p \o q) = Range(p) \cup Range(q)
  BY RangeConcatenation
<1>3. ASSUME IsInjective(p), IsInjective(q), Range(p) \cap Range(q) = {}
      PROVE  IsInjective(p \o q)
  BY <1>1, <1>3 DEF IsInjective, Range
<1> QED BY <1>1, <1>2, <1>3

(* What is left of a sequence: a prefix, a suffix, all but one element.      *)
LEMMA PrefixElements ==
  ASSUME NEW S, NEW q \in Seq(S), NEW n \in 0..Len(q)
  PROVE  /\ SubSeq(q, 1, n) \in Seq(S) /\ Len(SubSeq(q, 1, n)) = n
         /\ \A m \in 1..n : SubSeq(q, 1, n)[m] = q[m]
<1>1. Len(q) \in Nat /\ n \in Nat /\ n <= Len(q) /\ \A m \in 1..Len(q) : q[m] \in S
  BY LenProperties
<1>2. n \in Int /\ \A m \in 1..n : q[m] \in S  BY <1>1
<1>3. /\ SubSeq(q, 1, n) \in Seq(S) /\ Len(SubSeq(q, 1, n)) = IF 1 <= n THEN n - 1 + 1 ELSE 0
      /\ \A m \in 1..(n - 1 + 1) : SubSeq(q, 1, n)[m] = q[1 + m - 1]
  BY <1>2, SubSeqProperties
<1>4. \A m \in 1..n : 1 + m - 1 = m /\ m \in 1..(n - 1 + 1)  BY <1>1
<1>5. (IF 1 <= n THEN n - 1 + 1 ELSE 0) = n  BY <1>1
<1> QED BY <1>3, <1>4, <1>5

(* What is left behind the first n.                                         *)
LEMMA SuffixElements ==
  ASSUME NEW S, NEW q \in Seq(S), NEW n \in 0..Len(q)
  PROVE  /\ SubSeq(q, n + 1, Len(q)) \in Seq(S) /\ Len(SubSeq(q, n + 1, Len(q))) = Len(q) - n
         /\ \A m \in 1..(Len(q) - n) : SubSeq(q, n + 1, Len(q))[m] = q[n + m]
<1> DEFINE a == n + 1
<1>1. Len(q) \in Nat /\ n \in Nat /\ n <= Len(q) /\ \A m \in 1..Len(q) : q[m] \in S
  BY LenProperties
<1>2. a \in Int /\ Len(q) \in Int /\ \A m \in a..Len(q) : q[m] \in S  BY <1>1
<1> HIDE DEF a
<1>3. /\ SubSeq(q, a, Len(q)) \in Seq(S)
      /\ Len(SubSeq(q, a, Len(q))) = IF a <= Len(q) THEN Len(q) - a + 1 ELSE 0
      /\ \A m \in 1..(Len(q) - a + 1) : SubSeq(q, a, Len(q))[m] = q[a + m - 1]
  BY <1>2, SubSeqProperties
<1>4. Len(q) - a + 1 = Len(q) - n /\ (IF a <= Len(q) THEN Len(q) - a + 1 ELSE 0) = Len(q) - n
  BY <1>1 DEF a
<1>5. \A m \in 1..(Len(q) - n) : a + m - 1 = n + m  BY <1>1 DEF a
<1> QED BY <1>3, <1>4, <1>5 DEF a

(* remove(at:) moves what is behind one place up.                           *)
LEMMA RemoveAtElements ==
  ASSUME NEW S, NEW q \in Seq(S), NEW k \in 1..Len(q)
  PROVE  /\ RemoveAt(q, k) \in Seq(S) /\ Len(RemoveAt(q, k)) = Len(q) - 1
         /\ \A m \in 1..(Len(q) - 1) : RemoveAt(q, k)[m] = IF m < k THEN q[m] ELSE q[m + 1]
<1> DEFINE r == RemoveAt(q, k)
<1>1. Len(q) \in Nat /\ DOMAIN q = 1..Len(q) /\ \A m \in 1..Len(q) : q[m] \in S
  BY LenProperties
<1>2. /\ SubSeq(q, 1, k - 1) \in Seq(S) /\ Len(SubSeq(q, 1, k - 1)) = k - 1
      /\ \A m \in 1..(k - 1) : SubSeq(q, 1, k - 1)[m] = q[m]
  BY <1>1, k - 1 \in 0..Len(q), PrefixElements
<1>3. /\ SubSeq(q, k + 1, Len(q)) \in Seq(S) /\ Len(SubSeq(q, k + 1, Len(q))) = Len(q) - k
      /\ \A m \in 1..(Len(q) - k) : SubSeq(q, k + 1, Len(q))[m] = q[k + m]
  BY <1>1, k \in 0..Len(q), SuffixElements
<1>4. /\ r \in Seq(S) /\ Len(r) = Len(q) - 1 /\ DOMAIN r = 1..(Len(q) - 1)
      /\ \A m \in 1..(Len(q) - 1) : r[m] = IF m < k THEN q[m] ELSE q[m + 1]
  <2> DEFINE x == SubSeq(q, 1, k - 1)  y == SubSeq(q, k + 1, Len(q))
  <2>1. r = x \o y  BY DEF RemoveAt
  <2>2. x \in Seq(S) /\ y \in Seq(S) /\ Len(x) = k - 1 /\ Len(y) = Len(q) - k
    BY <1>2, <1>3
  <2>3. \A m \in 1..(k - 1) : x[m] = q[m]         BY <1>2
  <2>4. \A m \in 1..(Len(q) - k) : y[m] = q[k + m]  BY <1>3
  <2> HIDE DEF x, y, r
  <2>5. /\ r \in Seq(S) /\ Len(r) = Len(x) + Len(y)
        /\ \A m \in 1..(Len(x) + Len(y)) : r[m] = IF m <= Len(x) THEN x[m] ELSE y[m - Len(x)]
    BY <2>1, <2>2, ConcatProperties
  <2>6. DOMAIN r = 1..Len(r)  BY <2>5, LenProperties
  <2>7. ASSUME NEW m \in 1..(Len(q) - 1) PROVE r[m] = IF m < k THEN q[m] ELSE q[m + 1]
    <3>0. /\ Len(q) \in Nat /\ k \in Nat /\ m \in Nat /\ 1 <= k /\ k <= Len(q) /\ 1 <= m /\ m < Len(q)
          /\ Len(x) + Len(y) = Len(q) - 1
      BY <1>1, <2>2
    <3>a. r[m] = IF m <= k - 1 THEN x[m] ELSE y[m - (k - 1)]
      BY <2>2, <2>5, <3>0
    <3>1. CASE m < k   BY <2>3, <3>0, <3>1, <3>a
    <3>2. CASE ~(m < k)
      <4>1. m - (k - 1) \in 1..(Len(q) - k)  BY <1>1, <3>2
      <4>2. r[m] = y[m - (k - 1)]            BY <3>0, <3>2, <3>a
      <4>3. y[m - (k - 1)] = q[k + (m - (k - 1))]  BY <2>4, <4>1
      <4>4. k + (m - (k - 1)) = m + 1          BY <3>0
      <4> QED BY <3>2, <4>2, <4>3, <4>4
    <3> QED BY <3>1, <3>2
  <2> QED BY <1>1, <2>2, <2>5, <2>6, <2>7
<1> QED BY <1>4 DEF r

(* remove(at:) removes one id and keeps the others.                         *)
LEMMA RemoveAtRange ==
  ASSUME NEW S, NEW q \in Seq(S), NEW k \in 1..Len(q)
  PROVE  /\ RemoveAt(q, k) \in Seq(S)
         /\ Range(q) \ {q[k]} \subseteq Range(RemoveAt(q, k))
         /\ Range(RemoveAt(q, k)) \subseteq Range(q)
         /\ IsInjective(q) => /\ IsInjective(RemoveAt(q, k))
                              /\ q[k] \notin Range(RemoveAt(q, k))
<1> DEFINE r == RemoveAt(q, k)
<1>1. Len(q) \in Nat /\ DOMAIN q = 1..Len(q) /\ \A m \in 1..Len(q) : q[m] \in S
  BY LenProperties
<1>4. /\ r \in Seq(S) /\ Len(r) = Len(q) - 1 /\ DOMAIN r = 1..(Len(q) - 1)
      /\ \A m \in 1..(Len(q) - 1) : r[m] = IF m < k THEN q[m] ELSE q[m + 1]
  BY RemoveAtElements, LenProperties
<1> HIDE DEF r
<1>5. Range(q) \ {q[k]} \subseteq Range(r)
  <2> SUFFICES ASSUME NEW m \in 1..Len(q), m # k PROVE q[m] \in Range(r)
    BY <1>1 DEF Range
  <2>1. CASE m < k  BY <1>1, <1>4, <2>1 DEF Range
  <2>2. CASE m > k
    <3>1. m - 1 \in 1..(Len(q) - 1)  BY <1>1, <2>2
    <3>2. r[m - 1] = q[m]            BY <1>1, <1>4, <2>2, <3>1
    <3> QED BY <1>4, <3>1, <3>2 DEF Range
  <2> QED BY <1>1, <2>1, <2>2
<1>6. Range(r) \subseteq Range(q)
  BY <1>1, <1>4 DEF Range
<1>7. ASSUME IsInjective(q) PROVE IsInjective(r) /\ q[k] \notin Range(r)
  <2> DEFINE at(m) == IF m < k THEN m ELSE m + 1
  <2>1. \A m \in 1..(Len(q) - 1) : at(m) \in 1..Len(q) /\ at(m) # k /\ r[m] = q[at(m)]
    BY <1>1, <1>4
  <2>2. \A m, n \in 1..(Len(q) - 1) : at(m) = at(n) => m = n
    BY <1>1
  <2>3. \A a, b \in 1..Len(q) : q[a] = q[b] => a = b
    BY <1>1, <1>7 DEF IsInjective
  <2> HIDE DEF at
  <2>4. IsInjective(r)      BY <1>4, <2>1, <2>2, <2>3 DEF IsInjective
  <2>5. q[k] \notin Range(r)  BY <1>4, <2>1, <2>3 DEF Range
  <2> QED BY <2>4, <2>5
<1> QED BY <1>4, <1>5, <1>6, <1>7 DEF r

(* An ordering of a finite set has exactly its elements, each once.         *)
LEMMA OrdersRange ==
  ASSUME NEW S, IsFiniteSet(S), NEW q \in SetToSeqs(S)
  PROVE  q \in Seq(S) /\ Range(q) = S /\ IsInjective(q)
<1> DEFINE n == Cardinality(S)
<1>1. n \in Nat  BY FS_CardinalityType
<1>2. q \in [1..n -> S] /\ IsInjective(q)
  BY DEF SetToSeqs, IsInjective
<1>3. q \in Injection(1..n, S)
  BY <1>2 DEF Injection
<1>4. Cardinality(1..n) = n
  BY <1>1, FS_Interval
<1>5. q \in Surjection(1..n, S)
  BY <1>3, <1>4, FS_Injection
<1>6. Range(q) = S
  BY <1>2, <1>5 DEF Surjection, Range
<1>7. q \in Seq(S)
  BY <1>1, <1>2, SeqDef
<1> QED BY <1>2, <1>6, <1>7

=============================================================================
