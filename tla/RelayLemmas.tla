---------------------------- MODULE RelayLemmas ----------------------------
(***************************************************************************)
(* What the proofs about the two relays share: tokens decode to what was   *)
(* encoded, and where the buffers are in the relays' queues.               *)
(***************************************************************************)
EXTENDS Tokens, Integers, Sequences, FiniteSetTheorems, TLAPS

(***************************************************************************)
(* Tokens.                                                                 *)
(***************************************************************************)

\* Quotient and remainder of an index alone and of an index with one operation
\* bit above it.
LEMMA QuotientRemainder ==
  ASSUME NEW n \in Int, NEW b \in Int, 0 <= b, b < n
  PROVE  /\ b \div n = 0 /\ b % n = b
         /\ (n + b) \div n = 1 /\ (n + b) % n = b
<1>1. b \div n = 0 /\ b % n = b
  OBVIOUS
<1>2. (n + b) \div n = 1 /\ (n + b) % n = b
  OBVIOUS
<1> QED
  BY <1>1, <1>2

\* The range is a number: all that the proofs need of it.
LEMMA IndexRangeInt == IndexRange \in Int
BY DEF IndexRange

\* decode_token undoes encode_token for the operations the loops use and every
\* index below 2^16.
LEMMA TokenDecodes ==
  ASSUME NEW op \in {"recv", "send"}, NEW b \in 0..(IndexRange - 1)
  PROVE  DecodeOp(EncodeToken(op, b)) = op /\ DecodeIdx(EncodeToken(op, b)) = b
<1>1. OpBits["recv"] = 0 /\ OpBits["send"] = 1
  BY DEF OpBits
<1>2. IndexRange \in Int /\ b \in Int /\ 0 <= b /\ b < IndexRange
  BY IndexRangeInt
<1>3. /\ b \div IndexRange = 0 /\ b % IndexRange = b
      /\ (IndexRange + b) \div IndexRange = 1 /\ (IndexRange + b) % IndexRange = b
  BY <1>2, QuotientRemainder
<1>4. CASE op = "recv"
  <2>1. EncodeToken(op, b) = b
    BY <1>1, <1>2, <1>4 DEF EncodeToken
  <2> QED
    BY <1>3, <1>4, <2>1 DEF DecodeOp, DecodeIdx
<1>5. CASE op = "send"
  <2>1. EncodeToken(op, b) = IndexRange + b
    BY <1>1, <1>2, <1>5 DEF EncodeToken
  <2> QED
    BY <1>3, <1>5, <2>1 DEF DecodeOp, DecodeIdx
<1> QED
  BY <1>4, <1>5

(***************************************************************************)
(* Queues.                                                                 *)
(***************************************************************************)

\* Queue s has an element of T; it has at most one.
Has(s, T) == \E i \in DOMAIN s : s[i] \in T
One(s, T) == \A i, j \in DOMAIN s : s[i] \in T /\ s[j] \in T => i = j

\* The elements of a queue.
LEMMA Elements ==
  ASSUME NEW S, NEW s \in Seq(S)
  PROVE  /\ Len(s) \in Nat /\ DOMAIN s = 1..Len(s)
         /\ \A i \in DOMAIN s : s[i] \in S
OBVIOUS

\* The empty queue has nothing.
LEMMA HasEmpty == \A T : ~Has(<<>>, T) /\ One(<<>>, T)
BY DEF Has, One

\* What a queue has after an element was appended.
LEMMA HasAppend ==
  ASSUME NEW S, NEW s \in Seq(S), NEW x \in S
  PROVE  /\ Append(s, x) \in Seq(S) /\ Len(Append(s, x)) = Len(s) + 1
         /\ \A T : Has(Append(s, x), T) <=> Has(s, T) \/ x \in T
         /\ \A T : One(s, T) /\ ~(Has(s, T) /\ x \in T) => One(Append(s, x), T)
<1>1. /\ DOMAIN s = 1..Len(s) /\ DOMAIN Append(s, x) = 1..(Len(s) + 1)
      /\ \A i \in 1..Len(s) : Append(s, x)[i] = s[i]
      /\ Append(s, x)[Len(s) + 1] = x /\ Len(s) \in Nat
      /\ Append(s, x) \in Seq(S) /\ Len(Append(s, x)) = Len(s) + 1
  OBVIOUS
<1> DEFINE t == Append(s, x)
<1> HIDE DEF t
<1>2. /\ \A i \in 1..(Len(s) + 1) : i \in 1..Len(s) \/ i = Len(s) + 1
      /\ 1..Len(s) \subseteq 1..(Len(s) + 1) /\ Len(s) + 1 \in 1..(Len(s) + 1)
  BY <1>1
<1>3. ASSUME NEW T PROVE Has(t, T) <=> Has(s, T) \/ x \in T
  BY <1>1, <1>2 DEF Has, t
<1>4. ASSUME NEW T, One(s, T), ~(Has(s, T) /\ x \in T) PROVE One(t, T)
  BY <1>1, <1>2, <1>4 DEF Has, One, t
<1> QED
  BY <1>1, <1>3, <1>4 DEF t

\* What a queue has after its head was taken.
LEMMA HasTail ==
  ASSUME NEW S, NEW s \in Seq(S), s # <<>>
  PROVE  /\ Tail(s) \in Seq(S) /\ Len(Tail(s)) = Len(s) - 1 /\ Head(s) \in S
         /\ Head(s) = s[1] /\ 1 \in DOMAIN s /\ Len(s) > 0
         /\ \A T : Has(s, T) <=> Has(Tail(s), T) \/ Head(s) \in T
         /\ \A T : One(s, T) =>
               One(Tail(s), T) /\ ~(Has(Tail(s), T) /\ Head(s) \in T)
         /\ \A i \in DOMAIN Tail(s) : i + 1 \in DOMAIN s /\ Tail(s)[i] = s[i + 1]
<1>1. /\ DOMAIN s = 1..Len(s) /\ DOMAIN Tail(s) = 1..(Len(s) - 1)
      /\ \A i \in 1..(Len(s) - 1) : Tail(s)[i] = s[i + 1]
      /\ Head(s) = s[1] /\ Len(s) \in Nat /\ Len(s) > 0 /\ Head(s) \in S
      /\ Tail(s) \in Seq(S) /\ Len(Tail(s)) = Len(s) - 1
  OBVIOUS
<1> DEFINE t == Tail(s)
           h == Head(s)
<1> HIDE DEF t, h
<1>2. /\ \A i \in 1..Len(s) : i = 1 \/ i - 1 \in 1..(Len(s) - 1)
      /\ \A i \in 1..Len(s) : (i - 1) + 1 = i
      /\ \A i \in 1..(Len(s) - 1) : i + 1 \in 1..Len(s) /\ i + 1 # 1
      /\ \A i, j \in 1..(Len(s) - 1) : i + 1 = j + 1 => i = j
      /\ 1 \in 1..Len(s)
  BY <1>1
<1>3. ASSUME NEW T PROVE Has(s, T) <=> Has(t, T) \/ h \in T
  <2>1. Has(s, T) => Has(t, T) \/ h \in T
    <3> SUFFICES ASSUME NEW i \in 1..Len(s), s[i] \in T, i # 1 PROVE Has(t, T)
      BY <1>1 DEF Has, h
    <3>1. i - 1 \in 1..(Len(s) - 1) /\ t[i - 1] = s[i]
      BY <1>1, <1>2 DEF t
    <3> QED
      BY <1>1, <3>1 DEF Has, t
  <2>2. Has(t, T) => Has(s, T)
    BY <1>1, <1>2 DEF Has, t
  <2>3. h \in T => Has(s, T)
    BY <1>1, <1>2 DEF Has, h
  <2> QED
    BY <2>1, <2>2, <2>3
<1>4. ASSUME NEW T, One(s, T) PROVE One(t, T) /\ ~(Has(t, T) /\ h \in T)
  <2>1. One(t, T)
    BY <1>1, <1>2, <1>4 DEF One, t
  <2>2. ~(Has(t, T) /\ h \in T)
    BY <1>1, <1>2, <1>4 DEF One, Has, t, h
  <2> QED
    BY <2>1, <2>2
<1>5. \A i \in DOMAIN t : i + 1 \in DOMAIN s /\ t[i] = s[i + 1]
  BY <1>1, <1>2 DEF t
<1> QED
  BY <1>1, <1>2, <1>3, <1>4, <1>5 DEF t, h

(***************************************************************************)
(* Counting.                                                               *)
(***************************************************************************)

\* A queue whose elements carry different buffers has no more elements than the
\* pool has buffers, and fewer when a buffer is elsewhere.
LEMMA Fits ==
  ASSUME NEW n \in Nat, NEW N \in Nat, NEW f \in [1..n -> 0..(N - 1)],
         \A i, j \in 1..n : f[i] = f[j] => i = j
  PROVE  /\ n <= N
         /\ \A b \in 0..(N - 1) : (\A i \in 1..n : f[i] # b) => n < N
<1>1. ASSUME NEW a \in Nat PROVE IsFiniteSet(1..a) /\ Cardinality(1..a) = a
  BY FS_Interval
<1>2. IsFiniteSet(0..(N - 1)) /\ Cardinality(0..(N - 1)) = N
  BY FS_Interval
<1>3. n <= N
  <2>1. f \in Injection(1..n, 0..(N - 1))
    BY DEF Injection, IsInjective
  <2> QED
    BY <1>1, <1>2, <2>1, FS_Injection
<1>4. ASSUME NEW b \in 0..(N - 1), \A i \in 1..n : f[i] # b PROVE n < N
  <2>1. f \in Injection(1..n, (0..(N - 1)) \ {b})
    BY <1>4 DEF Injection, IsInjective
  <2>2. /\ IsFiniteSet((0..(N - 1)) \ {b})
        /\ Cardinality((0..(N - 1)) \ {b}) = N - 1
    BY <1>2, FS_RemoveElement
  <2>3. Cardinality(1..n) <= Cardinality((0..(N - 1)) \ {b})
    BY <2>1, <2>2, FS_Injection
  <2> QED
    BY <1>1, <2>2, <2>3
<1> QED
  BY <1>3, <1>4

\* A set of which any two elements are equal has one element or none.
LEMMA AtMostOne ==
  ASSUME NEW S, \A x, y \in S : x = y
  PROVE  Cardinality(S) = IF S = {} THEN 0 ELSE 1
<1>1. CASE S = {}
  BY <1>1, FS_EmptySet
<1>2. CASE S # {}
  <2>1. PICK x : S = {x}
    BY <1>2
  <2> QED
    BY <1>2, <2>1, FS_Singleton
<1> QED
  BY <1>1, <1>2
=============================================================================
