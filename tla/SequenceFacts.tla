---------------------------- MODULE SequenceFacts ---------------------------
(***************************************************************************)
(* Facts about queues and the sets of their elements that the proofs of    *)
(* several components need.                                                *)
(***************************************************************************)
EXTENDS Integers, Sequences, SequencesExt, FiniteSets, FiniteSetTheorems,
        WellFoundedInduction, TLAPS

(* Sequences and the sets of their elements.                                *)
LEMMA SetOfSeq ==
    ASSUME NEW S, NEW q \in Seq(S)
    PROVE  /\ ToSet(q) = {q[i] : i \in 1 .. Len(q)} /\ ToSet(q) \subseteq S
           /\ Len(q) \in Nat /\ (q = << >> <=> Len(q) = 0)
           /\ \A i \in 1 .. Len(q) : q[i] \in S
  BY DEF ToSet

(* The empty sequence has no element.                                       *)
LEMMA SetOfEmpty == ToSet(<< >>) = {} /\ Len(<< >>) = 0
  BY DEF ToSet

(* Append puts one element behind the others.                               *)
LEMMA SetOfAppend ==
    ASSUME NEW S, NEW q \in Seq(S), NEW x \in S
    PROVE  /\ Append(q, x) \in Seq(S) /\ Append(q, x) # << >>
           /\ Len(Append(q, x)) = Len(q) + 1
           /\ \A i \in 1 .. Len(q) : Append(q, x)[i] = q[i]
           /\ Append(q, x)[Len(q) + 1] = x
           /\ ToSet(Append(q, x)) = ToSet(q) \cup {x}
           /\ q # << >> => Head(Append(q, x)) = Head(q)
<1> DEFINE r == Append(q, x)
<1>1. /\ r \in Seq(S) /\ r # << >> /\ Len(r) = Len(q) + 1 /\ Len(q) \in Nat
      /\ \A i \in 1 .. Len(q) : r[i] = q[i]
      /\ r[Len(q) + 1] = x
  OBVIOUS
<1>4. q # << >> => Head(r) = Head(q)
  <2>1. q # << >> => Len(q) # 0
    OBVIOUS
  <2> HIDE DEF r
  <2>2. Len(q) # 0 => 1 \in 1 .. Len(q)
    BY <1>1
  <2> QED BY <1>1, <2>1, <2>2
<1> HIDE DEF r
<1>2. ToSet(q) = {q[i] : i \in 1 .. Len(q)} /\ ToSet(r) = {r[i] : i \in 1 .. Len(r)}
  BY <1>1, SetOfSeq
<1>3. ToSet(r) = ToSet(q) \cup {x}
  <2>1. 1 .. Len(r) = (1 .. Len(q)) \cup {Len(q) + 1}
    BY <1>1
  <2> QED BY <1>1, <1>2, <2>1
<1> QED BY <1>1, <1>3, <1>4 DEF r

(* Tail takes the first element away and leaves the others.                 *)
LEMMA SetOfTail ==
    ASSUME NEW S, NEW q \in Seq(S), q # << >>
    PROVE  /\ Tail(q) \in Seq(S) /\ Len(q) \in Nat \ {0}
           /\ Len(Tail(q)) = Len(q) - 1
           /\ \A i \in 1 .. Len(Tail(q)) : Tail(q)[i] = q[i + 1]
           /\ Head(q) = q[1] /\ Head(q) \in S
           /\ ToSet(q) = {Head(q)} \cup ToSet(Tail(q))
<1> DEFINE r == Tail(q)
<1>1. /\ r \in Seq(S) /\ Len(q) \in Nat \ {0} /\ Len(r) = Len(q) - 1
      /\ \A i \in 1 .. Len(r) : r[i] = q[i + 1]
      /\ Head(q) = q[1] /\ Head(q) \in S
  OBVIOUS
<1> HIDE DEF r
<1>2. ToSet(q) = {q[i] : i \in 1 .. Len(q)} /\ ToSet(r) = {r[i] : i \in 1 .. Len(r)}
  BY <1>1, SetOfSeq
<1>3. ToSet(q) = {Head(q)} \cup ToSet(r)
  <2>1. ASSUME NEW i \in 1 .. Len(q) PROVE q[i] \in {Head(q)} \cup ToSet(r)
    <3>1. i = 1 \/ (i - 1 \in 1 .. Len(r) /\ r[i - 1] = q[i])
      BY <1>1
    <3> QED BY <1>1, <1>2, <3>1
  <2>2. \A i \in 1 .. Len(r) : i + 1 \in 1 .. Len(q) /\ r[i] = q[i + 1]
    BY <1>1
  <2>3. 1 \in 1 .. Len(q)
    BY <1>1
  <2> QED BY <1>1, <1>2, <2>1, <2>2, <2>3
<1> QED BY <1>1, <1>3 DEF r

(* Queues without repetitions.                                              *)
Distinct(q) == \A j, k \in 1 .. Len(q) : q[j] = q[k] => j = k

(* What is appended must be new.                                            *)
LEMMA DistinctAppend ==
    ASSUME NEW S, NEW q \in Seq(S), NEW x \in S, Distinct(q), x \notin ToSet(q)
    PROVE  Distinct(Append(q, x))
<1> DEFINE r == Append(q, x)
<1>1. /\ Len(r) = Len(q) + 1 /\ Len(q) \in Nat /\ r[Len(q) + 1] = x
      /\ \A i \in 1 .. Len(q) : r[i] = q[i] /\ q[i] # x
  BY SetOfAppend, SetOfSeq
<1> HIDE DEF r
<1>2. \A i \in 1 .. Len(r) : i \in 1 .. Len(q) \/ i = Len(q) + 1
  BY <1>1
<1>3. Distinct(r)
  BY <1>1, <1>2 DEF Distinct
<1> QED BY <1>3 DEF r

(* What is taken is not in the rest.                                        *)
LEMMA DistinctTail ==
    ASSUME NEW S, NEW q \in Seq(S), q # << >>, Distinct(q)
    PROVE  Distinct(Tail(q)) /\ Head(q) \notin ToSet(Tail(q))
<1> DEFINE r == Tail(q)
<1>1. /\ r \in Seq(S) /\ Len(r) = Len(q) - 1 /\ Len(q) \in Nat \ {0} /\ Head(q) = q[1]
      /\ \A i \in 1 .. Len(r) : r[i] = q[i + 1]
  BY SetOfTail
<1>2. ToSet(r) = {r[i] : i \in 1 .. Len(r)}
  BY <1>1, SetOfSeq
<1> HIDE DEF r
<1>3. \A i \in 1 .. Len(r) : i + 1 \in 1 .. Len(q) /\ i + 1 # 1
  BY <1>1
<1>4. 1 \in 1 .. Len(q)
  BY <1>1
<1>5. \A i, j \in 1 .. Len(r) : i + 1 = j + 1 => i = j
  BY <1>1
<1>6. Distinct(r)
  BY <1>1, <1>3, <1>5 DEF Distinct
<1>7. q[1] \notin ToSet(r)
  BY <1>1, <1>2, <1>3, <1>4 DEF Distinct
<1> QED BY <1>1, <1>6, <1>7 DEF r

(* Two queues with nothing in common, one behind the other.                 *)
LEMMA DistinctConcat ==
    ASSUME NEW S, NEW p \in Seq(S), NEW q \in Seq(S), Distinct(p), Distinct(q),
           ToSet(p) \cap ToSet(q) = {}
    PROVE  /\ p \o q \in Seq(S) /\ Distinct(p \o q)
           /\ ToSet(p \o q) = ToSet(p) \cup ToSet(q) /\ Len(p \o q) = Len(p) + Len(q)
<1> DEFINE r == p \o q
<1>1. /\ r \in Seq(S) /\ Len(r) = Len(p) + Len(q) /\ Len(p) \in Nat /\ Len(q) \in Nat
      /\ \A i \in 1 .. Len(r) : r[i] = IF i <= Len(p) THEN p[i] ELSE q[i - Len(p)]
  OBVIOUS
<1> HIDE DEF r
<1>2. /\ \A x : x \in ToSet(p) <=> \E i \in 1 .. Len(p) : x = p[i]
      /\ \A x : x \in ToSet(q) <=> \E i \in 1 .. Len(q) : x = q[i]
      /\ \A x : x \in ToSet(r) <=> \E i \in 1 .. Len(r) : x = r[i]
  <2>1. \A x : x \in ToSet(p) <=> \E i \in 1 .. Len(p) : x = p[i]
    BY SetOfSeq
  <2>2. \A x : x \in ToSet(q) <=> \E i \in 1 .. Len(q) : x = q[i]
    BY SetOfSeq
  <2>3. \A x : x \in ToSet(r) <=> \E i \in 1 .. Len(r) : x = r[i]
    BY <1>1, SetOfSeq
  <2> QED BY <2>1, <2>2, <2>3
<1>3. ASSUME NEW i \in 1 .. Len(r)
      PROVE  \/ i \in 1 .. Len(p) /\ r[i] = p[i]
             \/ i - Len(p) \in 1 .. Len(q) /\ r[i] = q[i - Len(p)]
  BY <1>1
<1>4. \A i \in 1 .. Len(p) : i \in 1 .. Len(r) /\ r[i] = p[i]
  BY <1>1
<1>5. \A i \in 1 .. Len(q) : i + Len(p) \in 1 .. Len(r) /\ r[i + Len(p)] = q[i]
  BY <1>1
<1>6. ToSet(r) = ToSet(p) \cup ToSet(q)
  <2>1. ASSUME NEW x \in ToSet(r) PROVE x \in ToSet(p) \cup ToSet(q)
    <3>1. PICK i \in 1 .. Len(r) : x = r[i]
      BY <1>2
    <3> QED BY <1>2, <1>3, <3>1
  <2>2. ToSet(p) \subseteq ToSet(r) /\ ToSet(q) \subseteq ToSet(r)
    BY <1>2, <1>4, <1>5
  <2> QED BY <2>1, <2>2
<1>7. Distinct(r)
  <2> SUFFICES ASSUME NEW i \in 1 .. Len(r), NEW j \in 1 .. Len(r), r[i] = r[j] PROVE i = j
    BY DEF Distinct
  <2>1. CASE i \in 1 .. Len(p) /\ r[i] = p[i] /\ j \in 1 .. Len(p) /\ r[j] = p[j]
    BY <2>1 DEF Distinct
  <2>2. CASE /\ i - Len(p) \in 1 .. Len(q) /\ r[i] = q[i - Len(p)]
             /\ j - Len(p) \in 1 .. Len(q) /\ r[j] = q[j - Len(p)]
    <3>1. i - Len(p) = j - Len(p)
      BY <2>2 DEF Distinct
    <3> QED BY <1>1, <3>1
  <2>3. ~(r[i] \in ToSet(p) /\ r[i] \in ToSet(q))
    OBVIOUS
  <2> QED BY <1>2, <1>3, <2>1, <2>2, <2>3
<1> QED BY <1>1, <1>6, <1>7 DEF r

(* A queue without repetitions is as long as the set of its elements.       *)
LEMMA DistinctCount ==
    ASSUME NEW S, NEW q \in Seq(S), Distinct(q)
    PROVE  IsFiniteSet(ToSet(q)) /\ Cardinality(ToSet(q)) = Len(q)
<1>1. Len(q) \in Nat /\ ToSet(q) = {q[i] : i \in 1 .. Len(q)}
  BY SetOfSeq
<1>2. q \in Bijection(1 .. Len(q), ToSet(q))
  BY <1>1 DEF Distinct, Bijection, Injection, Surjection, IsInjective
<1>3. ExistsBijection(1 .. Len(q), ToSet(q))
  BY <1>2 DEF ExistsBijection
<1>4. IsFiniteSet(1 .. Len(q)) /\ Cardinality(1 .. Len(q)) = Len(q)
  BY <1>1, FS_Interval
<1> QED BY <1>3, <1>4, FS_Bijection

(* Sets that have nothing in common.                                        *)
LEMMA DisjointCount ==
    ASSUME NEW S, NEW T, IsFiniteSet(S), IsFiniteSet(T), S \cap T = {}
    PROVE  /\ IsFiniteSet(S \cup T) /\ Cardinality(S \cup T) = Cardinality(S) + Cardinality(T)
           /\ Cardinality(S) \in Nat /\ Cardinality(T) \in Nat
<1>1. Cardinality(S \cap T) = 0
  BY FS_EmptySet
<1>2. Cardinality(S) \in Nat /\ Cardinality(T) \in Nat
  BY FS_CardinalityType
<1>3. /\ IsFiniteSet(S \cup T)
      /\ Cardinality(S \cup T) = Cardinality(S) + Cardinality(T) - Cardinality(S \cap T)
  BY FS_Union
<1> QED BY <1>1, <1>2, <1>3

(* A nonempty set of natural numbers has a least element.                   *)
LEMMA LeastNatural ==
    ASSUME NEW S \in SUBSET Nat, S # {}
    PROVE  \E i \in S : \A j \in S : i <= j
<1>1. PICK i \in S : \A j \in S : ~(<<j, i>> \in OpToRel(<, Nat))
  BY NatLessThanWellFounded, WFMin
<1>2. \A j \in S : ~(j < i)
  BY <1>1 DEF OpToRel
<1> QED BY <1>2

(* The same for SequencesExt's word for it.                                 *)
LEMMA DistinctInjective ==
    ASSUME NEW S, NEW q \in Seq(S)
    PROVE  IsInjective(q) <=> Distinct(q)
BY DEF IsInjective, Distinct

(* A sequence that is the end of another, element by element.               *)
LEMMA SuffixOf ==
    ASSUME NEW S, NEW d \in Seq(S), NEW q \in Seq(S), Len(d) <= Len(q),
           \A k \in 1 .. Len(d) : d[k] = q[Len(q) - Len(d) + k]
    PROVE  IsSuffix(d, q)
<1> DEFINE m == Len(d)
           n == Len(q)
           rd == Reverse(d)
           rq == Reverse(q)
<1>1. m \in Nat /\ n \in Nat /\ m <= n
  OBVIOUS
<1>2. rd = [i \in 1 .. m |-> d[(m - i) + 1]] /\ rq = [i \in 1 .. n |-> q[(n - i) + 1]]
  BY DEF Reverse
<1>3. \A i \in 1 .. m : (m - i) + 1 \in 1 .. m /\ d[(m - i) + 1] = q[n - m + ((m - i) + 1)]
  BY <1>1
<1>4. \A i \in 1 .. m : n - m + ((m - i) + 1) = (n - i) + 1 /\ i \in 1 .. n
  BY <1>1
<1>5. \A i \in 1 .. n : q[(n - i) + 1] \in S
  BY <1>1
<1>6. \A i \in 1 .. m : d[(m - i) + 1] \in S
  BY <1>1
<1> HIDE DEF rd, rq, m, n
<1>7. \A i \in 1 .. m : rd[i] = rq[i]
  BY <1>2, <1>3, <1>4
<1>8. rd \in Seq(S) /\ rq \in Seq(S) /\ Len(rd) = m /\ Len(rq) = n
  BY <1>1, <1>2, <1>5, <1>6
<1>9. SubSeq(rd, 1, m) = [i \in 1 .. m |-> rd[i]] /\ SubSeq(rq, 1, m) = [i \in 1 .. m |-> rq[i]]
  BY <1>1, <1>8
<1>10. SubSeq(rd, 1, m) = SubSeq(rq, 1, m)
  BY <1>7, <1>9
<1>11. IsPrefix(rd, rq)
  BY <1>1, <1>8, <1>10 DEF IsPrefix
<1> QED BY <1>11 DEF IsSuffix, rd, rq
=============================================================================
