--------------------------- MODULE SequenceLemmas ---------------------------
(* Facts about the sequence operators the models use, for their proofs. *)
EXTENDS Integers, Sequences, SequencesExt, SequenceTheorems, FiniteSetTheorems,
        Sublists, TLAPS

\* No element occurs twice.
Distinct(s) == \A i, k \in DOMAIN s : s[i] = s[k] => i = k

\* Removing the only element of a list, as CancelUser does.
LEMMA RemoveOnly ==
  ASSUME NEW u
  PROVE  RemoveFirst(<<u>>, u) = <<>>
<1>1. \E i \in 1..Len(<<u>>) : <<u>>[i] = u
  OBVIOUS
<1>2. RemoveFirst(<<u>>, u) = RemoveAt(<<u>>, 1)
  <2>1. {i \in 1..Len(<<u>>) : <<u>>[i] = u} = {1}
    OBVIOUS
  <2>2. Min({1}) = 1
    BY DEF Min
  <2> QED BY <1>1, <2>1, <2>2 DEF RemoveFirst, SelectInSeq
<1>3. RemoveAt(<<u>>, 1) = <<>>
  BY DEF RemoveAt
<1> QED BY <1>2, <1>3

\* The elements of a sequence one element longer.
LEMMA ToSetAppend ==
  ASSUME NEW S, NEW s \in Seq(S), NEW e \in S
  PROVE  ToSet(Append(s, e)) = ToSet(s) \cup {e}
<1>1. DOMAIN Append(s, e) = DOMAIN s \cup {Len(s) + 1}
  OBVIOUS
<1>2. \A i \in DOMAIN s : Append(s, e)[i] = s[i]
  OBVIOUS
<1>3. Append(s, e)[Len(s) + 1] = e
  OBVIOUS
<1>4. Len(s) + 1 \notin DOMAIN s
  OBVIOUS
<1> QED BY <1>1, <1>2, <1>3, <1>4, Zenon DEF ToSet

\* It stays free of repetitions when the element is new.
LEMMA DistinctAppend ==
  ASSUME NEW S, NEW s \in Seq(S), NEW e \in S \ ToSet(s), Distinct(s)
  PROVE  Distinct(Append(s, e))
<1>1. \A i \in DOMAIN s : s[i] # e
  BY DEF ToSet
<1> QED BY <1>1 DEF Distinct

\* The elements of a sequence without its first one.
LEMMA ToSetTail ==
  ASSUME NEW S, NEW s \in Seq(S), s # <<>>
  PROVE  ToSet(s) = {Head(s)} \cup ToSet(Tail(s))
<1>1. /\ Len(s) \in Nat /\ Len(s) >= 1
      /\ DOMAIN s = 1..Len(s)
      /\ DOMAIN Tail(s) = 1..(Len(s) - 1)
      /\ \A i \in DOMAIN Tail(s) : Tail(s)[i] = s[i + 1]
      /\ Head(s) = s[1]
  OBVIOUS
<1>2. ASSUME NEW x \in ToSet(s) PROVE x \in {Head(s)} \cup ToSet(Tail(s))
  <2>1. PICK i \in 1..Len(s) : x = s[i]
    BY <1>1, <1>2 DEF ToSet
  <2>2. CASE i = 1
    BY <1>1, <2>1, <2>2
  <2>3. CASE i # 1
    <3>1. i - 1 \in DOMAIN Tail(s) /\ Tail(s)[i - 1] = s[i]
      BY <1>1, <2>3
    <3> QED BY <2>1, <3>1 DEF ToSet
  <2> QED BY <2>2, <2>3
<1>3. ASSUME NEW x \in ToSet(Tail(s)) PROVE x \in ToSet(s)
  <2>1. PICK i \in DOMAIN Tail(s) : x = Tail(s)[i]
    BY <1>3 DEF ToSet
  <2>2. i + 1 \in DOMAIN s /\ x = s[i + 1]
    BY <1>1, <2>1
  <2> QED BY <2>2 DEF ToSet
<1>4. Head(s) \in ToSet(s)
  BY <1>1 DEF ToSet
<1> QED BY <1>2, <1>3, <1>4

\* The first element does not come again in a sequence without repetitions.
LEMMA DistinctTail ==
  ASSUME NEW S, NEW s \in Seq(S), s # <<>>, Distinct(s)
  PROVE  Distinct(Tail(s)) /\ Head(s) \notin ToSet(Tail(s))
<1>1. /\ Len(s) \in Nat /\ Len(s) >= 1
      /\ DOMAIN s = 1..Len(s)
      /\ DOMAIN Tail(s) = 1..(Len(s) - 1)
      /\ \A i \in DOMAIN Tail(s) : Tail(s)[i] = s[i + 1]
      /\ Head(s) = s[1]
  OBVIOUS
<1>2. Distinct(Tail(s))
  BY <1>1 DEF Distinct
<1>3. ASSUME NEW i \in DOMAIN Tail(s) PROVE Tail(s)[i] # Head(s)
  <2>1. i + 1 \in DOMAIN s /\ 1 \in DOMAIN s /\ i + 1 # 1
    BY <1>1, <1>3
  <2> QED BY <1>1, <2>1 DEF Distinct
<1> QED BY <1>2, <1>3 DEF ToSet

\* The empty sequence.
LEMMA EmptyFacts == ToSet(<<>>) = {} /\ Distinct(<<>>)
BY DEF ToSet, Distinct

\* The rank of a position among the positions in I.
Rank(I, i) == Cardinality({j \in I : j <= i})

\* Ranks number the positions of I from 1 on, each differently ...
LEMMA RankRange ==
  ASSUME NEW I \in SUBSET Nat, IsFiniteSet(I), NEW i \in I
  PROVE  Rank(I, i) \in 1..Cardinality(I)
<1>1. {j \in I : j <= i} \in SUBSET I
  OBVIOUS
<1>2. IsFiniteSet({j \in I : j <= i}) /\ Rank(I, i) <= Cardinality(I)
  BY <1>1, FS_Subset DEF Rank
<1>3. {j \in I : j <= i} # {}
  OBVIOUS
<1>4. Rank(I, i) \in Nat /\ Rank(I, i) # 0
  BY <1>2, <1>3, FS_CardinalityType, FS_EmptySet DEF Rank
<1>5. Cardinality(I) \in Nat
  BY FS_CardinalityType
<1> QED
  BY <1>2, <1>4, <1>5

LEMMA RankInjective ==
  ASSUME NEW I \in SUBSET Nat, IsFiniteSet(I),
         NEW i \in I, NEW k \in I, Rank(I, i) = Rank(I, k)
  PROVE  i = k
<1>1. ASSUME NEW a \in I, NEW b \in I, a < b PROVE Rank(I, a) # Rank(I, b)
  <2>1. {j \in I : j <= a} \in SUBSET {j \in I : j <= b}
    <3>1. \A j \in I : j <= a => j <= b
      BY <1>1
    <3> QED
      BY <3>1
  <2>2. {j \in I : j <= a} # {j \in I : j <= b}
    BY <1>1
  <2>3. IsFiniteSet({j \in I : j <= b})
    <3>1. {j \in I : j <= b} \in SUBSET I
      OBVIOUS
    <3> QED
      BY <3>1, FS_Subset
  <2> QED
    BY <2>1, <2>2, <2>3, FS_Subset DEF Rank
<1>2. ~(i < k) /\ ~(k < i)
  BY <1>1
<1> QED
  BY <1>2

\* ... and without a gap.
LEMMA RankOnto ==
  ASSUME NEW I \in SUBSET Nat, IsFiniteSet(I)
  PROVE  \A k \in 1..Cardinality(I) : \E i \in I : Rank(I, i) = k
<1> DEFINE f == [i \in I |-> Rank(I, i)]
<1>1. \A i \in I : Rank(I, i) \in 1..Cardinality(I)
  BY RankRange
<1>2. \A i, k \in I : Rank(I, i) = Rank(I, k) => i = k
  BY RankInjective
<1>3. f \in Injection(I, 1..Cardinality(I))
  <2>1. \A i, k \in I : f[i] = f[k] => i = k
    BY <1>2
  <2>2. f \in [I -> 1..Cardinality(I)]
    BY <1>1
  <2> HIDE DEF f
  <2> QED
    BY <2>1, <2>2 DEF Injection, IsInjective
<1>4. IsFiniteSet(1..Cardinality(I)) /\ Cardinality(1..Cardinality(I)) = Cardinality(I)
  <2>1. Cardinality(I) \in Nat
    BY FS_CardinalityType
  <2> QED
    BY <2>1, FS_Interval
<1>5. f \in Surjection(I, 1..Cardinality(I))
  BY <1>3, <1>4, FS_Injection
<1> QED
  BY <1>5 DEF Surjection

\* A sublist is a sequence of the elements at the chosen positions, and free of
\* repetitions when the sequence is.
LEMMA SublistFacts ==
  ASSUME NEW S, NEW s \in Seq(S), NEW I \in SUBSET DOMAIN s
  PROVE  /\ Sublist(s, I) \in Seq(S)
         /\ ToSet(Sublist(s, I)) = {s[i] : i \in I}
         /\ Distinct(s) => Distinct(Sublist(s, I))
<1> DEFINE n == Cardinality(I)
           pos(k) == CHOOSE i \in I : Rank(I, i) = k
<1>1. DOMAIN s = 1..Len(s) /\ Len(s) \in Nat
  OBVIOUS
<1>2. I \in SUBSET Nat /\ IsFiniteSet(I) /\ n \in Nat
  <2>1. IsFiniteSet(DOMAIN s)
    BY <1>1, FS_Interval
  <2>2. IsFiniteSet(I)
    BY <2>1, FS_Subset
  <2> QED
    BY <1>1, <2>2, FS_CardinalityType
<1>3. ASSUME NEW k \in 1..n PROVE pos(k) \in I /\ Rank(I, pos(k)) = k
  BY <1>2, RankOnto
<1>4. Sublist(s, I) = [k \in 1..n |-> s[pos(k)]]
  BY DEF Sublist, Rank
<1> HIDE DEF pos
<1>5. Sublist(s, I) \in Seq(S)
  <2>1. \A k \in 1..n : s[pos(k)] \in S
    BY <1>3
  <2> QED
    BY <1>2, <1>4, <2>1
<1>6. ASSUME NEW i \in I PROVE \E k \in 1..n : pos(k) = i
  <2>1. Rank(I, i) \in 1..n
    BY <1>2, RankRange
  <2>2. pos(Rank(I, i)) \in I /\ Rank(I, pos(Rank(I, i))) = Rank(I, i)
    BY <1>3, <2>1
  <2>3. pos(Rank(I, i)) = i
    BY <1>2, <2>2, RankInjective
  <2> QED
    BY <2>1, <2>3
<1>7. ToSet(Sublist(s, I)) = {s[i] : i \in I}
  <2>1. ToSet(Sublist(s, I)) = {s[pos(k)] : k \in 1..n}
    BY <1>4 DEF ToSet
  <2> QED
    BY <1>3, <1>6, <2>1
<1>8. ASSUME Distinct(s) PROVE Distinct(Sublist(s, I))
  <2>1. ASSUME NEW k \in 1..n, NEW l \in 1..n, s[pos(k)] = s[pos(l)] PROVE k = l
    BY <1>3, <1>8, <2>1 DEF Distinct
  <2> QED
    BY <1>4, <2>1 DEF Distinct
<1> QED
  BY <1>5, <1>7, <1>8

\* A sequence has no more elements than positions.
LEMMA ElementsBound ==
  ASSUME NEW S, NEW s \in Seq(S)
  PROVE  IsFiniteSet(ToSet(s)) /\ Cardinality(ToSet(s)) <= Len(s)
<1>1. DOMAIN s = 1..Len(s) /\ Len(s) \in Nat
  OBVIOUS
<1>2. s \in Surjection(DOMAIN s, ToSet(s))
  BY DEF Surjection, ToSet
<1>3. IsFiniteSet(DOMAIN s) /\ Cardinality(DOMAIN s) = Len(s)
  BY <1>1, FS_Interval
<1> QED
  BY <1>2, <1>3, FS_Surjection

\* The first n elements of a sequence.
LEMMA PrefixFacts ==
  ASSUME NEW S, NEW s \in Seq(S), NEW n \in 0..Len(s)
  PROVE  /\ SubSeq(s, 1, n) \in Seq(S)
         /\ Len(SubSeq(s, 1, n)) = n
         /\ ToSet(SubSeq(s, 1, n)) \subseteq ToSet(s)
         /\ Distinct(s) => Distinct(SubSeq(s, 1, n))
<1>1. /\ SubSeq(s, 1, n) \in Seq(S)
      /\ Len(SubSeq(s, 1, n)) = n
      /\ DOMAIN SubSeq(s, 1, n) = 1..n
      /\ 1..n \subseteq DOMAIN s
      /\ \A i \in 1..n : SubSeq(s, 1, n)[i] = s[i]
  OBVIOUS
<1> QED
  BY <1>1 DEF ToSet, Distinct
=============================================================================
