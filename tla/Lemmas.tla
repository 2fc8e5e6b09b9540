------------------------------- MODULE Lemmas -------------------------------
(***************************************************************************)
(* What the proofs about the schema module need of numbers, sequences and  *)
(* graphs: induction over an interval, what FlattenSeq makes of a sequence *)
(* of sequences, and the groups of tables that reach one another.          *)
(***************************************************************************)
EXTENDS Cycles, FiniteSetTheorems, WellFoundedInduction, TLAPS

-----------------------------------------------------------------------------
(* Numbers and finite sets.                                                *)

\* A set of numbers has a least one: the induction that is used here.
LEMMA LeastNumber ==
  ASSUME NEW S \in SUBSET Nat, S # {}
  PROVE  Min(S) \in S /\ \A m \in S : Min(S) <= m
<1> DEFINE Less == {ss \in Nat \X Nat : ss[1] < ss[2]}
<1>1. IsWellFoundedOn(Less, Nat)
  BY NatLessThanWellFounded, Zenon DEF OpToRel
<1>2. \E x \in S : \A y \in S : ~(<<y, x>> \in Less)
  BY <1>1, WFMin, Zenon
<1>3. \A x, y \in Nat : ~(<<y, x>> \in Less) => x <= y
  OBVIOUS
<1> HIDE DEF Less
<1>4. \E x \in S : \A y \in S : x <= y
  BY <1>2, <1>3
<1> QED BY <1>4 DEF Min

\* Induction up to n, on a set.
LEMMA UpTo ==
  ASSUME NEW n \in Nat, NEW G, n # 0 => 1 \in G,
         \A m \in 1..n : m \in G /\ m # n => m + 1 \in G
  PROVE  \A m \in 1..n : m \in G
<1> DEFINE bad == {m \in 1..n : m \notin G}
<1> SUFFICES ASSUME bad # {} PROVE FALSE
  OBVIOUS
<1>1. bad \in SUBSET Nat
  OBVIOUS
<1>2. Min(bad) \in bad /\ \A k \in bad : Min(bad) <= k
  BY <1>1, LeastNumber
<1>3. PICK m \in bad : \A k \in bad : m <= k
  BY <1>2
<1>4. m \in 1..n /\ m \notin G /\ m # 1
  OBVIOUS
<1>5. m - 1 \in 1..n /\ m - 1 # n /\ m - 1 + 1 = m
  BY <1>4
<1>6. m - 1 \in G
  <2>1. m - 1 \notin bad
    <3> HIDE DEF bad
    <3> QED BY <1>3, <1>4
  <2> QED BY <1>5, <2>1
<1> QED BY <1>4, <1>5, <1>6

\* A finite set with more than one member has two different ones.
LEMMA TwoMembers ==
  ASSUME NEW S, IsFiniteSet(S)
  PROVE  Cardinality(S) > 1 <=> \E x, y \in S : x # y
<1>1. Cardinality(S) \in Nat
  BY FS_CardinalityType
<1>2. ASSUME NEW x \in S, NEW y \in S, x # y PROVE Cardinality(S) > 1
  <2>1. {x, y} \subseteq S
    OBVIOUS
  <2>2. Cardinality({x, y}) = 2
    <3>1. IsFiniteSet({x}) /\ Cardinality({x}) = 1
      BY FS_Singleton
    <3>2. Cardinality({x} \cup {y}) = 2
      BY <1>2, <3>1, FS_AddElement
    <3>3. {x} \cup {y} = {x, y}
      OBVIOUS
    <3> QED BY <3>2, <3>3
  <2>3. Cardinality({x, y}) <= Cardinality(S)
    BY <2>1, FS_Subset
  <2> QED BY <1>1, <2>2, <2>3
<1>3. ASSUME \A x, y \in S : x = y PROVE ~(Cardinality(S) > 1)
  <2>1. CASE S = {}
    BY <2>1, FS_EmptySet
  <2>2. CASE S # {}
    <3>1. PICK x \in S : S = {x}
      BY <1>3, <2>2
    <3> QED BY <3>1, FS_Singleton
  <2> QED BY <2>1, <2>2
<1> QED BY <1>2, <1>3

-----------------------------------------------------------------------------
(* Sequences.                                                              *)

IsSequence(s) == s \in Seq(ToSet(s))

\* A sequence is a function on the numbers up to its length.
LEMMA SequenceShape ==
  ASSUME NEW s, IsSequence(s)
  PROVE  Len(s) \in Nat /\ DOMAIN s = 1..Len(s) /\ s = [k \in 1..Len(s) |-> s[k]]
  BY DEF IsSequence

\* A member of Seq(S) is a sequence of members of S.
LEMMA SequenceIn ==
  ASSUME NEW S, NEW s \in Seq(S)
  PROVE  IsSequence(s) /\ ToSet(s) \subseteq S
<1>1. s \in [1..Len(s) -> S] /\ Len(s) \in Nat
  OBVIOUS
<1>2. s \in [1..Len(s) -> ToSet(s)]
  BY <1>1 DEF ToSet
<1> QED BY <1>1, <1>2 DEF IsSequence, ToSet

\* A sequence whose members are in S is a member of Seq(S).
LEMMA SequenceWithin ==
  ASSUME NEW s, IsSequence(s), NEW S, ToSet(s) \subseteq S
  PROVE  s \in Seq(S)
<1>1. s \in [1..Len(s) -> ToSet(s)] /\ Len(s) \in Nat
  BY DEF IsSequence
<1>2. s \in [1..Len(s) -> S]
  BY <1>1
<1> QED BY <1>1, <1>2

\* A function on 1..n.
LEMMA MappedSequence ==
  ASSUME NEW n \in Nat, NEW s, s = [k \in 1..n |-> s[k]]
  PROVE  IsSequence(s) /\ Len(s) = n
<1>1. DOMAIN s = 1..n
  OBVIOUS
<1>2. s \in [1..n -> ToSet(s)]
  BY <1>1 DEF ToSet
<1>3. s \in Seq(ToSet(s))
  BY <1>2
<1> QED BY <1>1, <1>3 DEF IsSequence

\* Sequences of one member and of none.
LEMMA ShortSequences ==
  ASSUME NEW x
  PROVE  /\ IsSequence(<<x>>) /\ ToSet(<<x>>) = {x} /\ Len(<<x>>) = 1
         /\ IsSequence(<<>>) /\ ToSet(<<>>) = {} /\ Len(<<>>) = 0
<1>1. <<x>> \in Seq({x}) /\ DOMAIN <<x>> = 1..1 /\ Len(<<x>>) = 1 /\ <<x>>[1] = x
  OBVIOUS
<1>2. ToSet(<<x>>) = {x}
  BY <1>1 DEF ToSet
<1>3. <<>> \in Seq({}) /\ Len(<<>>) = 0 /\ DOMAIN <<>> = {}
  OBVIOUS
<1>4. ToSet(<<>>) = {}
  BY <1>3 DEF ToSet
<1> QED BY <1>1, <1>2, <1>3, <1>4 DEF IsSequence

\* What two sequences hold when joined, and where.
LEMMA Joined ==
  ASSUME NEW s, NEW t, IsSequence(s), IsSequence(t)
  PROVE  /\ IsSequence(s \o t) /\ ToSet(s \o t) = ToSet(s) \cup ToSet(t)
         /\ Len(s \o t) = Len(s) + Len(t)
         /\ \A i \in 1..Len(s) : (s \o t)[i] = s[i]
         /\ \A i \in (Len(s) + 1)..(Len(s) + Len(t)) : (s \o t)[i] = t[i - Len(s)]
<1> DEFINE S == ToSet(s) \cup ToSet(t)
<1>1. PICK m \in Nat : m = Len(s) /\ DOMAIN s = 1..m
  BY DEF IsSequence
<1>2. PICK n \in Nat : n = Len(t) /\ DOMAIN t = 1..n
  BY DEF IsSequence
<1>3. s \in Seq(S) /\ t \in Seq(S)
  BY SequenceWithin
<1> HIDE DEF S
<1>4. s \o t \in Seq(S) /\ Len(s \o t) = m + n
  BY <1>1, <1>2, <1>3
<1>5. \A i \in 1..m : (s \o t)[i] = s[i]
  BY <1>1, <1>3
<1>6. \A i \in (m + 1)..(m + n) : (s \o t)[i] = t[i - m]
  BY <1>1, <1>2, <1>3
<1>7. ASSUME NEW x \in ToSet(s) \cup ToSet(t) PROVE x \in ToSet(s \o t)
  <2>1. CASE x \in ToSet(s)
    <3>1. PICK i \in 1..m : x = s[i]
      BY <1>1, <2>1 DEF ToSet
    <3>2. i \in DOMAIN (s \o t)
      BY <1>4
    <3> QED BY <1>5, <3>1, <3>2 DEF ToSet
  <2>2. CASE x \in ToSet(t)
    <3>1. PICK i \in 1..n : x = t[i]
      BY <1>2, <2>2 DEF ToSet
    <3>2. PICK j \in (m + 1)..(m + n) : j - m = i
      <4>1. m + i \in (m + 1)..(m + n) /\ m + i - m = i
        OBVIOUS
      <4> QED BY <4>1
    <3>3. (s \o t)[j] = t[i]
      BY <1>6, <3>2
    <3>4. j \in DOMAIN (s \o t)
      BY <1>4, <3>2
    <3> QED BY <3>1, <3>3, <3>4 DEF ToSet
  <2> QED BY <1>7, <2>1, <2>2
<1>8. IsSequence(s \o t) /\ ToSet(s \o t) \subseteq S
  BY <1>4, SequenceIn
<1> QED BY <1>1, <1>2, <1>4, <1>5, <1>6, <1>7, <1>8 DEF S

\* Two sequences without repetitions and without a common member, joined.
LEMMA JoinedOnce ==
  ASSUME NEW s, NEW t, IsSequence(s), IsSequence(t),
         \A i, j \in DOMAIN s : s[i] = s[j] => i = j,
         \A i, j \in DOMAIN t : t[i] = t[j] => i = j,
         \A x \in ToSet(s) : x \notin ToSet(t)
  PROVE  \A i, j \in DOMAIN (s \o t) : (s \o t)[i] = (s \o t)[j] => i = j
<1>1. PICK m \in Nat : m = Len(s) /\ DOMAIN s = 1..m
  BY SequenceShape
<1>2. PICK n \in Nat : n = Len(t) /\ DOMAIN t = 1..n
  BY SequenceShape
<1>3. DOMAIN (s \o t) = 1..(m + n)
  BY <1>1, <1>2, Joined, SequenceShape
<1>4. \A i \in 1..m : (s \o t)[i] = s[i] /\ s[i] \in ToSet(s)
  BY <1>1, Joined DEF ToSet
<1>5. \A i \in (m + 1)..(m + n) : (s \o t)[i] = t[i - m] /\ i - m \in 1..n /\ t[i - m] \in ToSet(t)
  <2> SUFFICES ASSUME NEW i \in (m + 1)..(m + n)
               PROVE  (s \o t)[i] = t[i - m] /\ i - m \in 1..n /\ t[i - m] \in ToSet(t)
    OBVIOUS
  <2>1. i - m \in 1..n
    OBVIOUS
  <2> QED BY <1>1, <1>2, <2>1, Joined DEF ToSet
<1> SUFFICES ASSUME NEW i \in 1..(m + n), NEW j \in 1..(m + n), (s \o t)[i] = (s \o t)[j]
             PROVE  i = j
  BY <1>3
<1>6. (i \in 1..m \/ i \in (m + 1)..(m + n)) /\ (j \in 1..m \/ j \in (m + 1)..(m + n))
  OBVIOUS
<1>7. CASE i \in 1..m /\ j \in 1..m
  BY <1>1, <1>4, <1>7
<1>8. CASE i \in (m + 1)..(m + n) /\ j \in (m + 1)..(m + n)
  <2>1. t[i - m] = t[j - m] /\ i - m \in DOMAIN t /\ j - m \in DOMAIN t
    BY <1>2, <1>5, <1>8
  <2>2. i - m = j - m
    BY <2>1
  <2> QED BY <2>2
<1>9. CASE i \in 1..m /\ j \in (m + 1)..(m + n)
  BY <1>4, <1>5, <1>9
<1>10. CASE i \in (m + 1)..(m + n) /\ j \in 1..m
  BY <1>4, <1>5, <1>10
<1> QED BY <1>6, <1>7, <1>8, <1>9, <1>10

\* A function on the numbers up to n is a sequence.
LEMMA FunctionIsSequence ==
  ASSUME NEW S, NEW n \in Nat, NEW s \in [1..n -> S]
  PROVE  s \in Seq(S) /\ Len(s) = n
<1>1. s \in Seq(S)
  OBVIOUS
<1> QED BY <1>1

-----------------------------------------------------------------------------
(* FlattenSeq: the definition is recursive, so first that there is such a   *)
(* function.                                                               *)

\* FlattenSeq joins its sequences from the left, one by one.
LEMMA Flattening ==
  ASSUME NEW S, NEW seqs \in Seq(Seq(S)), Len(seqs) # 0
  PROVE  \E f \in [1..Len(seqs) -> Seq(S)] :
           /\ FlattenSeq(seqs) = f[Len(seqs)]
           /\ f[1] = seqs[1]
           /\ \A i \in 1..Len(seqs) : i # Len(seqs) => f[i + 1] = f[i] \o seqs[i + 1]
<1> DEFINE Eq(f, m) == f = [i \in 1..m |-> IF i = 1 THEN seqs[i] ELSE f[i - 1] \o seqs[i]]
<1>1. PICK n \in Nat \ {0} : n = Len(seqs)
  OBVIOUS
<1>s. \A i \in 1..n : seqs[i] \in Seq(S)
  BY <1>1
<1>2. \E f : Eq(f, n)
  <2> DEFINE G == {m \in 1..n : \E f : Eq(f, m)}
  <2>1. 1 \in G
    <3> DEFINE g == [i \in 1..1 |-> seqs[1]]
    <3>1. Eq(g, 1)
      OBVIOUS
    <3> HIDE DEF Eq
    <3> QED BY <3>1
  <2>2. ASSUME NEW m \in 1..n, m \in G, m # n PROVE m + 1 \in G
    <3>2. PICK f : Eq(f, m)
      BY <2>2
    <3> DEFINE g == [i \in 1..(m + 1) |-> IF i = m + 1 THEN f[m] \o seqs[m + 1] ELSE f[i]]
    <3>3. \A i \in 1..m : g[i] = f[i] /\ i \in 1..(m + 1) /\ i # m + 1
      OBVIOUS
    <3>4. Eq(g, m + 1)
      <4>1. ASSUME NEW i \in 1..(m + 1)
            PROVE  g[i] = IF i = 1 THEN seqs[i] ELSE g[i - 1] \o seqs[i]
        <5>1. CASE i = m + 1
          <6>1. g[m] = f[m] /\ i # 1 /\ i - 1 = m /\ m \in 1..m
            BY <3>3, <5>1
          <6>2. g[i] = f[m] \o seqs[m + 1]
            BY <5>1
          <6> HIDE DEF g
          <6> QED BY <5>1, <6>1, <6>2
        <5>2. CASE i # m + 1
          <6>1. i \in 1..m /\ (i # 1 => i - 1 \in 1..m)
            BY <5>2
          <6>2. f[i] = IF i = 1 THEN seqs[i] ELSE f[i - 1] \o seqs[i]
            BY <3>2, <6>1
          <6> HIDE DEF g
          <6> QED BY <3>3, <6>1, <6>2
        <5> QED BY <5>1, <5>2
      <4>2. g = [i \in 1..(m + 1) |-> g[i]]
        OBVIOUS
      <4> HIDE DEF g
      <4> QED BY <4>1, <4>2
    <3>5. m + 1 \in 1..n
      BY <2>2
    <3> HIDE DEF Eq, g
    <3> QED BY <3>4, <3>5
  <2>3. n \in Nat /\ n \in 1..n
    OBVIOUS
  <2>4. \A m \in 1..n : m \in G
    <3> HIDE DEF G
    <3> QED BY <2>1, <2>2, <2>3, UpTo
  <2> HIDE DEF Eq
  <2> QED BY <2>3, <2>4
<1> DEFINE flatten == CHOOSE f : Eq(f, n)
<1>3. Eq(flatten, n)
  <2> HIDE DEF Eq
  <2> QED BY <1>2
<1>4. FlattenSeq(seqs) = flatten[n]
  BY <1>1 DEF FlattenSeq
<1>5. PICK f : f = flatten /\ Eq(f, n)
  <2> HIDE DEF flatten, Eq
  <2> QED BY <1>3
<1> HIDE DEF flatten
<1>6. DOMAIN f = 1..n
  BY <1>5
<1>7. \A i \in 1..n : f[i] = IF i = 1 THEN seqs[i] ELSE f[i - 1] \o seqs[i]
  BY <1>5
<1> HIDE DEF Eq
<1>8. ASSUME NEW i \in 1..n, i # n PROVE f[i + 1] = f[i] \o seqs[i + 1]
  <2>1. PICK j \in 1..n : j = i + 1 /\ j # 1 /\ j - 1 = i
    BY <1>8
  <2>2. f[j] = f[j - 1] \o seqs[j]
    BY <1>7, <2>1
  <2> QED BY <2>1, <2>2
<1>9. f[1] = seqs[1]
  BY <1>7
<1>10. \A i \in 1..n : f[i] \in Seq(S)
  <2> DEFINE G == {i \in 1..n : f[i] \in Seq(S)}
  <2>1. 1 \in G
    BY <1>9, <1>s
  <2>2. ASSUME NEW m \in 1..n, m \in G, m # n PROVE m + 1 \in G
    <3>1. m + 1 \in 1..n
      BY <2>2
    <3>2. f[m] \in Seq(S) /\ seqs[m + 1] \in Seq(S)
      BY <1>s, <2>2, <3>1
    <3>3. f[m] \o seqs[m + 1] \in Seq(S)
      BY <3>2
    <3> QED BY <1>8, <2>2, <3>1, <3>3
  <2>3. \A m \in 1..n : m \in G
    <3> HIDE DEF G
    <3> QED BY <2>1, <2>2, UpTo
  <2> QED BY <2>3
<1>11. f \in [1..n -> Seq(S)]
  BY <1>5, <1>10 DEF Eq
<1> QED BY <1>1, <1>4, <1>5, <1>8, <1>9, <1>11

\* The sequences of the first i, joined, for each i.
LEMMA JoinedUpTo ==
  ASSUME NEW seqs, IsSequence(seqs), \A k \in DOMAIN seqs : IsSequence(seqs[k]),
         NEW n \in Nat \ {0}, n = Len(seqs)
  PROVE  \E f : /\ FlattenSeq(seqs) = f[n]
                /\ f[1] = seqs[1]
                /\ \A i \in 1..n : IsSequence(f[i])
                /\ \A i \in 1..n : i # n => f[i + 1] = f[i] \o seqs[i + 1]
<1> DEFINE S == UNION {ToSet(seqs[k]) : k \in DOMAIN seqs}
<1>1. DOMAIN seqs = 1..n /\ seqs = [k \in 1..n |-> seqs[k]]
  BY SequenceShape
<1>2. ASSUME NEW k \in 1..n PROVE seqs[k] \in Seq(S)
  <2>1. ToSet(seqs[k]) \subseteq S /\ IsSequence(seqs[k])
    BY <1>1
  <2> HIDE DEF S
  <2> QED BY <2>1, SequenceWithin
<1> HIDE DEF S
<1>3. seqs \in [1..n -> Seq(S)]
  BY <1>1, <1>2
<1>4. seqs \in Seq(Seq(S)) /\ Len(seqs) # 0
  BY <1>3
<1>5. PICK f \in [1..Len(seqs) -> Seq(S)] :
           /\ FlattenSeq(seqs) = f[Len(seqs)]
           /\ f[1] = seqs[1]
           /\ \A i \in 1..Len(seqs) : i # Len(seqs) => f[i + 1] = f[i] \o seqs[i + 1]
  BY <1>4, Flattening
<1>6. \A i \in 1..n : IsSequence(f[i])
  BY SequenceIn
<1> QED BY <1>5, <1>6

\* What FlattenSeq holds is what one of its sequences holds.
LEMMA FlattenedMembers ==
  ASSUME NEW seqs, IsSequence(seqs), \A k \in DOMAIN seqs : IsSequence(seqs[k])
  PROVE  /\ IsSequence(FlattenSeq(seqs))
         /\ \A x : x \in ToSet(FlattenSeq(seqs)) <=> \E k \in DOMAIN seqs : x \in ToSet(seqs[k])
<1>1. PICK n \in Nat : n = Len(seqs) /\ DOMAIN seqs = 1..n
  BY SequenceShape
<1>4. CASE n = 0
  <2>1. FlattenSeq(seqs) = seqs /\ DOMAIN seqs = {}
    BY <1>1, <1>4 DEF FlattenSeq
  <2> QED BY <2>1 DEF ToSet
<1>5. CASE n # 0
  <2>1. PICK f : /\ FlattenSeq(seqs) = f[n]
                 /\ f[1] = seqs[1]
                 /\ \A i \in 1..n : IsSequence(f[i])
                 /\ \A i \in 1..n : i # n => f[i + 1] = f[i] \o seqs[i + 1]
    <3>1. n \in Nat \ {0} /\ n = Len(seqs)
      BY <1>1, <1>5
    <3> QED BY <3>1, JoinedUpTo, Zenon
  <2> DEFINE G == {i \in 1..n : \A x : x \in ToSet(f[i]) <=> \E k \in 1..i : x \in ToSet(seqs[k])}
  <2>2. 1 \in G
    <3>1. \A k \in 1..1 : k = 1
      OBVIOUS
    <3> QED BY <1>5, <2>1, <3>1
  <2>3. ASSUME NEW m \in 1..n, m \in G, m # n PROVE m + 1 \in G
    <3>1. m + 1 \in 1..n
      BY <2>3
    <3>2. IsSequence(f[m]) /\ IsSequence(seqs[m + 1]) /\ f[m + 1] = f[m] \o seqs[m + 1]
      BY <1>1, <2>1, <2>3, <3>1
    <3>3. ToSet(f[m + 1]) = ToSet(f[m]) \cup ToSet(seqs[m + 1])
      BY <3>2, Joined
    <3>4. \A k : k \in 1..(m + 1) <=> k \in 1..m \/ k = m + 1
      OBVIOUS
    <3> QED BY <2>3, <3>1, <3>3, <3>4
  <2>4. n \in 1..n
    BY <1>5
  <2>5. \A m \in 1..n : m \in G
    <3> HIDE DEF G
    <3> QED BY <2>2, <2>3, UpTo
  <2> QED BY <1>1, <2>1, <2>4, <2>5
<1> QED BY <1>4, <1>5

\* What each sequence has once, and no two of them have, comes once.
LEMMA FlattenedOnce ==
  ASSUME NEW seqs, IsSequence(seqs), \A k \in DOMAIN seqs : IsSequence(seqs[k]),
         \A k \in DOMAIN seqs : \A i, j \in DOMAIN seqs[k] : seqs[k][i] = seqs[k][j] => i = j,
         \A k, l \in DOMAIN seqs : k # l => \A x \in ToSet(seqs[k]) : x \notin ToSet(seqs[l])
  PROVE  \A i, j \in DOMAIN FlattenSeq(seqs) : FlattenSeq(seqs)[i] = FlattenSeq(seqs)[j] => i = j
<1> DEFINE Once(s) == \A i, j \in DOMAIN s : s[i] = s[j] => i = j
<1>1. PICK n \in Nat : n = Len(seqs) /\ DOMAIN seqs = 1..n
  BY SequenceShape
<1>4. CASE n = 0
  <2>1. FlattenSeq(seqs) = seqs /\ DOMAIN seqs = {}
    BY <1>1, <1>4 DEF FlattenSeq
  <2> QED BY <2>1
<1>5. CASE n # 0
  <2>1. PICK f : /\ FlattenSeq(seqs) = f[n]
                 /\ f[1] = seqs[1]
                 /\ \A i \in 1..n : IsSequence(f[i])
                 /\ \A i \in 1..n : i # n => f[i + 1] = f[i] \o seqs[i + 1]
    <3>1. n \in Nat \ {0} /\ n = Len(seqs)
      BY <1>1, <1>5
    <3> QED BY <3>1, JoinedUpTo, Zenon
  <2>o. \A k \in 1..n : Once(seqs[k])
    BY <1>1
  <2> HIDE DEF Once
  <2> DEFINE G == {i \in 1..n : /\ Once(f[i])
                                /\ \A x \in ToSet(f[i]) : \E k \in 1..i : x \in ToSet(seqs[k])}
  <2>2. 1 \in G
    <3>1. Once(f[1])
      BY <1>5, <2>1, <2>o
    <3>2. \A x \in ToSet(f[1]) : \E k \in 1..1 : x \in ToSet(seqs[k])
      BY <2>1
    <3> QED BY <1>5, <3>1, <3>2
  <2>3. ASSUME NEW m \in 1..n, m \in G, m # n PROVE m + 1 \in G
    <3>1. m + 1 \in 1..n /\ m + 1 \in DOMAIN seqs
      BY <1>1, <2>3
    <3>2. PICK s, t : s = f[m] /\ t = seqs[m + 1]
      OBVIOUS
    <3>3. IsSequence(s) /\ IsSequence(t) /\ f[m + 1] = s \o t
      BY <1>1, <2>1, <2>3, <3>1, <3>2
    <3>4. Once(s) /\ Once(t)
      BY <2>3, <2>o, <3>1, <3>2
    <3>5. \A x \in ToSet(s) : \E k \in 1..m : x \in ToSet(seqs[k])
      BY <2>3, <3>2
    <3>6. ASSUME NEW x \in ToSet(s) PROVE x \notin ToSet(t)
      <4>1. PICK k \in 1..m : x \in ToSet(seqs[k])
        BY <3>5
      <4>2. k \in DOMAIN seqs /\ k # m + 1
        BY <1>1, <2>3, <4>1
      <4> QED BY <3>1, <3>2, <4>1, <4>2
    <3>7. \A x \in ToSet(s \o t) : \E k \in 1..(m + 1) : x \in ToSet(seqs[k])
      <4>1. \A x \in ToSet(s \o t) : x \in ToSet(s) \/ x \in ToSet(t)
        BY <3>3, Joined
      <4>2. m + 1 \in 1..(m + 1) /\ \A k \in 1..m : k \in 1..(m + 1)
        OBVIOUS
      <4> QED BY <3>2, <3>5, <4>1, <4>2
    <3>8. Once(s \o t)
      <4> USE DEF Once
      <4> QED BY <3>3, <3>4, <3>6, JoinedOnce
    <3> QED BY <3>1, <3>3, <3>7, <3>8
  <2>4. n \in 1..n
    BY <1>5
  <2>5. \A m \in 1..n : m \in G
    <3> HIDE DEF G
    <3> QED BY <2>2, <2>3, UpTo
  <2>6. Once(f[n])
    BY <2>4, <2>5
  <2> QED BY <2>1, <2>6 DEF Once
<1> QED BY <1>4, <1>5

\* iter().filter(): the items at the places K.
LEMMA KeptItems ==
  ASSUME NEW items, IsSequence(items), NEW K \in SUBSET DOMAIN items,
         NEW seqs, IsSequence(seqs), DOMAIN seqs = DOMAIN items,
         \A k \in DOMAIN items : seqs[k] = IF k \in K THEN <<items[k]>> ELSE <<>>
  PROVE  LET r == FlattenSeq(seqs) IN
         /\ IsSequence(r) /\ ToSet(r) = {items[k] : k \in K}
         /\ r = <<>> <=> K = {}
         /\ Len(r) > 1 <=> \E j, k \in K : j # k
<1> DEFINE r == FlattenSeq(seqs)
<1> SUFFICES /\ IsSequence(r) /\ ToSet(r) = {items[k] : k \in K}
             /\ r = <<>> <=> K = {}
             /\ Len(r) > 1 <=> \E j, k \in K : j # k
  OBVIOUS
<1>1. PICK n \in Nat : n = Len(items) /\ DOMAIN items = 1..n
  BY SequenceShape
<1>2. IsSequence(seqs) /\ Len(seqs) = n
  <2>1. Len(seqs) \in Nat /\ 1..Len(seqs) = 1..n
    BY <1>1, SequenceShape
  <2> QED BY <2>1
<1>3. ASSUME NEW k \in 1..n
      PROVE  /\ IsSequence(seqs[k])
             /\ k \in K => seqs[k] = <<items[k]>> /\ ToSet(seqs[k]) = {items[k]} /\ Len(seqs[k]) = 1
             /\ k \notin K => seqs[k] = <<>> /\ ToSet(seqs[k]) = {} /\ Len(seqs[k]) = 0
  <2>1. seqs[k] = IF k \in K THEN <<items[k]>> ELSE <<>>
    BY <1>1
  <2> QED BY <2>1, ShortSequences
<1>4. DOMAIN seqs = 1..n /\ r = FlattenSeq(seqs)
  BY <1>1
<1> HIDE DEF r
<1>5. IsSequence(r) /\ \A x : x \in ToSet(r) <=> \E k \in 1..n : x \in ToSet(seqs[k])
  BY <1>2, <1>3, <1>4, FlattenedMembers
<1>6. ToSet(r) = {items[k] : k \in K}
  <2>1. ASSUME NEW x PROVE x \in ToSet(r) <=> \E k \in K : x = items[k]
    <3>1. \A k \in 1..n : x \in ToSet(seqs[k]) <=> k \in K /\ x = items[k]
      BY <1>3
    <3>2. \A k \in K : k \in 1..n
      BY <1>1
    <3> QED BY <1>5, <3>1, <3>2
  <2> QED BY <2>1
<1>7. Len(r) \in Nat /\ (r = <<>> <=> Len(r) = 0)
  <2>1. PICK S : r \in Seq(S)
    BY <1>5 DEF IsSequence
  <2> QED BY <2>1
<1>8. CASE n = 0
  <2>1. r = seqs
    BY <1>2, <1>4, <1>8 DEF FlattenSeq
  <2>2. K = {} /\ Len(r) = 0
    BY <1>1, <1>2, <1>8, <2>1
  <2> QED BY <1>5, <1>6, <1>7, <2>2
<1>9. CASE n # 0
  <2>1. PICK f : /\ FlattenSeq(seqs) = f[n]
                 /\ f[1] = seqs[1]
                 /\ \A i \in 1..n : IsSequence(f[i])
                 /\ \A i \in 1..n : i # n => f[i + 1] = f[i] \o seqs[i + 1]
    <3>1. n \in Nat \ {0} /\ n = Len(seqs)
      BY <1>2, <1>9
    <3>2. \A k \in DOMAIN seqs : IsSequence(seqs[k])
      BY <1>3, <1>4
    <3> QED BY <1>2, <3>1, <3>2, JoinedUpTo, Zenon
  <2> DEFINE Some(i) == \E k \in K : k \in 1..i
             Two(i) == \E j, k \in K : j # k /\ j \in 1..i /\ k \in 1..i
             Counts(i) == (Len(f[i]) > 0 <=> Some(i)) /\ (Len(f[i]) > 1 <=> Two(i))
             G == {i \in 1..n : Counts(i)}
  <2>2. 1 \in G
    <3>1. \A k : k \in 1..1 <=> k = 1
      OBVIOUS
    <3>2. (Some(1) <=> 1 \in K) /\ ~Two(1)
      BY <3>1
    <3>3. 1 \in 1..n
      BY <1>9
    <3>4. Len(f[1]) = IF 1 \in K THEN 1 ELSE 0
      BY <1>3, <2>1, <3>3
    <3>5. Counts(1)
      <4> HIDE DEF Some, Two
      <4> QED BY <3>2, <3>4
    <3> HIDE DEF Counts
    <3> QED BY <3>3, <3>5
  <2>3. ASSUME NEW m \in 1..n, m \in G, m # n PROVE m + 1 \in G
    <3>1. m + 1 \in 1..n
      BY <2>3
    <3>2. PICK l \in Nat : l = Len(f[m])
      BY <2>1, SequenceShape
    <3>3. Len(f[m + 1]) = l + (IF m + 1 \in K THEN 1 ELSE 0)
      <4>0. IsSequence(f[m]) /\ IsSequence(seqs[m + 1]) /\ f[m + 1] = f[m] \o seqs[m + 1]
        BY <1>3, <2>1, <2>3, <3>1
      <4>1. Len(f[m + 1]) = Len(f[m]) + Len(seqs[m + 1])
        BY <4>0, Joined
      <4>2. Len(seqs[m + 1]) = IF m + 1 \in K THEN 1 ELSE 0
        BY <1>3, <3>1
      <4> QED BY <3>2, <4>1, <4>2
    <3>4. \A k : k \in 1..(m + 1) <=> k \in 1..m \/ k = m + 1
      OBVIOUS
    <3>5. m + 1 \notin 1..m
      OBVIOUS
    <3>6. (l > 0 <=> Some(m)) /\ (l > 1 <=> Two(m))
      BY <2>3, <3>2
    <3>7. m + 1 \in K => Some(m + 1) /\ (Two(m + 1) <=> Some(m))
      BY <3>4, <3>5
    <3>8. m + 1 \notin K => (Some(m + 1) <=> Some(m)) /\ (Two(m + 1) <=> Two(m))
      BY <3>4, <3>5
    <3>9. Counts(m + 1)
      <4> HIDE DEF Some, Two
      <4>1. CASE m + 1 \in K
        <5>1. Len(f[m + 1]) = l + 1
          BY <3>3, <4>1
        <5> QED BY <3>2, <3>6, <3>7, <4>1, <5>1
      <4>2. CASE m + 1 \notin K
        <5>1. Len(f[m + 1]) = l
          BY <3>2, <3>3, <4>2
        <5> QED BY <3>2, <3>6, <3>8, <4>2, <5>1
      <4> QED BY <4>1, <4>2
    <3> HIDE DEF Counts
    <3> QED BY <3>1, <3>9
  <2>4. n \in 1..n /\ \A k \in K : k \in 1..n
    BY <1>1, <1>9
  <2>5. \A m \in 1..n : m \in G
    <3> HIDE DEF G
    <3> QED BY <2>2, <2>3, UpTo
  <2>6. (Len(r) > 0 <=> Some(n)) /\ (Len(r) > 1 <=> Two(n))
    <3>1. Counts(n)
      <4> HIDE DEF Counts
      <4> QED BY <2>4, <2>5
    <3> HIDE DEF Some, Two
    <3> QED BY <1>4, <2>1, <3>1
  <2>7. Len(r) > 0 <=> K # {}
    BY <2>4, <2>6
  <2>8. Len(r) > 1 <=> \E j, k \in K : j # k
    BY <2>4, <2>6
  <2>9. r = <<>> <=> K = {}
    BY <1>7, <2>7
  <2> QED BY <1>5, <1>6, <2>8, <2>9
<1> QED BY <1>8, <1>9

-----------------------------------------------------------------------------
(* Reachability and groups.                                                *)

\* Every table reaches itself.
LEMMA ReachesItself ==
  ASSUME NEW graph, NEW x
  PROVE  Reaches(x, x, graph)
  BY DEF Reaches

\* What a reached table reaches is reached.
LEMMA ReachesOn ==
  ASSUME NEW graph, NEW x, NEW y, NEW z, Reaches(x, y, graph), Reaches(y, z, graph)
  PROVE  Reaches(x, z, graph)
  BY DEF Reaches

\* A table reaches what it refers to.
LEMMA ReachesNeighbour ==
  ASSUME NEW graph, NEW x, NEW y \in graph[x]
  PROVE  Reaches(x, y, graph)
  BY DEF Reaches, Closed

\* Nothing leaves a closed set.
LEMMA ReachesInside ==
  ASSUME NEW graph, NEW S \in SUBSET DOMAIN graph, Closed(S, graph), NEW x \in S, NEW y,
         Reaches(x, y, graph)
  PROVE  y \in S
  BY DEF Reaches

\* A table that reaches another one, and is reached by it, refers to a third
\* (or to that one) of which the same is true.
LEMMA GroupStepsInside ==
  ASSUME NEW graph, NEW x \in DOMAIN graph, NEW y \in DOMAIN graph, x # y,
         Reaches(x, y, graph), Reaches(y, x, graph),
         \A t \in DOMAIN graph : graph[t] \subseteq DOMAIN graph
  PROVE  \E z \in graph[x] : z # x /\ z \in Group(x, graph)
<1> SUFFICES ASSUME \A z \in graph[x] : z = x \/ z \notin Group(x, graph)
             PROVE  FALSE
  OBVIOUS
<1> DEFINE S == {x} \cup {v \in DOMAIN graph : ~Reaches(v, x, graph)}
<1>1. \A z \in graph[x] : z \in S
  BY ReachesNeighbour DEF Group
<1>2. \A v \in DOMAIN graph : ~Reaches(v, x, graph) => \A u \in graph[v] : u \in S
  BY ReachesNeighbour, ReachesOn
<1>3. Closed(S, graph)
  BY <1>1, <1>2 DEF Closed
<1>4. y \in S
  BY <1>3, ReachesInside
<1> QED BY <1>4

-----------------------------------------------------------------------------
(* Sorting: groups that share no table have a first table each, and a      *)
(* group's place in the order is the number of those before it.            *)

\* Disjoint groups can be put in the order of their first tables.
LEMMA GroupsAreSorted ==
  ASSUME NEW groups, IsFiniteSet(groups), \A C \in groups : C # {} /\ C \subseteq Nat,
         \A C, D \in groups : C \cap D # {} => C = D
  PROVE  LET s == InSchemaOrder(groups) IN
         /\ s \in SetToSeqs(groups)
         /\ s = [k \in DOMAIN s |-> s[k]]
         /\ \A k \in DOMAIN s : s[k] \in groups
         /\ \A C \in groups : \E k \in DOMAIN s : s[k] = C
<1> DEFINE N == Cardinality(groups)
           first == [C \in groups |-> Min(C)]
           earlier == [C \in groups |-> {D \in groups : first[D] < first[C]}]
           rank == [C \in groups |-> Cardinality(earlier[C]) + 1]
           Sorted(s) == \A j, k \in DOMAIN s : j < k => Min(s[j]) < Min(s[k])
<1>1. N \in Nat /\ IsFiniteSet(1..N) /\ Cardinality(1..N) = N
  <2>1. N \in Nat
    BY FS_CardinalityType
  <2> HIDE DEF N
  <2>2. IsFiniteSet(1..N) /\ Cardinality(1..N) = IF 1 > N THEN 0 ELSE N - 1 + 1
    BY <2>1, FS_Interval
  <2> QED BY <2>1, <2>2
<1>2. \A C \in groups : first[C] \in C /\ first[C] \in Nat
  BY LeastNumber
<1>3. \A C, D \in groups : first[C] = first[D] => C = D
  <2> HIDE DEF first
  <2> QED BY <1>2
<1> HIDE DEF first
<1>4. \A C \in groups : /\ earlier[C] \subseteq groups /\ C \notin earlier[C]
                        /\ IsFiniteSet(earlier[C]) /\ Cardinality(earlier[C]) \in Nat
  BY <1>2, FS_Subset, FS_CardinalityType
<1>5. \A C, D \in groups : first[C] < first[D] => Cardinality(earlier[C]) < Cardinality(earlier[D])
  <2> SUFFICES ASSUME NEW C \in groups, NEW D \in groups, first[C] < first[D]
               PROVE  Cardinality(earlier[C]) < Cardinality(earlier[D])
    OBVIOUS
  <2>1. earlier[C] \subseteq earlier[D] /\ C \in earlier[D]
    BY <1>2
  <2> HIDE DEF earlier
  <2>2. earlier[C] # earlier[D]
    BY <1>4, <2>1
  <2> DEFINE c == Cardinality(earlier[C])
             e == Cardinality(earlier[D])
  <2>3. c <= e /\ c # e
    BY <1>4, <2>1, <2>2, FS_Subset
  <2>4. c \in Nat /\ e \in Nat
    BY <1>4
  <2> HIDE DEF c, e
  <2>5. c < e
    BY <2>3, <2>4
  <2> QED BY <2>5 DEF c, e
<1>6. \A C \in groups : rank[C] \in 1..N
  <2> SUFFICES ASSUME NEW C \in groups PROVE rank[C] \in 1..N
    OBVIOUS
  <2> DEFINE c == Cardinality(earlier[C])
  <2>1. c <= N /\ c # N
    BY <1>4, FS_Subset
  <2>2. rank[C] = c + 1 /\ c \in Nat
    BY <1>4
  <2> HIDE DEF c, N, rank
  <2> QED BY <1>1, <2>1, <2>2
<1>7. \A C, D \in groups : first[C] < first[D] => rank[C] < rank[D]
  <2> SUFFICES ASSUME NEW C \in groups, NEW D \in groups, first[C] < first[D]
               PROVE  rank[C] < rank[D]
    OBVIOUS
  <2> DEFINE c == Cardinality(earlier[C])
             e == Cardinality(earlier[D])
  <2>1. rank[C] = c + 1 /\ rank[D] = e + 1 /\ c < e /\ c \in Nat /\ e \in Nat
    BY <1>4, <1>5
  <2> HIDE DEF c, e, rank
  <2> QED BY <2>1
<1> HIDE DEF earlier
<1>8. rank \in [groups -> 1..N]
  BY <1>6
<1> HIDE DEF rank, N
<1>9. \A C, D \in groups : rank[C] \in Nat /\ (C # D => rank[C] # rank[D])
  <2> SUFFICES ASSUME NEW C \in groups, NEW D \in groups
               PROVE  rank[C] \in Nat /\ (C # D => rank[C] # rank[D])
    OBVIOUS
  <2>1. rank[C] \in Nat /\ rank[D] \in Nat
    BY <1>1, <1>6
  <2>2. C # D => first[C] < first[D] \/ first[D] < first[C]
    BY <1>2, <1>3
  <2> QED BY <1>7, <2>1, <2>2
<1>10. rank \in Surjection(groups, 1..N)
  <2>1. rank \in Injection(groups, 1..N)
    BY <1>8, <1>9 DEF Injection, IsInjective
  <2> QED BY <1>1, <2>1, FS_Injection DEF N
<1>11. \A i \in 1..N : \E C \in groups : rank[C] = i
  BY <1>10 DEF Surjection
<1> DEFINE sorted == [i \in 1..N |-> CHOOSE C \in groups : rank[C] = i]
<1>12. \A i \in 1..N : sorted[i] \in groups /\ rank[sorted[i]] = i
  BY <1>11
<1>13. sorted \in [1..N -> groups]
  BY <1>12
<1> HIDE DEF sorted
<1>14. sorted \in SetToSeqs(groups)
  BY <1>12, <1>13 DEF SetToSeqs, N
<1>15. Sorted(sorted)
  <2> SUFFICES ASSUME NEW j \in 1..N, NEW k \in 1..N, j < k
               PROVE  first[sorted[j]] < first[sorted[k]]
    BY <1>12, <1>13 DEF first
  <2>1. sorted[j] \in groups /\ sorted[k] \in groups /\ rank[sorted[j]] < rank[sorted[k]]
    BY <1>12
  <2>2. sorted[j] # sorted[k]
    BY <1>9, <2>1
  <2>3. first[sorted[j]] < first[sorted[k]] \/ first[sorted[k]] < first[sorted[j]]
    BY <1>2, <1>3, <2>1, <2>2
  <2> QED BY <1>7, <1>9, <2>1, <2>3
<1> DEFINE s == InSchemaOrder(groups)
<1>16. s \in SetToSeqs(groups)
  BY <1>14, <1>15 DEF InSchemaOrder
<1> HIDE DEF s
<1>17. s \in [1..N -> groups] /\ \A i, j \in 1..N : i # j => s[i] # s[j]
  BY <1>16 DEF SetToSeqs, N
<1>18. s \in Surjection(1..N, groups)
  <2>1. s \in Injection(1..N, groups)
    BY <1>17 DEF Injection, IsInjective
  <2> QED BY <1>1, <2>1, FS_Injection DEF N
<1>19. \A C \in groups : \E k \in 1..N : s[k] = C
  BY <1>18 DEF Surjection
<1>20. /\ s \in SetToSeqs(groups) /\ s = [k \in DOMAIN s |-> s[k]]
       /\ \A k \in DOMAIN s : s[k] \in groups
       /\ \A C \in groups : \E k \in DOMAIN s : s[k] = C
  BY <1>16, <1>17, <1>19
<1> QED BY <1>20 DEF s

-----------------------------------------------------------------------------
(* The groups of a graph.                                                  *)

\* Every table of a group has that group.
LEMMA GroupOfMember ==
  ASSUME NEW graph, NEW x \in DOMAIN graph, NEW y \in Group(x, graph)
  PROVE  Group(y, graph) = Group(x, graph)
  BY ReachesOn DEF Group

\* A group is a finite set of two tables or more.
LEMMA MutualGroupShape ==
  ASSUME NEW n \in Nat, NEW graph, DOMAIN graph = 1..n, NEW C \in MutualGroups(graph)
  PROVE  /\ C # {} /\ C \subseteq 1..n /\ IsFiniteSet(C) /\ Cardinality(C) > 1
         /\ \A x \in C : C = Group(x, graph)
<1>1. PICK x \in 1..n : C = Group(x, graph) /\ Cardinality(C) > 1
  BY DEF MutualGroups
<1>2. C \subseteq 1..n /\ x \in C
  BY <1>1, ReachesItself DEF Group
<1>3. IsFiniteSet(C)
  <2>1. IsFiniteSet(1..n)
    BY FS_Interval
  <2> QED BY <1>2, <2>1, FS_Subset
<1> QED BY <1>1, <1>2, <1>3, GroupOfMember

\* The groups of a graph, in the order of their first tables.
LEMMA MutualGroupsSorted ==
  ASSUME NEW n \in Nat, NEW graph, DOMAIN graph = 1..n
  PROVE  LET s == InSchemaOrder(MutualGroups(graph)) IN
         /\ IsSequence(s)
         /\ s = [k \in DOMAIN s |-> s[k]]
         /\ \A k \in DOMAIN s : s[k] \in MutualGroups(graph)
         /\ \A C \in MutualGroups(graph) : \E k \in DOMAIN s : s[k] = C
<1> DEFINE groups == MutualGroups(graph)
<1>1. 1..n \subseteq Nat /\ IsFiniteSet(1..n)
  BY FS_Interval
<1>2. \A C \in groups : C # {} /\ C \subseteq 1..n /\ \A x \in C : C = Group(x, graph)
  BY MutualGroupShape
<1> HIDE DEF groups
<1>3. IsFiniteSet(groups)
  <2>1. IsFiniteSet(SUBSET (1..n))
    BY <1>1, FS_SUBSET
  <2>2. groups \in SUBSET SUBSET (1..n)
    BY <1>2
  <2> QED BY <2>1, <2>2, FS_Subset
<1>4. \A C \in groups : C # {} /\ C \subseteq Nat
  BY <1>1, <1>2
<1>5. \A C, D \in groups : C \cap D # {} => C = D
  BY <1>2
<1> DEFINE s == InSchemaOrder(groups)
<1>6. /\ s \in SetToSeqs(groups)
      /\ s = [k \in DOMAIN s |-> s[k]]
      /\ \A k \in DOMAIN s : s[k] \in groups
      /\ \A C \in groups : \E k \in DOMAIN s : s[k] = C
  BY <1>3, <1>4, <1>5, GroupsAreSorted
<1> HIDE DEF s
<1>7. Cardinality(groups) \in Nat
  BY <1>3, FS_CardinalityType
<1>8. s \in [1..Cardinality(groups) -> groups]
  BY <1>6 DEF SetToSeqs
<1>9. IsSequence(s)
  BY <1>7, <1>8, FunctionIsSequence, SequenceIn
<1> QED BY <1>6, <1>9 DEF groups, s

\* Tables that all wait for another one of them hold a group: the table with
\* the fewest to reach is reached back by the one it waits for.
LEMMA StuckHasGroup ==
  ASSUME NEW n \in Nat, NEW graph, DOMAIN graph = 1..n, \A t \in 1..n : graph[t] \subseteq 1..n,
         NEW S \in SUBSET (1..n), Stuck(S, graph)
  PROVE  \E C \in MutualGroups(graph) : C \cap S # {}
<1> DEFINE From(x) == {y \in 1..n : Reaches(x, y, graph)}
           sizes == {Cardinality(From(x)) : x \in S}
<1>1. IsFiniteSet(1..n)
  BY FS_Interval
<1>2. ASSUME NEW x PROVE IsFiniteSet(From(x)) /\ Cardinality(From(x)) \in Nat
  <2>1. From(x) \subseteq 1..n
    OBVIOUS
  <2> HIDE DEF From
  <2> QED BY <1>1, <2>1, FS_Subset, FS_CardinalityType
<1>3. PICK x \in S : \A y \in S : Cardinality(From(x)) <= Cardinality(From(y))
  <2>1. sizes \in SUBSET Nat /\ sizes # {}
    <3> HIDE DEF From
    <3> QED BY <1>2 DEF Stuck
  <2>2. Min(sizes) \in sizes /\ \A m \in sizes : Min(sizes) <= m
    <3> HIDE DEF sizes
    <3> QED BY <2>1, LeastNumber
  <2> HIDE DEF From
  <2>3. PICK x \in S : Min(sizes) = Cardinality(From(x))
    BY <2>2
  <2>4. \A y \in S : Cardinality(From(y)) \in sizes
    OBVIOUS
  <2> HIDE DEF sizes
  <2> QED BY <2>2, <2>3, <2>4
<1>4. PICK y \in graph[x] : y \in S /\ y # x
  BY DEF Stuck
<1>5. x \in 1..n /\ y \in 1..n
  BY <1>4
<1>6. Reaches(x, y, graph)
  BY <1>4, ReachesNeighbour
<1>7. From(y) \subseteq From(x)
  BY <1>6, ReachesOn
<1>8. From(y) = From(x)
  <2> HIDE DEF From
  <2> QED BY <1>2, <1>3, <1>4, <1>7, FS_Subset
<1>9. Reaches(y, x, graph)
  <2>1. x \in From(x)
    BY <1>5, ReachesItself
  <2> QED BY <1>8, <2>1
<1> DEFINE C == Group(x, graph)
<1>10. x \in C /\ y \in C /\ C \subseteq 1..n
  BY <1>5, <1>6, <1>9, ReachesItself DEF Group
<1>11. Cardinality(C) > 1
  <2>1. IsFiniteSet(C)
    BY <1>1, <1>10, FS_Subset
  <2> HIDE DEF C
  <2> QED BY <1>4, <1>10, <2>1, TwoMembers
<1>12. C \in MutualGroups(graph)
  BY <1>5, <1>11 DEF MutualGroups
<1> QED BY <1>10, <1>12
=============================================================================
