-------------------------- MODULE SubsequenceFacts --------------------------
(***************************************************************************)
(* What other proofs need of Subsequences, and of FlattenSeq of the        *)
(* community modules.                                                      *)
(***************************************************************************)
EXTENDS Subsequences, SequencesExt, FunctionTheorems, FiniteSetTheorems,
        NaturalsInduction, WellFoundedInduction, TLAPS

(* A set of natural numbers has a least one.                               *)
LEMMA LeastElement ==
    ASSUME NEW T, T \subseteq Nat, T # {}
    PROVE  \E x \in T : \A y \in T : x <= y
  <1>1. PICK x \in T : \A y \in T : <<y, x>> \notin OpToRel(<, Nat)
    BY NatLessThanWellFounded, WFMin, Zenon
  <1>2. ASSUME NEW y \in T
        PROVE  x <= y
    <2> DEFINE p == <<y, x>>
    <2>1. y \in Nat /\ x \in Nat /\ p = <<y, x>>
      OBVIOUS
    <2>2. y < x => p \in Nat \X Nat /\ p[1] < p[2]
      BY <2>1
    <2> HIDE DEF p
    <2>3. y < x => p \in OpToRel(<, Nat)
      BY <2>2 DEF OpToRel
    <2>4. ~(y < x)
      BY <1>1, <2>1, <2>3, Zenon
    <2> QED BY <2>1, <2>4
  <1> QED BY <1>2

(* Induction over the numbers from m to n, for a set.  It follows from the *)
(* least counterexample, and can be cited where the rule of the library,   *)
(* which is about an operator, cannot.                                     *)
LEMMA IntervalInduction ==
    ASSUME NEW S, NEW m \in Nat, NEW n \in Nat, m \in S,
           \A i \in m..(n - 1) : i \in S => i + 1 \in S
    PROVE  m..n \subseteq S
  <1> DEFINE T == {i \in m..n : i \notin S}
  <1> SUFFICES ASSUME T # {} PROVE FALSE
    OBVIOUS
  <1>1. T \subseteq Nat
    OBVIOUS
  <1> HIDE DEF T
  <1>2. PICK x \in T : \A y \in T : x <= y
    BY <1>1, LeastElement
  <1>3. x \in m..n /\ x \notin S /\ x # m
    BY DEF T
  <1>4. x - 1 \in m..(n - 1) /\ (x - 1) + 1 = x
    BY <1>3
  <1>5. x - 1 \notin S
    BY <1>3, <1>4
  <1>6. x - 1 \in T /\ ~(x <= x - 1)
    BY <1>3, <1>4, <1>5 DEF T
  <1> QED BY <1>2, <1>6

(* Numbers grow with their rank, and every rank up to the number of them   *)
(* is taken.                                                               *)
LEMMA RankFacts ==
    ASSUME NEW I, I \subseteq Nat, IsFiniteSet(I)
    PROVE  /\ Cardinality(I) \in Nat
           /\ \A i \in I : Rank(I, i) \in 1..Cardinality(I)
           /\ \A i, j \in I : i < j => Rank(I, i) < Rank(I, j)
           /\ \A k \in 1..Cardinality(I) : \E i \in I : Rank(I, i) = k
  <1> DEFINE below(i) == {j \in I : j <= i}
             n == Cardinality(I)
             r == [i \in I |-> Rank(I, i)]
  <1>1. n \in Nat
    BY FS_CardinalityType
  <1>2. ASSUME NEW i \in I
        PROVE  /\ IsFiniteSet(below(i)) /\ i \in below(i)
               /\ Rank(I, i) \in 1..n
    <2>1. below(i) \in SUBSET I /\ i \in below(i)
      OBVIOUS
    <2>2. IsFiniteSet(below(i)) /\ Cardinality(below(i)) <= n
      BY <2>1, FS_Subset
    <2>3. Cardinality(below(i)) \in Nat /\ Cardinality(below(i)) # 0
      BY <2>1, <2>2, FS_CardinalityType, FS_EmptySet
    <2> QED BY <1>1, <2>1, <2>2, <2>3 DEF Rank
  <1>3. ASSUME NEW i \in I, NEW j \in I, i < j
        PROVE  Rank(I, i) < Rank(I, j)
    <2>0. i \in Nat /\ j \in Nat /\ \A x \in I : x \in Nat
      OBVIOUS
    <2>1. below(i) \in SUBSET below(j) /\ j \in below(j) /\ j \notin below(i)
      <3>1. \A x \in I : x <= i => x <= j
        BY <1>3, <2>0
      <3>2. j <= j /\ ~(j <= i)
        BY <1>3, <2>0
      <3> QED BY <3>1, <3>2, Zenon
    <2>2. Cardinality(below(i)) <= Cardinality(below(j)) /\ Cardinality(below(i)) # Cardinality(below(j))
      BY <1>2, <2>1, FS_Subset
    <2>3. Rank(I, i) \in 1..n /\ Rank(I, j) \in 1..n
      BY <1>2
    <2> QED BY <1>1, <2>2, <2>3 DEF Rank
  <1>4. r \in Surjection(I, 1..n)
    <2>1. r \in [I -> 1..n]
      BY <1>2
    <2>2. \A i, j \in I : i # j => r[i] # r[j]
      <3> SUFFICES ASSUME NEW i \in I, NEW j \in I, i < j \/ j < i PROVE r[i] # r[j]
        OBVIOUS
      <3>1. Rank(I, i) < Rank(I, j) \/ Rank(I, j) < Rank(I, i)
        BY <1>3
      <3>2. Rank(I, i) \in 1..n /\ Rank(I, j) \in 1..n
        BY <1>2
      <3> QED BY <1>1, <3>1, <3>2
    <2>3. r \in Injection(I, 1..n)
      BY <2>1, <2>2 DEF Injection, IsInjective
    <2>4. IsFiniteSet(1..n) /\ Cardinality(1..n) = n
      BY <1>1, FS_Interval
    <2> HIDE DEF r
    <2> QED BY <2>3, <2>4, FS_Injection
  <1>5. \A k \in 1..n : \E i \in I : Rank(I, i) = k
    BY <1>4 DEF Surjection
  <1> QED BY <1>1, <1>2, <1>3, <1>5

(* Nth lists the set: each element once, in ascending order.               *)
LEMMA NthFacts ==
    ASSUME NEW I, I \subseteq Nat, IsFiniteSet(I)
    PROVE  /\ Cardinality(I) \in Nat
           /\ \A k \in 1..Cardinality(I) : Nth(I, k) \in I
           /\ \A k, l \in 1..Cardinality(I) : k < l => Nth(I, k) < Nth(I, l)
           /\ \A i \in I : \E k \in 1..Cardinality(I) : Nth(I, k) = i
  <1>0. /\ Cardinality(I) \in Nat
        /\ \A i \in I : i \in Nat /\ Rank(I, i) \in 1..Cardinality(I)
        /\ \A i, j \in I : i < j => Rank(I, i) < Rank(I, j)
    BY RankFacts, Zenon
  <1>1. \A k \in 1..Cardinality(I) : Nth(I, k) \in I /\ Rank(I, Nth(I, k)) = k
    BY RankFacts DEF Nth
  <1>2. ASSUME NEW k \in 1..Cardinality(I), NEW l \in 1..Cardinality(I), k < l
        PROVE  Nth(I, k) < Nth(I, l)
    <2>1. PICK i \in I, j \in I : /\ i = Nth(I, k) /\ Rank(I, i) = k
                                  /\ j = Nth(I, l) /\ Rank(I, j) = l
      BY <1>1
    <2>2. i \in Nat /\ j \in Nat /\ k \in Int /\ l \in Int
      OBVIOUS
    <2>3. ~(j < i) /\ i # j
      BY <1>0, <1>2, <2>1, <2>2
    <2> QED BY <2>1, <2>2, <2>3
  <1>3. ASSUME NEW i \in I
        PROVE  \E k \in 1..Cardinality(I) : Nth(I, k) = i
    <2>1. PICK k \in 1..Cardinality(I) : k = Rank(I, i)
      BY RankFacts
    <2>2. PICK j \in I : j = Nth(I, k) /\ Rank(I, j) = k
      BY <1>1
    <2>3. ~(i < j) /\ ~(j < i)
      BY <1>0, <2>1, <2>2
    <2>4. i = j
      BY <1>0, <2>3
    <2> QED BY <2>2, <2>4
  <1> QED BY <1>1, <1>2, <1>3, RankFacts

(* Ascending lists the set in order.                                       *)
LEMMA AscendingFacts ==
    ASSUME NEW I, I \subseteq Nat, IsFiniteSet(I)
    PROVE  /\ Ascending(I) \in Seq(I) /\ Len(Ascending(I)) = Cardinality(I)
           /\ DOMAIN Ascending(I) = 1..Cardinality(I)
           /\ {Ascending(I)[k] : k \in DOMAIN Ascending(I)} = I
           /\ \A k, l \in DOMAIN Ascending(I) : k < l => Ascending(I)[k] < Ascending(I)[l]
  <1>1. /\ Cardinality(I) \in Nat
        /\ \A k \in 1..Cardinality(I) : Nth(I, k) \in I
        /\ \A k, l \in 1..Cardinality(I) : k < l => Nth(I, k) < Nth(I, l)
        /\ \A i \in I : \E k \in 1..Cardinality(I) : Nth(I, k) = i
    BY NthFacts, Zenon
  <1>2. /\ DOMAIN Ascending(I) = 1..Cardinality(I)
        /\ \A k \in 1..Cardinality(I) : Ascending(I)[k] = Nth(I, k)
        /\ Ascending(I) \in [1..Cardinality(I) -> I]
    BY <1>1 DEF Ascending
  <1>3. Ascending(I) \in Seq(I) /\ Len(Ascending(I)) = Cardinality(I)
    BY <1>1, <1>2
  <1>4. {Ascending(I)[k] : k \in DOMAIN Ascending(I)} = I
    BY <1>1, <1>2
  <1> QED BY <1>1, <1>2, <1>3, <1>4

(* The elements of a sequence at some places are a sequence of such        *)
(* elements.                                                               *)
LEMMA AtFacts ==
    ASSUME NEW S, NEW s \in Seq(S), NEW I, I \subseteq DOMAIN s
    PROVE  /\ IsFiniteSet(I) /\ I \subseteq Nat /\ Cardinality(I) \in Nat
           /\ At(s, I) \in Seq(S) /\ Len(At(s, I)) = Cardinality(I)
           /\ DOMAIN At(s, I) = 1..Cardinality(I)
           /\ \A k \in 1..Cardinality(I) : At(s, I)[k] = s[Nth(I, k)] /\ Nth(I, k) \in I
  <1>1. IsFiniteSet(I) /\ I \subseteq Nat
    <2>1. Len(s) \in Nat /\ DOMAIN s = 1..Len(s)
      OBVIOUS
    <2>2. I \in SUBSET (1..Len(s))
      BY <2>1
    <2>3. IsFiniteSet(1..Len(s))
      BY <2>1, FS_Interval
    <2>4. IsFiniteSet(I)
      BY <2>2, <2>3, FS_Subset
    <2> QED BY <2>1, <2>4
  <1>2. /\ Cardinality(I) \in Nat
        /\ \A k \in 1..Cardinality(I) : Nth(I, k) \in I
    BY <1>1, NthFacts, Zenon
  <1>3. \A k \in 1..Cardinality(I) : s[Nth(I, k)] \in S
    BY <1>2
  <1> QED BY <1>1, <1>2, <1>3 DEF At

-----------------------------------------------------------------------------
(* FlattenSeq.                                                             *)

First(ss, n) == [i \in 1..n |-> ss[i]]

(* The equation of its recursive function.                                 *)
Flattening(g, ss, n) == g = [i \in 1..n |-> IF i = 1 THEN ss[i] ELSE g[i - 1] \o ss[i]]

(* The equation at one place.                                              *)
LEMMA FlatteningAt ==
    ASSUME NEW g, NEW ss, NEW n, Flattening(g, ss, n), NEW i \in 1..n
    PROVE  g[i] = IF i = 1 THEN ss[i] ELSE g[i - 1] \o ss[i]
  <1>1. PICK f : f = [j \in 1..n |-> IF j = 1 THEN ss[j] ELSE g[j - 1] \o ss[j]]
    OBVIOUS
  <1>2. f[i] = IF i = 1 THEN ss[i] ELSE g[i - 1] \o ss[i]
    BY <1>1
  <1>3. g = f
    BY <1>1, Zenon DEF Flattening
  <1> QED BY <1>2, <1>3

(* The equation has a solution.                                            *)
LEMMA FlatteningExists ==
    ASSUME NEW ss, NEW n \in Nat \ {0}
    PROVE  \E g : Flattening(g, ss, n)
  <1> DEFINE S == {m \in 1..n : \E g : Flattening(g, ss, m)}
  <1>1. 1 \in S
    <2> DEFINE g == [i \in 1..1 |-> ss[i]]
    <2>1. Flattening(g, ss, 1)
      BY DEF Flattening
    <2> QED BY <2>1
  <1>2. ASSUME NEW m \in 1..(n - 1), m \in S PROVE m + 1 \in S
    <2>1. PICK g : Flattening(g, ss, m)
      BY <1>2
    <2> DEFINE h == [i \in 1..(m + 1) |-> IF i = m + 1 THEN g[m] \o ss[m + 1] ELSE g[i]]
    <2>2. \A i \in 1..(m + 1) :
             h[i] = IF i = 1 THEN ss[i] ELSE h[i - 1] \o ss[i]
      <3> SUFFICES ASSUME NEW i \in 1..(m + 1)
                   PROVE  h[i] = IF i = 1 THEN ss[i] ELSE h[i - 1] \o ss[i]
        OBVIOUS
      <3>1. CASE i = m + 1
        <4>1. m \in 1..(m + 1) /\ m # m + 1 /\ i - 1 = m /\ i # 1
          BY <3>1
        <4>2. h[i] = g[m] \o ss[m + 1] /\ h[m] = g[m]
          BY <3>1, <4>1
        <4> QED BY <3>1, <4>1, <4>2
      <3>2. CASE i # m + 1
        <4>1. i \in 1..m /\ (i # 1 => i - 1 \in 1..(m + 1) /\ i - 1 # m + 1)
          BY <3>2
        <4>2. h[i] = g[i] /\ (i # 1 => h[i - 1] = g[i - 1])
          BY <3>2, <4>1
        <4>3. g[i] = IF i = 1 THEN ss[i] ELSE g[i - 1] \o ss[i]
          BY <2>1, <4>1, FlatteningAt
        <4> QED BY <4>2, <4>3
      <3> QED BY <3>1, <3>2
    <2>3. Flattening(h, ss, m + 1)
      BY <2>2 DEF Flattening
    <2> QED BY <2>3
  <1> HIDE DEF S
  <1>3. 1..n \subseteq S
    BY <1>1, <1>2, IntervalInduction
  <1> QED BY <1>3 DEF S

(* And only one.                                                           *)
LEMMA FlatteningUnique ==
    ASSUME NEW ss, NEW n \in Nat, NEW m \in 1..n, NEW g, NEW h,
           Flattening(g, ss, n), Flattening(h, First(ss, m), m)
    PROVE  g[m] = h[m]
  <1> DEFINE S == {i \in 1..m : g[i] = h[i]}
  <1>1. ASSUME NEW i \in 1..m
        PROVE  /\ g[i] = IF i = 1 THEN ss[i] ELSE g[i - 1] \o ss[i]
               /\ h[i] = IF i = 1 THEN ss[i] ELSE h[i - 1] \o ss[i]
    <2>1. i \in 1..n /\ First(ss, m)[i] = ss[i]
      BY DEF First
    <2> QED BY <2>1, FlatteningAt
  <1>2. 1 \in S
    BY <1>1
  <1>3. \A i \in 1..(m - 1) : i \in S => i + 1 \in S
    BY <1>1
  <1> HIDE DEF S
  <1>4. 1..m \subseteq S
    BY <1>2, <1>3, IntervalInduction
  <1> QED BY <1>4 DEF S

(* FlattenSeq is what the equation says.                                   *)
LEMMA FlattenSolves ==
    ASSUME NEW ss, NEW n \in Nat \ {0}, Len(ss) = n
    PROVE  \E g : Flattening(g, ss, n) /\ FlattenSeq(ss) = g[n]
  <1> DEFINE F == CHOOSE g : g = [i \in 1..Len(ss) |-> IF i = 1 THEN ss[i] ELSE g[i - 1] \o ss[i]]
  <1>1. Flattening(F, ss, n)
    BY FlatteningExists DEF Flattening
  <1>2. FlattenSeq(ss) = F[n]
    BY DEF FlattenSeq
  <1> QED BY <1>1, <1>2

(* FlattenSeq appends one sequence after the other.                        *)
LEMMA FlattenStep ==
    ASSUME NEW S, NEW ss \in Seq(Seq(S))
    PROVE  /\ FlattenSeq(First(ss, 0)) = <<>>
           /\ First(ss, Len(ss)) = ss
           /\ \A n \in 0..(Len(ss) - 1) :
                FlattenSeq(First(ss, n + 1)) = FlattenSeq(First(ss, n)) \o ss[n + 1]
  <1>1. FlattenSeq(First(ss, 0)) = <<>>
    BY DEF FlattenSeq, First
  <1>2. First(ss, Len(ss)) = ss
    BY DEF First
  <1>3. ASSUME NEW n \in 0..(Len(ss) - 1)
        PROVE  FlattenSeq(First(ss, n + 1)) = FlattenSeq(First(ss, n)) \o ss[n + 1]
    <2>1. Len(First(ss, n + 1)) = n + 1 /\ n + 1 \in Nat \ {0} /\ Len(First(ss, n)) = n
          /\ First(First(ss, n + 1), n) = First(ss, n)
      BY DEF First
    <2>2. PICK g : Flattening(g, First(ss, n + 1), n + 1) /\ FlattenSeq(First(ss, n + 1)) = g[n + 1]
      BY <2>1, FlattenSolves
    <2>3. CASE n = 0
      <3>1. g[1] = ss[1]
        BY <2>2, <2>3 DEF Flattening, First
      <3>2. ss[1] \in Seq(S) /\ <<>> \o ss[1] = ss[1]
        OBVIOUS
      <3> QED BY <1>1, <2>2, <2>3, <3>1, <3>2
    <2>4. CASE n # 0
      <3>1. PICK h : Flattening(h, First(ss, n), n) /\ FlattenSeq(First(ss, n)) = h[n]
        BY <2>1, <2>4, FlattenSolves
      <3>2. g[n] = h[n]
        BY <2>1, <2>2, <2>4, <3>1, FlatteningUnique
      <3>3. g[n + 1] = g[n] \o ss[n + 1]
        <4>1. n + 1 \in 1..(n + 1) /\ n + 1 # 1 /\ (n + 1) - 1 = n /\ First(ss, n + 1)[n + 1] = ss[n + 1]
          BY <2>4 DEF First
        <4> DEFINE fs == First(ss, n + 1)
        <4>2. \A i \in 1..(n + 1) : g[i] = IF i = 1 THEN fs[i] ELSE g[i - 1] \o fs[i]
          <5> HIDE DEF fs
          <5> SUFFICES ASSUME NEW i \in 1..(n + 1)
                       PROVE  g[i] = IF i = 1 THEN fs[i] ELSE g[i - 1] \o fs[i]
            OBVIOUS
          <5>1. Flattening(g, fs, n + 1)
            BY <2>2 DEF fs
          <5> QED BY <5>1, FlatteningAt
        <4> HIDE DEF fs
        <4> QED BY <4>1, <4>2 DEF fs
      <3> QED BY <2>2, <3>1, <3>2, <3>3
    <2> QED BY <2>3, <2>4
  <1> QED BY <1>1, <1>2, <1>3

(* Where the i-th sequence begins.                                         *)
Offset(ss, i) == Len(FlattenSeq(First(ss, i)))

(* What is at which place, for the first m sequences.                      *)
Placed(S, ss, m) ==
    /\ FlattenSeq(First(ss, m)) \in Seq(S)
    /\ \A i \in 1..m : \A q \in 1..Len(ss[i]) :
         /\ Offset(ss, i - 1) \in Nat /\ Offset(ss, i - 1) + q <= Offset(ss, m)
         /\ FlattenSeq(First(ss, m))[Offset(ss, i - 1) + q] = ss[i][q]
    /\ \A p \in 1..Offset(ss, m) :
         \E i \in 1..m : \E q \in 1..Len(ss[i]) : p = Offset(ss, i - 1) + q

(* One more sequence leaves those before where they are.                   *)
LEMMA PlacedStep ==
    ASSUME NEW S, NEW ss \in Seq(Seq(S)), NEW m \in 0..(Len(ss) - 1), Placed(S, ss, m)
    PROVE  Placed(S, ss, m + 1) /\ Offset(ss, m + 1) = Offset(ss, m) + Len(ss[m + 1])
  <1> DEFINE a == FlattenSeq(First(ss, m))
             b == ss[m + 1]
             c == FlattenSeq(First(ss, m + 1))
  <1>0. \A n \in 0..(Len(ss) - 1) :
           FlattenSeq(First(ss, n + 1)) = FlattenSeq(First(ss, n)) \o ss[n + 1]
    BY FlattenStep, Zenon
  <1>1. a \in Seq(S) /\ b \in Seq(S) /\ c = a \o b
    <2>1. c = a \o b
      BY <1>0
    <2>2. b \in Seq(S)
      OBVIOUS
    <2> QED BY <2>1, <2>2, Zenon DEF Placed
  <1>2. Len(a) = Offset(ss, m) /\ Len(c) = Offset(ss, m + 1)
    BY DEF Offset
  <1> HIDE DEF a, c
  <1>3. /\ c \in Seq(S) /\ Len(c) = Len(a) + Len(b) /\ Len(a) \in Nat /\ Len(b) \in Nat
        /\ \A p \in 1..Len(a) : c[p] = a[p]
        /\ \A q \in 1..Len(b) : c[Len(a) + q] = b[q]
    BY <1>1
  <1>4. ASSUME NEW i \in 1..(m + 1), NEW q \in 1..Len(ss[i])
        PROVE  /\ Offset(ss, i - 1) \in Nat /\ Offset(ss, i - 1) + q <= Len(c)
               /\ c[Offset(ss, i - 1) + q] = ss[i][q]
    <2>0. Len(ss[i]) \in Nat /\ q \in Nat /\ q >= 1
      OBVIOUS
    <2>1. CASE i = m + 1
      <3>1. Offset(ss, i - 1) = Len(a) /\ ss[i] = b
        BY <2>1, <1>2
      <3>2. q \in 1..Len(b)
        BY <3>1
      <3>3. /\ Len(a) \in Nat /\ Len(a) + q <= Len(c) /\ c[Len(a) + q] = b[q]
        BY <3>2, <1>3
      <3> QED BY <3>1, <3>3
    <2>2. CASE i # m + 1
      <3>1. i \in 1..m
        BY <2>2
      <3>2. /\ Offset(ss, i - 1) \in Nat /\ Offset(ss, i - 1) + q <= Len(a)
            /\ a[Offset(ss, i - 1) + q] = ss[i][q]
        BY <3>1, <1>2 DEF Placed, a
      <3> DEFINE o == Offset(ss, i - 1)
      <3> HIDE DEF o
      <3>3. o \in Nat /\ o + q <= Len(a) /\ a[o + q] = ss[i][q]
        BY <3>2 DEF o
      <3>4. o + q \in 1..Len(a) /\ o + q <= Len(c)
        BY <2>0, <3>3, <1>3
      <3>5. c[o + q] = a[o + q]
        BY <3>4, <1>3
      <3> QED BY <3>3, <3>4, <3>5 DEF o
    <2> QED BY <2>1, <2>2
  <1>5. ASSUME NEW p \in 1..Len(c)
        PROVE  \E i \in 1..(m + 1) : \E q \in 1..Len(ss[i]) : p = Offset(ss, i - 1) + q
    <2>1. CASE p <= Len(a)
      <3>1. PICK i \in 1..m : \E q \in 1..Len(ss[i]) : p = Offset(ss, i - 1) + q
        BY <2>1, <1>2, <1>3 DEF Placed
      <3>2. i \in 1..(m + 1)
        OBVIOUS
      <3> QED BY <3>1, <3>2
    <2>2. CASE p > Len(a)
      <3>1. p - Len(a) \in 1..Len(b) /\ m + 1 \in 1..(m + 1) /\ (m + 1) - 1 = m
        BY <2>2, <1>3
      <3>2. p = Len(a) + (p - Len(a))
        BY <1>3
      <3> QED BY <3>1, <3>2, <1>2
    <2>3. p \in Int /\ Len(a) \in Int
      BY <1>3
    <2>4. p <= Len(a) \/ p > Len(a)
      BY <2>3
    <2> QED BY <2>1, <2>2, <2>4, Zenon
  <1>6. c \in Seq(S) /\ Len(c) = Offset(ss, m + 1) /\ Len(c) = Offset(ss, m) + Len(ss[m + 1])
    BY <1>2, <1>3
  <1> QED BY <1>4, <1>5, <1>6 DEF Placed, c

(* FlattenSeq has each element of each sequence at its place, and nothing  *)
(* else.                                                                   *)
LEMMA FlattenPlaces ==
    ASSUME NEW S, NEW ss \in Seq(Seq(S))
    PROVE  /\ FlattenSeq(ss) \in Seq(S) /\ Len(FlattenSeq(ss)) = Offset(ss, Len(ss))
           /\ Offset(ss, 0) = 0
           /\ \A i \in 1..Len(ss) : Offset(ss, i) = Offset(ss, i - 1) + Len(ss[i])
           /\ \A i \in 0..Len(ss) : Offset(ss, i) \in Nat
           /\ \A i, j \in 0..Len(ss) : i <= j => Offset(ss, i) <= Offset(ss, j)
           /\ \A i \in 1..Len(ss) : \A q \in 1..Len(ss[i]) :
                /\ Offset(ss, i - 1) + q \in 1..Len(FlattenSeq(ss))
                /\ FlattenSeq(ss)[Offset(ss, i - 1) + q] = ss[i][q]
           /\ \A p \in 1..Len(FlattenSeq(ss)) :
                \E i \in 1..Len(ss) : \E q \in 1..Len(ss[i]) : p = Offset(ss, i - 1) + q
  <1> DEFINE n == Len(ss)
             T == {m \in 0..n : Placed(S, ss, m)}
  <1>0. n \in Nat
    OBVIOUS
  <1>1. Offset(ss, 0) = 0
    BY FlattenStep DEF Offset
  <1>2. 0 \in T
    <2>1. FlattenSeq(First(ss, 0)) = <<>> /\ <<>> \in Seq(S)
      BY FlattenStep
    <2>2. 1..0 = {} /\ 1..Offset(ss, 0) = {}
      BY <1>1
    <2>3. Placed(S, ss, 0)
      BY <2>1, <2>2, Zenon DEF Placed
    <2>4. 0 \in 0..n
      BY <1>0
    <2> QED BY <2>3, <2>4
  <1>3. \A m \in 0..(n - 1) : m \in T => m + 1 \in T
    BY PlacedStep
  <1>4. 0..n \subseteq T
    <2> HIDE DEF T, n
    <2> QED BY <1>0, <1>2, <1>3, IntervalInduction
  <1>5. \A m \in 0..n : Placed(S, ss, m)
    BY <1>4
  <1>6. ASSUME NEW i \in 1..n PROVE Offset(ss, i) = Offset(ss, i - 1) + Len(ss[i])
    <2>1. i - 1 \in 0..(n - 1) /\ (i - 1) + 1 = i /\ Placed(S, ss, i - 1)
      BY <1>5
    <2>2. PICK m \in 0..(n - 1) : m = i - 1
      BY <2>1
    <2>3. Offset(ss, m + 1) = Offset(ss, m) + Len(ss[m + 1]) /\ m + 1 = i
      BY <2>1, <2>2, PlacedStep
    <2> QED BY <2>2, <2>3
  <1>7. ASSUME NEW i \in 0..n PROVE Offset(ss, i) \in Nat
    BY <1>5 DEF Placed, Offset
  <1>8. ASSUME NEW i \in 0..n, NEW j \in 0..n, i <= j
        PROVE  Offset(ss, i) <= Offset(ss, j)
    <2> DEFINE U == {m \in i..n : Offset(ss, i) <= Offset(ss, m)}
    <2>1. i \in U
      BY <1>7
    <2>2. ASSUME NEW m \in i..(n - 1), m \in U PROVE m + 1 \in U
      <3>1. m \in 0..n /\ m + 1 \in 1..n /\ m + 1 \in 0..n /\ (m + 1) - 1 = m
        BY <1>0
      <3>2. Offset(ss, m + 1) = Offset(ss, m) + Len(ss[m + 1])
        BY <3>1, <1>6
      <3>3. Len(ss[m + 1]) \in Nat /\ Offset(ss, i) \in Nat /\ Offset(ss, m) \in Nat
        BY <3>1, <1>7
      <3>4. Offset(ss, i) <= Offset(ss, m + 1)
        BY <2>2, <3>2, <3>3
      <3> QED BY <3>1, <3>4
    <2> HIDE DEF U
    <2>3. i..n \subseteq U
      <3>1. \A m \in i..(n - 1) : m \in U => m + 1 \in U
        BY <2>2
      <3>2. i \in Nat
        BY <1>0
      <3> QED BY <1>0, <2>1, <3>1, <3>2, IntervalInduction
    <2>4. j \in U
      BY <2>3, <1>8
    <2> QED BY <2>4 DEF U
  <1>9. Placed(S, ss, n) /\ First(ss, n) = ss /\ Len(FlattenSeq(ss)) = Offset(ss, n)
    BY <1>0, <1>5, FlattenStep DEF Offset
  <1>10. FlattenSeq(ss) \in Seq(S)
    BY <1>9 DEF Placed
  <1>11. ASSUME NEW i \in 1..n, NEW q \in 1..Len(ss[i])
         PROVE  /\ Offset(ss, i - 1) + q \in 1..Len(FlattenSeq(ss))
                /\ FlattenSeq(ss)[Offset(ss, i - 1) + q] = ss[i][q]
    <2>1. /\ Offset(ss, i - 1) \in Nat /\ Offset(ss, i - 1) + q <= Offset(ss, n)
          /\ FlattenSeq(ss)[Offset(ss, i - 1) + q] = ss[i][q]
      BY <1>9 DEF Placed
    <2>2. Len(ss[i]) \in Nat /\ Offset(ss, n) \in Nat
      BY <1>0, <1>7
    <2> QED BY <1>9, <2>1, <2>2
  <1>12. \A p \in 1..Len(FlattenSeq(ss)) :
            \E i \in 1..n : \E q \in 1..Len(ss[i]) : p = Offset(ss, i - 1) + q
    BY <1>9 DEF Placed
  <1> QED BY <1>1, <1>6, <1>7, <1>8, <1>9, <1>10, <1>11, <1>12
=============================================================================
