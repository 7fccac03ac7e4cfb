--------------------------------- MODULE Lemmas ---------------------------------
(***************************************************************************)
(* Facts about numbers, finite sets, sequences and sums that the proofs about  *)
(* several components need.  Induction is stated over the set of the numbers  *)
(* that have a property, which the provers instantiate as they do any set.    *)
(***************************************************************************)
EXTENDS Integers, Sequences, FiniteSets, FiniteSetsExt, FiniteSetTheorems,
        SequenceTheorems, WellFoundedInduction, TLAPS

(* Every set of natural numbers has a least element. *)
LEMMA Least ==
    ASSUME NEW T, T \subseteq Nat, T # {}
    PROVE  \E x \in T : \A y \in T : x <= y
<1> DEFINE R == OpToRel(<, Nat)
<1>1. IsWellFoundedOn(R, Nat)
  BY NatLessThanWellFounded
<1>2. \A x, y \in Nat : <<x, y>> \in R <=> x < y
  BY DEF OpToRel
<1> HIDE DEF R
<1>3. \E x \in T : \A y \in T : ~(<<y, x>> \in R)
  BY <1>1, WFMin
<1>4. PICK x \in T : \A y \in T : ~(<<y, x>> \in R)
  BY <1>3
<1>5. \A y \in T : y \in Nat /\ x \in Nat /\ ~(y < x)
  BY <1>2, <1>4
<1>6. \A y \in T : x <= y
  BY <1>5
<1>. QED
  BY <1>4, <1>6

(* Induction, over the set of the numbers that have the property. *)
LEMMA Induction ==
    ASSUME NEW P, 0 \in P, \A n \in Nat : n \in P => n + 1 \in P
    PROVE  Nat \subseteq P
<1> SUFFICES ASSUME Nat \ P # {} PROVE FALSE
  OBVIOUS
<1>1. PICK x \in Nat \ P : \A y \in Nat \ P : x <= y
  BY Least
<1>2. x # 0 /\ x - 1 \in Nat
  BY <1>1
<1>3. x - 1 \in P
  BY <1>1, <1>2
<1>. QED
  BY <1>1, <1>2, <1>3

(* Finite sets, from smaller to larger ones: P is the set of those that have
   the property. *)
LEMMA SetInduction ==
    ASSUME NEW S, IsFiniteSet(S), NEW P, {} \in P,
           \A T \in SUBSET S : \A x \in S \ T : T \in P => T \cup {x} \in P
    PROVE  S \in P
<1> DEFINE Q == {n \in Nat : \A T \in SUBSET S : Cardinality(T) = n => T \in P}
<1>1. 0 \in Q
  BY FS_Subset, FS_EmptySet
<1>2. ASSUME NEW n \in Nat, n \in Q PROVE n + 1 \in Q
  <2>1. ASSUME NEW T \in SUBSET S, Cardinality(T) = n + 1 PROVE T \in P
    <3>1. IsFiniteSet(T)
      BY FS_Subset
    <3>2. T # {}
      BY <2>1, <3>1, FS_EmptySet
    <3>3. PICK x : x \in T
      BY <3>2
    <3>4. Cardinality(T \ {x}) = n
      <4>1. Cardinality(T \ {x}) = Cardinality(T) - 1
        BY <3>1, <3>3, FS_RemoveElement
      <4>. QED
        BY <2>1, <4>1
    <3>5. T \ {x} \in P
      BY <1>2, <3>4
    <3>6. (T \ {x}) \cup {x} \in P
      BY <3>3, <3>5
    <3>. QED
      BY <3>3, <3>6
  <2>. QED
    BY <2>1
<1> HIDE DEF Q
<1>3. Nat \subseteq Q
  BY <1>1, <1>2, Induction
<1>4. Cardinality(S) \in Nat
  BY FS_CardinalityType
<1>. QED
  BY <1>3, <1>4 DEF Q

(* The elements of a sequence, of one with an element more, and of one without
   its head. *)
Elements(s) == {s[i] : i \in DOMAIN s}

(* A sequence by its indices. *)
LEMMA Indices ==
    ASSUME NEW S, NEW s \in Seq(S)
    PROVE  Len(s) \in Nat /\ DOMAIN s = 1..Len(s) /\ Elements(s) \subseteq S
           /\ (s # <<>> <=> Len(s) > 0)
BY DEF Elements

(* A sequence with one more element. *)
LEMMA OneMore ==
    ASSUME NEW S, NEW s \in Seq(S), NEW e \in S
    PROVE  /\ Append(s, e) \in Seq(S) /\ Len(Append(s, e)) = Len(s) + 1
           /\ DOMAIN Append(s, e) = 1..Len(s) + 1
           /\ Elements(Append(s, e)) = Elements(s) \cup {e}
           /\ \A i \in 1..Len(s) : Append(s, e)[i] = s[i]
           /\ Append(s, e)[Len(s) + 1] = e
<1> DEFINE a == Append(s, e)
<1>1. /\ a \in Seq(S) /\ Len(a) = Len(s) + 1 /\ \A i \in 1..Len(s) : a[i] = s[i]
      /\ a[Len(s) + 1] = e
  BY AppendProperties
<1>2. DOMAIN a = 1..Len(s) + 1 /\ DOMAIN s = 1..Len(s) /\ Len(s) \in Nat
  BY <1>1, Indices
<1> HIDE DEF a
<1>3. Elements(a) = Elements(s) \cup {e}
  BY <1>1, <1>2 DEF Elements
<1>. QED
  BY <1>1, <1>2, <1>3 DEF a

(* A sequence without its first element. *)
LEMMA OneLess ==
    ASSUME NEW S, NEW s \in Seq(S), s # <<>>
    PROVE  /\ Tail(s) \in Seq(S) /\ Len(Tail(s)) = Len(s) - 1 /\ Head(s) = s[1]
           /\ 1 \in DOMAIN s /\ DOMAIN Tail(s) = 1..Len(s) - 1
           /\ \A i \in 1..Len(s) - 1 : Tail(s)[i] = s[i + 1]
BY HeadTailProperties, Indices

-----------------------------------------------------------------------------
(* The sum of the numbers that f has on S, as MapThenSumSet folds them. *)
SumOf(f, S) == MapThenSumSet(LAMBDA n : f[n], S)

(* g sums up f: taking any element from a set takes its number. *)
Sums(g, f, D) ==
    /\ g \in [SUBSET D -> Nat] /\ g[{}] = 0
    /\ \A s \in SUBSET D : \A x \in s : g[s] = f[x] + g[s \ {x}]

(* There is such a sum, by induction over the elements. *)
LEMMA SumsExist ==
    ASSUME NEW D, IsFiniteSet(D), NEW f \in [D -> Nat]
    PROVE  \E g : Sums(g, f, D)
<1> DEFINE P == {T \in SUBSET D : \E g : Sums(g, f, T)}
<1>1. {} \in P
  <2>1. Sums([s \in SUBSET {} |-> 0], f, {})
    BY DEF Sums
  <2>. QED
    BY <2>1
<1>2. ASSUME NEW T \in SUBSET D, NEW x \in D \ T, T \in P
      PROVE  T \cup {x} \in P
  <2>1. PICK g : Sums(g, f, T)
    BY <1>2
  <2> DEFINE U == T \cup {x}
             h == [s \in SUBSET U |-> IF x \in s THEN f[x] + g[s \ {x}] ELSE g[s]]
  <2>2. /\ \A s \in SUBSET T : g[s] \in Nat
        /\ g[{}] = 0 /\ f[x] \in Nat /\ \A y \in T : f[y] \in Nat
        /\ \A s \in SUBSET T : \A y \in s : g[s] = f[y] + g[s \ {y}]
    BY <2>1 DEF Sums
  <2>3. \A s \in SUBSET U : s \ {x} \in SUBSET T /\ (x \notin s => s \in SUBSET T)
    OBVIOUS
  <2>4. \A s \in SUBSET U : h[s] = IF x \in s THEN f[x] + g[s \ {x}] ELSE g[s]
    OBVIOUS
  <2>5. h \in [SUBSET U -> Nat] /\ h[{}] = 0
    <3>1. \A s \in SUBSET U : (IF x \in s THEN f[x] + g[s \ {x}] ELSE g[s]) \in Nat
      BY <2>2, <2>3
    <3>. QED
      BY <2>2, <3>1
  <2> HIDE DEF h
  <2>6. ASSUME NEW s \in SUBSET U, NEW y \in s PROVE h[s] = f[y] + h[s \ {y}]
    <3> DEFINE r == s \ {x}
    <3>1. CASE y = x
      <4>1. h[s \ {x}] = g[s \ {x}]
        BY <2>3, <2>4
      <4>. QED
        BY <2>4, <3>1, <4>1
    <3>2. CASE y # x /\ x \in s
      <4>1. y \in r /\ r \in SUBSET T /\ y \in T
        BY <2>3, <3>2
      <4>2. g[r] = f[y] + g[r \ {y}] /\ g[r \ {y}] \in Nat
        BY <2>2, <4>1
      <4>3. (s \ {y}) \ {x} = r \ {y} /\ x \in s \ {y} /\ s \ {y} \in SUBSET U
        BY <3>2
      <4>4. h[s] = f[x] + g[r] /\ h[s \ {y}] = f[x] + g[r \ {y}]
        BY <2>4, <3>2, <4>3
      <4>5. f[x] \in Nat /\ f[y] \in Nat
        BY <2>2, <4>1
      <4> HIDE DEF r
      <4>. QED
        BY <4>2, <4>4, <4>5
    <3>3. CASE y # x /\ x \notin s
      <4>1. s \in SUBSET T /\ s \ {y} \in SUBSET U /\ x \notin s \ {y}
        BY <2>3, <3>3
      <4>. QED
        BY <2>2, <2>4, <4>1
    <3>. QED
      BY <3>1, <3>2, <3>3
  <2>7. Sums(h, f, U)
    BY <2>5, <2>6 DEF Sums
  <2>. QED
    BY <2>7
<1> HIDE DEF P
<1>3. D \in P
  BY <1>1, <1>2, SetInduction
<1>. QED
  BY <1>3 DEF P

(* Whatever is computed as the fold does is that sum. *)
Folded(h, f, S) ==
    h = [s \in SUBSET S |-> IF s = {} THEN 0
                            ELSE f[CHOOSE x \in s : TRUE] + h[s \ {CHOOSE x \in s : TRUE}]]

(* The fold takes elements in an order of its own, and comes to the same. *)
LEMMA FoldIsSum ==
    ASSUME NEW D, IsFiniteSet(D), NEW f, NEW g, Sums(g, f, D), NEW S \in SUBSET D,
           NEW h, Folded(h, f, S)
    PROVE  h[S] = g[S]
<1> DEFINE P == {n \in Nat : \A s \in SUBSET S : Cardinality(s) = n => h[s] = g[s]}
<1>1. IsFiniteSet(S) /\ \A s \in SUBSET S : IsFiniteSet(s)
  BY FS_Subset
<1>2. \A s \in SUBSET S : h[s] = IF s = {} THEN 0
                                 ELSE f[CHOOSE x \in s : TRUE] + h[s \ {CHOOSE x \in s : TRUE}]
  BY DEF Folded
<1>3. 0 \in P
  <2>1. \A s \in SUBSET S : Cardinality(s) = 0 => s = {}
    BY <1>1, FS_EmptySet
  <2>. QED
    BY <1>2, <2>1 DEF Sums
<1>4. ASSUME NEW n \in Nat, n \in P PROVE n + 1 \in P
  <2>1. ASSUME NEW s \in SUBSET S, Cardinality(s) = n + 1 PROVE h[s] = g[s]
    <3> DEFINE y == CHOOSE x \in s : TRUE
    <3>1. s # {} /\ y \in s
      BY <2>1, <1>1, FS_EmptySet
    <3>2. Cardinality(s \ {y}) = n
      <4>1. Cardinality(s \ {y}) = Cardinality(s) - 1
        BY <1>1, <3>1, FS_RemoveElement
      <4>. QED
        BY <2>1, <4>1
    <3>3. h[s \ {y}] = g[s \ {y}]
      BY <1>4, <3>2
    <3>4. h[s] = f[y] + h[s \ {y}]
      BY <1>2, <3>1
    <3>5. g[s] = f[y] + g[s \ {y}]
      BY <3>1 DEF Sums
    <3>. QED
      BY <3>3, <3>4, <3>5
  <2>. QED
    BY <2>1
<1> HIDE DEF P
<1>5. Nat \subseteq P
  BY <1>3, <1>4, Induction
<1>6. Cardinality(S) \in Nat
  BY <1>1, FS_CardinalityType
<1>. QED
  BY <1>5, <1>6 DEF P

(* The sum itself is computed as the fold does. *)
LEMMA SumFolds ==
    ASSUME NEW D, NEW f, NEW g, Sums(g, f, D), NEW S \in SUBSET D
    PROVE  Folded([s \in SUBSET S |-> g[s]], f, S)
<1> DEFINE h == [s \in SUBSET S |-> g[s]]
<1>1. ASSUME NEW s \in SUBSET S
      PROVE  g[s] = IF s = {} THEN 0
                    ELSE f[CHOOSE x \in s : TRUE] + h[s \ {CHOOSE x \in s : TRUE}]
  <2>1. CASE s = {}
    BY <2>1 DEF Sums
  <2>2. CASE s # {}
    <3> DEFINE y == CHOOSE x \in s : TRUE
    <3>1. y \in s
      BY <2>2
    <3>2. g[s] = f[y] + g[s \ {y}]
      BY <3>1 DEF Sums
    <3>3. h[s \ {y}] = g[s \ {y}]
      OBVIOUS
    <3>. QED
      BY <2>2, <3>2, <3>3
  <2>. QED
    BY <2>1, <2>2
<1>. QED
  BY <1>1 DEF Folded

(* So SumOf is the sum. *)
LEMMA SumIs ==
    ASSUME NEW D, IsFiniteSet(D), NEW f, NEW g, Sums(g, f, D), NEW S \in SUBSET D
    PROVE  SumOf(f, S) = g[S]
<1> DEFINE h == CHOOSE h : Folded(h, f, S)
<1>1. \E k : Folded(k, f, S)
  BY SumFolds
<1>2. Folded(h, f, S)
  <2> HIDE DEF Folded
  <2>. QED
    BY <1>1
<1>3. SumOf(f, S) = h[S]
  BY DEF SumOf, MapThenSumSet, MapThenFoldSet, Folded
<1> HIDE DEF h
<1>. QED
  BY <1>2, <1>3, FoldIsSum

(* What the sum is of no elements, and of one more. *)
LEMMA SumFacts ==
    ASSUME NEW D, IsFiniteSet(D), NEW f \in [D -> Nat], NEW S \in SUBSET D
    PROVE  /\ SumOf(f, S) \in Nat /\ SumOf(f, {}) = 0
           /\ \A x \in S : SumOf(f, S) = f[x] + SumOf(f, S \ {x}) /\ SumOf(f, S \ {x}) \in Nat
           /\ \A x \in D \ S : SumOf(f, S \cup {x}) = f[x] + SumOf(f, S)
<1>1. PICK g : Sums(g, f, D)
  BY SumsExist
<1>2. \A T \in SUBSET D : SumOf(f, T) = g[T] /\ g[T] \in Nat
  <2>1. \A T \in SUBSET D : SumOf(f, T) = g[T]
    BY <1>1, SumIs
  <2>2. \A T \in SUBSET D : g[T] \in Nat
    BY <1>1 DEF Sums
  <2>. QED
    BY <2>1, <2>2
<1>3. SumOf(f, S) \in Nat /\ SumOf(f, {}) = 0
  BY <1>1, <1>2 DEF Sums
<1>4. ASSUME NEW x \in S
      PROVE  SumOf(f, S) = f[x] + SumOf(f, S \ {x}) /\ SumOf(f, S \ {x}) \in Nat
  BY <1>1, <1>2 DEF Sums
<1>5. ASSUME NEW x \in D \ S PROVE SumOf(f, S \cup {x}) = f[x] + SumOf(f, S)
  <2>1. (S \cup {x}) \ {x} = S /\ S \cup {x} \in SUBSET D /\ x \in S \cup {x}
    OBVIOUS
  <2>2. g[S \cup {x}] = f[x] + g[S]
    BY <1>1, <2>1 DEF Sums
  <2>. QED
    BY <1>2, <2>1, <2>2
<1>. QED
  BY <1>3, <1>4, <1>5

(* Sums of the same numbers are the same. *)
LEMMA SumsAgree ==
    ASSUME NEW D, IsFiniteSet(D), NEW f \in [D -> Nat],
           NEW E, IsFiniteSet(E), NEW h \in [E -> Nat],
           NEW S, S \subseteq D, S \subseteq E, \A x \in S : f[x] = h[x]
    PROVE  SumOf(f, S) = SumOf(h, S)
<1> DEFINE P == {T \in SUBSET S : SumOf(f, T) = SumOf(h, T)}
<1>1. {} \in P
  <2>1. SumOf(f, {}) = 0 /\ SumOf(h, {}) = 0
    BY SumFacts
  <2>. QED
    BY <2>1
<1>2. ASSUME NEW T \in SUBSET S, NEW x \in S \ T, T \in P PROVE T \cup {x} \in P
  <2>1. T \in SUBSET D /\ x \in D \ T /\ T \in SUBSET E /\ x \in E \ T
    OBVIOUS
  <2>2. SumOf(f, T \cup {x}) = f[x] + SumOf(f, T)
    BY <2>1, SumFacts
  <2>3. SumOf(h, T \cup {x}) = h[x] + SumOf(h, T)
    BY <2>1, SumFacts
  <2>4. SumOf(f, T) = SumOf(h, T) /\ f[x] = h[x]
    BY <1>2
  <2>. QED
    BY <2>2, <2>3, <2>4
<1> HIDE DEF P
<1>3. IsFiniteSet(S)
  BY FS_Subset
<1>4. S \in P
  BY <1>1, <1>2, <1>3, SetInduction
<1>. QED
  BY <1>4 DEF P

(* A larger set has no smaller sum, and the same one if only zeros are added. *)
LEMMA SumGrows ==
    ASSUME NEW D, IsFiniteSet(D), NEW f \in [D -> Nat], NEW S \in SUBSET D
    PROVE  /\ SumOf(f, S) <= SumOf(f, D)
           /\ (\A x \in D \ S : f[x] = 0) => SumOf(f, S) = SumOf(f, D)
<1> DEFINE P == {T \in SUBSET (D \ S) :
                   /\ SumOf(f, S) <= SumOf(f, S \cup T)
                   /\ (\A x \in T : f[x] = 0) => SumOf(f, S) = SumOf(f, S \cup T)}
<1>1. {} \in P
  <2>1. S \cup {} = S /\ SumOf(f, S) \in Nat
    BY SumFacts
  <2>. QED
    BY <2>1
<1>2. ASSUME NEW T \in SUBSET (D \ S), NEW x \in (D \ S) \ T, T \in P PROVE T \cup {x} \in P
  <2>1. S \cup T \in SUBSET D /\ x \in D \ (S \cup T) /\ S \cup (T \cup {x}) = (S \cup T) \cup {x}
    OBVIOUS
  <2>2. /\ SumOf(f, S \cup (T \cup {x})) = f[x] + SumOf(f, S \cup T)
        /\ SumOf(f, S \cup T) \in Nat /\ f[x] \in Nat /\ SumOf(f, S) \in Nat
    BY <2>1, SumFacts
  <2>. QED
    BY <1>2, <2>2
<1> HIDE DEF P
<1>3. IsFiniteSet(D \ S)
  BY FS_Subset
<1>4. D \ S \in P
  BY <1>1, <1>2, <1>3, SetInduction
<1>5. S \cup (D \ S) = D
  OBVIOUS
<1>. QED
  BY <1>4, <1>5 DEF P

(* The sum of one column of a table. *)
LEMMA ColumnSum ==
    ASSUME NEW a, NEW n, NEW S, IsFiniteSet(S), \A c \in S : a[c][n] \in Nat
    PROVE  MapThenSumSet(LAMBDA c : a[c][n], S) = SumOf([c \in S |-> a[c][n]], S)
<1> DEFINE f == [c \in S |-> a[c][n]]
           Fold(h) == h = [s \in SUBSET S |->
                             IF s = {} THEN 0
                             ELSE a[CHOOSE x \in s : TRUE][n] + h[s \ {CHOOSE x \in s : TRUE}]]
           h == CHOOSE h : Fold(h)
<1>1. f \in [S -> Nat]
  OBVIOUS
<1>2. MapThenSumSet(LAMBDA c : a[c][n], S) = h[S]
  BY DEF MapThenSumSet, MapThenFoldSet
<1>3. PICK g : Sums(g, f, S)
  BY <1>1, SumsExist
<1>4. ASSUME NEW k PROVE Fold(k) <=> Folded(k, f, S)
  <2>1. ASSUME NEW s \in SUBSET S, s # {}
        PROVE  f[CHOOSE x \in s : TRUE] = a[CHOOSE x \in s : TRUE][n]
    BY <2>1
  <2>2. \A s \in SUBSET S :
          (IF s = {} THEN 0 ELSE f[CHOOSE x \in s : TRUE] + k[s \ {CHOOSE x \in s : TRUE}])
          = (IF s = {} THEN 0 ELSE a[CHOOSE x \in s : TRUE][n] + k[s \ {CHOOSE x \in s : TRUE}])
    BY <2>1
  <2> HIDE DEF f
  <2>. QED
    BY <2>2 DEF Folded
<1>5. \E k : Fold(k)
  <2>1. Folded([s \in SUBSET S |-> g[s]], f, S)
    BY <1>3, SumFolds
  <2> HIDE DEF Fold, f
  <2>. QED
    BY <1>4, <2>1
<1>6. Fold(h)
  <2> HIDE DEF Fold
  <2>. QED
    BY <1>5
<1>7. Folded(h, f, S)
  BY <1>4, <1>6
<1> HIDE DEF h, f, Fold
<1>8. h[S] = g[S]
  BY <1>3, <1>7, FoldIsSum
<1>9. SumOf(f, S) = g[S]
  BY <1>3, SumIs
<1>. QED
  BY <1>2, <1>8, <1>9 DEF f

(* No choice of as many elements has more than the largest ones. *)
LEMMA LargestAreMost ==
    ASSUME NEW U, IsFiniteSet(U), NEW f \in [U -> Nat], NEW E \in SUBSET U,
           \A n \in E, m \in U \ E : f[n] >= f[m],
           NEW S \in SUBSET U, Cardinality(S) <= Cardinality(E)
    PROVE  SumOf(f, S) <= SumOf(f, E)
<1> DEFINE P == {k \in Nat : \A T \in SUBSET U :
                   Cardinality(T) <= Cardinality(E) /\ Cardinality(T \ E) = k =>
                     SumOf(f, T) <= SumOf(f, E)}
<1>1. \A T \in SUBSET U : IsFiniteSet(T) /\ Cardinality(T) \in Nat /\ SumOf(f, T) \in Nat
  <2>1. \A T \in SUBSET U : IsFiniteSet(T)
    BY FS_Subset
  <2>2. \A T \in SUBSET U : Cardinality(T) \in Nat
    BY <2>1, FS_CardinalityType
  <2>3. \A T \in SUBSET U : SumOf(f, T) \in Nat
    BY SumFacts
  <2>. QED
    BY <2>1, <2>2, <2>3
<1>2. 0 \in P
  <2>1. ASSUME NEW T \in SUBSET U, Cardinality(T \ E) = 0 PROVE SumOf(f, T) <= SumOf(f, E)
    <3>1. T \ E = {}
      <4>1. IsFiniteSet(T \ E)
        BY <1>1, FS_Subset
      <4>. QED
        BY <2>1, <4>1, FS_EmptySet
    <3>2. T \in SUBSET E /\ IsFiniteSet(E)
      BY <1>1, <3>1
    <3> DEFINE e == [x \in E |-> f[x]]
    <3>3. e \in [E -> Nat]
      OBVIOUS
    <3>4. SumOf(e, T) <= SumOf(e, E)
      <4> HIDE DEF e
      <4>. QED
        BY <3>2, <3>3, SumGrows
    <3>5. \A x \in E : f[x] = e[x]
      OBVIOUS
    <3> HIDE DEF e
    <3>6. SumOf(f, T) = SumOf(e, T)
      BY <3>2, <3>3, <3>5, SumsAgree
    <3>7. SumOf(f, E) = SumOf(e, E)
      BY <3>2, <3>3, <3>5, SumsAgree
    <3>. QED
      BY <3>4, <3>6, <3>7
  <2>. QED
    BY <2>1
<1>3. ASSUME NEW k \in Nat, k \in P PROVE k + 1 \in P
  <2>1. ASSUME NEW T \in SUBSET U, Cardinality(T) <= Cardinality(E), Cardinality(T \ E) = k + 1
        PROVE  SumOf(f, T) <= SumOf(f, E)
    <3>1. PICK m : m \in T \ E
      <4>1. T \ E # {}
        <5>1. Cardinality({}) = 0 /\ k + 1 # 0
          BY FS_EmptySet
        <5>. QED
          BY <2>1, <5>1
      <4>. QED
        BY <4>1
    <3>2. PICK n : n \in E \ T
      <4>1. ASSUME E \ T = {} PROVE FALSE
        <5>1. E \in SUBSET T /\ IsFiniteSet(T) /\ Cardinality(E) \in Nat /\ Cardinality(T) \in Nat
          BY <1>1, <4>1
        <5>2. Cardinality(E) <= Cardinality(T)
          BY <5>1, FS_Subset
        <5>3. Cardinality(T) = Cardinality(E)
          BY <2>1, <5>1, <5>2
        <5>4. T = E
          BY <5>1, <5>3, FS_Subset
        <5>. QED
          BY <3>1, <5>4
      <4>. QED
        BY <4>1
    <3> DEFINE R == T \ {m}
               V == R \cup {n}
    <3>3. R \in SUBSET U /\ V \in SUBSET U /\ n \in U \ R /\ m \in T /\ n \notin R
      BY <3>1, <3>2
    <3>4. Cardinality(V) = Cardinality(T)
      <4>1. Cardinality(R) = Cardinality(T) - 1 /\ IsFiniteSet(R)
        BY <1>1, <3>3, FS_RemoveElement
      <4>2. Cardinality(V) = Cardinality(R) + 1
        BY <3>3, <4>1, FS_AddElement
      <4>3. Cardinality(T) \in Nat
        BY <1>1
      <4> HIDE DEF V, R
      <4>. QED
        BY <4>1, <4>2, <4>3
    <3>5. Cardinality(V \ E) = k
      <4>1. V \ E = (T \ E) \ {m} /\ T \ E \in SUBSET U
        BY <3>1, <3>2
      <4>2. Cardinality((T \ E) \ {m}) = Cardinality(T \ E) - 1
        BY <1>1, <3>1, <4>1, FS_RemoveElement
      <4>3. Cardinality(T \ E) - 1 = k
        BY <2>1
      <4>. QED
        BY <4>1, <4>2, <4>3
    <3>6. SumOf(f, V) <= SumOf(f, E)
      BY <1>3, <2>1, <3>3, <3>4, <3>5
    <3>7. SumOf(f, T) = f[m] + SumOf(f, R)
      BY <3>3, SumFacts
    <3>8. SumOf(f, V) = f[n] + SumOf(f, R)
      BY <3>3, SumFacts
    <3>9. f[n] >= f[m]
      BY <3>1, <3>2
    <3>10. /\ f[n] \in Nat /\ f[m] \in Nat /\ SumOf(f, R) \in Nat
           /\ SumOf(f, E) \in Nat
      BY <1>1, <3>1, <3>2, <3>3
    <3> HIDE DEF R, V
    <3>. QED
      BY <3>6, <3>7, <3>8, <3>9, <3>10
  <2>. QED
    BY <2>1
<1> HIDE DEF P
<1>4. Nat \subseteq P
  BY <1>2, <1>3, Induction
<1>5. Cardinality(S \ E) \in Nat
  BY <1>1
<1>. QED
  BY <1>4, <1>5 DEF P
=============================================================================
