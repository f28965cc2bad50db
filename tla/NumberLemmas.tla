------------------------------ MODULE NumberLemmas ------------------------------
(***************************************************************************)
(* Numbers, for the proofs: MIN and MAX of the queries exist whenever      *)
(* there are rows, the sets they are taken of are finite, and what a       *)
(* replay of a history computes is defined and known by induction on the   *)
(* number of its events.                                                   *)
(***************************************************************************)
EXTENDS WellFoundedInduction, FiniteSetTheorems, TLAPS

(* A set of numbers has a least one, and a bounded one a greatest.         *)
LEMMA LeastNumber ==
    ASSUME NEW T, T \subseteq Nat, T # {}
    PROVE  \E x \in T : \A y \in T : x <= y
<1>1. PICK x \in T : \A y \in T : ~ (<<y, x>> \in OpToRel(<, Nat))
  BY NatLessThanWellFounded, WFMin
<1>2. \A y \in T : ~ (y < x)
  BY <1>1 DEF OpToRel
<1> QED
  BY <1>2

LEMMA GreatestNumber ==
    ASSUME NEW n \in Int, NEW T, T \subseteq 1 .. n, T # {}
    PROVE  \E x \in T : \A y \in T : y <= x
<1> DEFINE D == {n - x : x \in T}
<1>1. \A x \in T : x \in Int /\ n - x \in Nat
  <2>1. \A x \in T : x \in 1 .. n
    BY Zenon
  <2> QED
    BY <2>1
<1>2. D \subseteq Nat /\ D # {}
  <2>1. \A d \in D : d \in Nat
    BY <1>1
  <2>2. PICK x : x \in T
    OBVIOUS
  <2>3. n - x \in D
    BY <2>2
  <2> QED
    BY <2>1, <2>3, Zenon
<1>3. PICK d \in D : \A e \in D : d <= e
  <2> HIDE DEF D
  <2> QED
    BY <1>2, LeastNumber
<1>4. PICK x \in T : d = n - x
  OBVIOUS
<1>5. ASSUME NEW y \in T PROVE y <= x
  <2>1. d <= n - y
    BY <1>3
  <2> QED
    BY <1>1, <1>4, <2>1
<1> QED
  BY <1>4, <1>5

(* Induction, on the set of the numbers that have a property.              *)
LEMMA Induction ==
    ASSUME NEW T, T \subseteq Nat, 0 \in T, \A n \in T : n + 1 \in T
    PROVE  T = Nat
<1> DEFINE missing == Nat \ T
<1>1. ASSUME missing # {} PROVE FALSE
  <2>1. PICK x \in missing : \A y \in missing : x <= y
    <3>1. missing \subseteq Nat
      OBVIOUS
    <3> HIDE DEF missing
    <3> QED
      BY <1>1, <3>1, LeastNumber
  <2>2. x # 0 /\ x - 1 \in Nat /\ x - 1 \notin missing
    BY <2>1
  <2>3. (x - 1) + 1 \in T
    BY <2>2
  <2> QED
    BY <2>1, <2>3
<1> QED
  BY <1>1

(* A recursive definition on the numbers has a solution.                   *)
Steps(V) == [Nat -> [V -> V]]

Runs(f, base, step) ==
    f[0] = base /\ \A n \in Nat : n # 0 => f[n] = step[n][f[n - 1]]

LEMMA RecursionOverNat ==
    ASSUME NEW V, NEW base \in V, NEW step \in Steps(V)
    PROVE  \E f \in [Nat -> V] : Runs(f, base, step)
<1> USE DEF Steps
<1> DEFINE Good(f, n) ==
        \A m \in 0 .. n : f[m] = IF m = 0 THEN base ELSE step[m][f[m - 1]]
<1>1. \A n \in Nat : \E f \in [0 .. n -> V] : Good(f, n)
  <2> DEFINE T == {n \in Nat : \E f \in [0 .. n -> V] : Good(f, n)}
  <2>1. 0 \in T
    <3>1. [m \in 0 .. 0 |-> base] \in [0 .. 0 -> V] /\ Good([m \in 0 .. 0 |-> base], 0)
      OBVIOUS
    <3> QED
      BY <3>1
  <2>2. ASSUME NEW n \in T PROVE n + 1 \in T
    <3>1. n \in Nat
      OBVIOUS
    <3>2. PICK f \in [0 .. n -> V] : Good(f, n)
      OBVIOUS
    <3> DEFINE g == [m \in 0 .. n + 1 |-> IF m = n + 1 THEN step[n + 1][f[n]] ELSE f[m]]
    <3>3. step[n + 1][f[n]] \in V
      <4>1. f[n] \in V /\ n + 1 \in Nat
        BY <3>1, <3>2
      <4> QED
        BY <4>1
    <3>4. g \in [0 .. n + 1 -> V]
      BY <3>1, <3>2, <3>3
    <3>5. ASSUME NEW m \in 0 .. n + 1
          PROVE  g[m] = IF m = 0 THEN base ELSE step[m][g[m - 1]]
      <4>1. CASE m = n + 1
        <5>1. g[m - 1] = f[n] /\ g[m] = step[n + 1][f[n]] /\ m # 0
          BY <3>1, <4>1
        <5> HIDE DEF g
        <5> QED
          BY <4>1, <5>1
      <4>2. CASE m # n + 1
        <5>1. m \in 0 .. n /\ g[m] = f[m] /\ (m # 0 => g[m - 1] = f[m - 1])
          BY <3>1, <4>2
        <5> QED
          BY <3>2, <5>1
      <4> QED
        BY <4>1, <4>2
    <3>6. Good(g, n + 1)
      BY <3>5
    <3> HIDE DEF g, Good
    <3> QED
      BY <3>1, <3>4, <3>6
  <2>3. T = Nat
    <3>1. T \subseteq Nat
      OBVIOUS
    <3> HIDE DEF T
    <3> QED
      BY <2>1, <2>2, <3>1, Induction
  <2> QED
    BY <2>3
<1>2. ASSUME NEW n \in Nat, NEW k \in Nat, NEW f, NEW g, Good(f, n), Good(g, k)
      PROVE  \A m \in Nat : m <= n /\ m <= k => f[m] = g[m]
  <2> DEFINE T == {m \in Nat : m <= n /\ m <= k => f[m] = g[m]}
  <2>1. 0 \in T
    BY <1>2
  <2>2. ASSUME NEW m \in T PROVE m + 1 \in T
    BY <1>2
  <2>3. T = Nat
    <3>1. T \subseteq Nat
      OBVIOUS
    <3> HIDE DEF T
    <3> QED
      BY <2>1, <2>2, <3>1, Induction
  <2> QED
    BY <2>3
<1> DEFINE upTo(n) == CHOOSE f \in [0 .. n -> V] : Good(f, n)
           whole == [n \in Nat |-> upTo(n)[n]]
<1>3. \A n \in Nat : upTo(n) \in [0 .. n -> V] /\ Good(upTo(n), n)
  <2> HIDE DEF Good
  <2> QED
    BY <1>1
<1> HIDE DEF upTo
<1>4. \A n \in Nat : upTo(n)[n] \in V
  <2> SUFFICES ASSUME NEW n \in Nat PROVE upTo(n)[n] \in V
    OBVIOUS
  <2>1. upTo(n) \in [0 .. n -> V] /\ n \in 0 .. n
    BY <1>3
  <2> QED
    BY <2>1
<1>5. ASSUME NEW n \in Nat PROVE whole[n] = IF n = 0 THEN base ELSE step[n][whole[n - 1]]
  <2>1. upTo(n)[n] = IF n = 0 THEN base ELSE step[n][upTo(n)[n - 1]]
    <3>1. Good(upTo(n), n) /\ n \in 0 .. n
      BY <1>3
    <3> QED
      BY <3>1
  <2>2. n # 0 => upTo(n)[n - 1] = upTo(n - 1)[n - 1]
    <3>1. n # 0 => n - 1 \in Nat /\ n - 1 <= n /\ n - 1 <= n - 1
      OBVIOUS
    <3> HIDE DEF Good
    <3> QED
      BY <1>2, <1>3, <3>1
  <2>3. whole[n] = upTo(n)[n] /\ (n # 0 => whole[n - 1] = upTo(n - 1)[n - 1])
    OBVIOUS
  <2> HIDE DEF whole
  <2> QED
    BY <2>1, <2>2, <2>3
<1>6. whole[0] = base /\ \A n \in Nat : n # 0 => whole[n] = step[n][whole[n - 1]]
  <2> HIDE DEF whole
  <2> QED
    BY <1>5
<1>7. whole \in [Nat -> V]
  BY <1>4
<1> HIDE DEF whole
<1> QED
  BY <1>6, <1>7 DEF Runs

----------------------------------------------------------------------------
(* A finite set of numbers is bounded, so it has a greatest one; and an    *)
(* image of a finite set is finite.                                        *)
LEMMA GreatestOfFinite ==
    ASSUME NEW S, S \subseteq Nat, S # {}, IsFiniteSet(S)
    PROVE  \E x \in S : \A y \in S : y <= x
<1> DEFINE Bounded(R) == \E b \in Nat : \A y \in R : y <= b
           T == {n \in Nat : \A R \in SUBSET Nat :
                    IsFiniteSet(R) /\ Cardinality(R) = n => Bounded(R)}
<1>1. 0 \in T
  <2> SUFFICES ASSUME NEW R \in SUBSET Nat, IsFiniteSet(R), Cardinality(R) = 0
               PROVE  Bounded(R)
    OBVIOUS
  <2>1. R = {}
    BY FS_EmptySet
  <2> QED
    BY <2>1
<1>2. \A n \in T : n + 1 \in T
  <2> SUFFICES ASSUME NEW n \in T, NEW R \in SUBSET Nat, IsFiniteSet(R), Cardinality(R) = n + 1
               PROVE  Bounded(R)
    <3>1. \A n \in T : n \in Nat
      OBVIOUS
    <3>2. \A m \in Nat : m \in T <=> \A R \in SUBSET Nat :
                IsFiniteSet(R) /\ Cardinality(R) = m => Bounded(R)
      BY Zenon
    <3> HIDE DEF T, Bounded
    <3> SUFFICES ASSUME NEW n \in T PROVE n + 1 \in T
      OBVIOUS
    <3>3. n + 1 \in Nat
      BY <3>1
    <3> QED
      BY <3>2, <3>3
  <2>1. n \in Nat /\ R # {}
    BY FS_EmptySet
  <2>2. PICK x \in R : TRUE
    BY <2>1
  <2>3. IsFiniteSet(R \ {x}) /\ Cardinality(R \ {x}) = n /\ R \ {x} \in SUBSET Nat
    <3>1. IsFiniteSet(R \ {x}) /\ Cardinality(R \ {x}) = Cardinality(R) - 1
      BY <2>2, FS_RemoveElement, Zenon
    <3> QED
      BY <2>1, <3>1
  <2>4. Bounded(R \ {x})
    BY <2>1, <2>3
  <2>5. PICK b \in Nat : \A y \in R \ {x} : y <= b
    BY <2>4
  <2>6. CASE x <= b
    BY <2>2, <2>5, <2>6
  <2>7. CASE b <= x
    <3>1. x \in Nat /\ \A y \in R : y \in Nat
      BY <2>2
    <3>2. \A y \in R : y <= x
      BY <2>5, <2>7, <3>1
    <3> QED
      BY <3>1, <3>2
  <2> QED
    BY <2>2, <2>6, <2>7
<1>3. T \subseteq Nat
  OBVIOUS
<1> HIDE DEF T
<1>4. T = Nat
  BY <1>1, <1>2, <1>3, Induction
<1>5. Bounded(S)
  <2>1. Cardinality(S) \in T
    BY <1>4, FS_CardinalityType
  <2> QED
    BY <2>1 DEF T
<1>6. PICK b \in Nat : \A y \in S : y <= b
  BY <1>5
<1> HIDE DEF Bounded
<1>7. CASE 0 \notin S
  <2>1. S \subseteq 1 .. b
    BY <1>6, <1>7
  <2> QED
    BY <2>1, b \in Int, GreatestNumber, Zenon
<1>8. CASE 0 \in S
  <2>1. CASE S \ {0} = {}
    BY <1>8, <2>1
  <2>2. CASE S \ {0} # {}
    <3>1. S \ {0} \subseteq 1 .. b
      BY <1>6
    <3>2. PICK x \in S \ {0} : \A y \in S \ {0} : y <= x
      BY <2>2, <3>1, b \in Int, GreatestNumber, Zenon
    <3>3. x \in Nat
      OBVIOUS
    <3> QED
      BY <3>2, <3>3
  <2> QED
    BY <2>1, <2>2
<1> QED
  BY <1>7, <1>8

LEMMA ImageIsFinite ==
    ASSUME NEW S, IsFiniteSet(S), NEW f, NEW T, T \subseteq {f[x] : x \in S}
    PROVE  IsFiniteSet(T)
<1> DEFINE g == [x \in S |-> f[x]]
           R == {f[x] : x \in S}
<1>1. g \in Surjection(S, R)
  BY DEF Surjection
<1>2. IsFiniteSet(R)
  BY <1>1, FS_Surjection, Zenon
<1> QED
  BY <1>2, FS_Subset

=============================================================================
