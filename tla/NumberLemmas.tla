---------------------------- MODULE NumberLemmas ----------------------------
(***************************************************************************)
(* Facts about numbers that the proofs of several components rest on.       *)
(*                                                                         *)
(* Induction is stated with a set in place of a predicate, the set of the   *)
(* numbers the claim is true of, and recursion with a function in place of  *)
(* an operator, so that first-order provers can instantiate them.          *)
(***************************************************************************)
EXTENDS Integers, FiniteSetTheorems, WellFoundedInduction, TLAPS

-----------------------------------------------------------------------------
(* Induction and recursion.                                                *)

\* Every set of naturals that is not empty has a least element.
LEMMA LeastNumber ==
  ASSUME NEW T, T \subseteq Nat, T # {}
  PROVE  \E m \in T : \A k \in T : m <= k
  <1> DEFINE R == OpToRel(<, Nat)
  <1>1. IsWellFoundedOn(R, Nat)
    BY NatLessThanWellFounded
  <1>2. \A x, y \in Nat : x < y => <<x, y>> \in R
    BY DEF OpToRel
  <1> HIDE DEF R
  <1>3. PICK m \in T : \A k \in T : ~(<<k, m>> \in R)
    BY <1>1, WFMin
  <1>4. ASSUME NEW k \in T PROVE m <= k
    <2>1. m \in Nat /\ k \in Nat /\ ~(k < m)
      BY <1>2, <1>3
    <2> QED
      BY <2>1
  <1> QED
    BY <1>3, <1>4

\* What holds of 0, and of n + 1 whenever of n, holds of every number up to m.
LEMMA InductionUpTo ==
  ASSUME NEW m \in Nat, NEW S, 0 \in S, \A n \in 0..(m - 1) : n \in S => n + 1 \in S
  PROVE  0..m \subseteq S
  <1> DEFINE T == (0..m) \ S
  <1> SUFFICES ASSUME T # {} PROVE FALSE
    OBVIOUS
  <1>1. T \subseteq Nat
    OBVIOUS
  <1>2. PICK k \in T : \A n \in T : k <= n
    <2> HIDE DEF T
    <2> QED
      BY <1>1, LeastNumber
  <1>3. k \in 1..m /\ k - 1 \in 0..(m - 1)
    BY <1>2
  <1>4. k - 1 \in S
    BY <1>2, <1>3
  <1> QED
    BY <1>2, <1>3, <1>4

\* The steps of a recursion over 1..m with values in X, and the function that starts
\* at base and goes on by one of them.
StepsOver(m, X) == [X \X (1..m) -> X]

Follows(m, X, base, step, g) ==
  /\ g \in [0..m -> X]
  /\ g[0] = base
  /\ \A i \in 1..m : g[i] = step[<<g[i - 1], i>>]

\* There is such a function.
LEMMA RecursionUpTo ==
  ASSUME NEW m \in Nat, NEW X, NEW base \in X, NEW step \in StepsOver(m, X)
  PROVE  \E g : Follows(m, X, base, step, g)
  <1>0. \A x \in X, i \in 1..m : step[<<x, i>>] \in X
    BY DEF StepsOver
  <1> DEFINE Goes(n, g) == g[0] = base /\ \A i \in 1..n : g[i] = step[<<g[i - 1], i>>]
             S == { n \in 0..m : \E g \in [0..n -> X] : Goes(n, g) }
  <1>1. 0 \in S
    <2> DEFINE g == [i \in 0..0 |-> base]
    <2>1. g \in [0..0 -> X] /\ Goes(0, g)
      OBVIOUS
    <2>2. 0 \in 0..m
      OBVIOUS
    <2> HIDE DEF g, Goes
    <2> QED
      BY <2>1, <2>2
  <1>2. ASSUME NEW n \in 0..(m - 1), n \in S PROVE n + 1 \in S
    <2>1. PICK g \in [0..n -> X] : Goes(n, g)
      BY <1>2
    <2> DEFINE h == [i \in 0..(n + 1) |-> IF i = n + 1 THEN step[<<g[n], n + 1>>] ELSE g[i]]
    <2>2. g[n] \in X /\ n + 1 \in 1..m /\ n \in Nat
      OBVIOUS
    <2>3. step[<<g[n], n + 1>>] \in X
      BY <1>0, <2>2
    <2>4. \A i \in 0..n : i \in 0..(n + 1) /\ i # n + 1 /\ h[i] = g[i]
      OBVIOUS
    <2>5. h[n + 1] = step[<<g[n], n + 1>>]
      BY <2>2
    <2>6. h \in [0..(n + 1) -> X]
      BY <2>2, <2>3
    <2> HIDE DEF h
    <2>7. ASSUME NEW i \in 1..(n + 1) PROVE h[i] = step[<<h[i - 1], i>>]
      <3>1. CASE i = n + 1
        <4>1. i - 1 = n /\ n \in 0..n
          BY <2>2, <3>1
        <4>2. h[i - 1] = g[n]
          BY <2>4, <4>1
        <4> QED
          BY <2>5, <3>1, <4>2
      <3>2. CASE i # n + 1
        <4>1. i \in 1..n /\ i \in 0..n /\ i - 1 \in 0..n
          BY <2>2, <3>2
        <4>2. h[i] = g[i] /\ h[i - 1] = g[i - 1]
          BY <2>4, <4>1
        <4> QED
          BY <2>1, <4>1, <4>2
      <3> QED
        BY <3>1, <3>2
    <2>8. h[0] = base
      <3>1. 0 \in 0..n
        BY <2>2
      <3> QED
        BY <2>1, <2>4, <3>1
    <2>9. Goes(n + 1, h)
      BY <2>7, <2>8
    <2>10. n + 1 \in 0..m
      BY <2>2
    <2> QED
      BY <2>6, <2>9, <2>10
  <1>3. m \in S
    <2> HIDE DEF S
    <2>1. 0..m \subseteq S
      BY <1>1, <1>2, InductionUpTo
    <2> QED
      BY <2>1
  <1> QED
    BY <1>3 DEF Follows

-----------------------------------------------------------------------------
(* Remainders.                                                             *)

LEMMA DivMod ==
  ASSUME NEW m \in Nat \ {0}, NEW a \in Int
  PROVE  a = m * (a \div m) + (a % m) /\ a % m \in 0..(m - 1) /\ a \div m \in Int
  OBVIOUS

LEMMA ProductMonotone ==
  ASSUME NEW m \in Nat \ {0}, NEW p \in Int, NEW q \in Int, p < q
  PROVE  m * p + m <= m * q
  <1>1. m * p + m = m * (p + 1)
    OBVIOUS
  <1>2. m * (p + 1) <= m * q
    OBVIOUS
  <1> QED
    BY <1>1, <1>2

\* A remainder is found by writing the number as a multiple and a rest.
LEMMA RemainderIs ==
  ASSUME NEW m \in Nat \ {0}, NEW q \in Int, NEW r \in 0..(m - 1), NEW a \in Int, a = m * q + r
  PROVE  a % m = r
  <1> DEFINE p == a \div m
             s == a % m
  <1>1. a = m * p + s /\ s \in 0..(m - 1) /\ p \in Int
    BY DivMod
  <1> HIDE DEF p, s
  <1>2. ~(p < q)
    <2> SUFFICES ASSUME p < q PROVE FALSE
      OBVIOUS
    <2>1. m * p + m <= m * q /\ m * p \in Int /\ m * q \in Int
      BY <1>1, ProductMonotone
    <2> QED
      BY <1>1, <2>1
  <1>3. ~(q < p)
    <2> SUFFICES ASSUME q < p PROVE FALSE
      OBVIOUS
    <2>1. m * q + m <= m * p /\ m * p \in Int /\ m * q \in Int
      BY <1>1, ProductMonotone
    <2> QED
      BY <1>1, <2>1
  <1>4. p = q /\ m * q \in Int
    BY <1>1, <1>2, <1>3
  <1>5. s = r
    BY <1>1, <1>4
  <1> QED
    BY <1>5 DEF s

\* Going on by a whole period keeps the remainder.
LEMMA RemainderOfNext ==
  ASSUME NEW m \in Nat \ {0}, NEW a \in Int
  PROVE  (a + m) % m = a % m
  <1> DEFINE p == a \div m
             s == a % m
  <1>1. a = m * p + s /\ s \in 0..(m - 1) /\ p \in Int
    BY DivMod
  <1> HIDE DEF p, s
  <1>2. a + m = m * (p + 1) + s /\ p + 1 \in Int /\ a + m \in Int
    BY <1>1
  <1>3. (a + m) % m = s
    BY <1>1, <1>2, RemainderIs
  <1> QED
    BY <1>3 DEF s

-----------------------------------------------------------------------------
(* Sums over finite sets.  The library's MapThenSumSet takes the elements   *)
(* out one by one, as CHOOSE picks them; the sum does not depend on that.   *)

Picked(T) == CHOOSE x \in T : TRUE

SumBody(w, D, h) ==
  [T \in SUBSET D |-> IF T = {} THEN 0 ELSE w[Picked(T)] + h[T \ {Picked(T)}]]

LEMMA PickedIn ==
  ASSUME NEW D, IsFiniteSet(D), NEW T \in SUBSET D, T # {}
  PROVE  /\ Picked(T) \in T /\ Picked(T) \in D /\ T \ {Picked(T)} \in SUBSET D
         /\ Cardinality(T) \in Nat \ {0}
         /\ \A x \in T : Cardinality(T \ {x}) = Cardinality(T) - 1
  <1>1. Picked(T) \in T
    BY DEF Picked
  <1>2. IsFiniteSet(T)
    BY FS_Subset
  <1>3. Cardinality(T) \in Nat /\ Cardinality(T) # 0
    BY <1>2, FS_CardinalityType, FS_EmptySet
  <1>4. \A x \in T : Cardinality(T \ {x}) = Cardinality(T) - 1
    BY <1>2, FS_RemoveElement
  <1> QED
    BY <1>1, <1>3, <1>4

\* Two functions that both sum are equal where both are defined.
LEMMA SumUnique ==
  ASSUME NEW D, IsFiniteSet(D), NEW S \in SUBSET D, NEW w,
         NEW g, g = SumBody(w, S, g), NEW h, h = SumBody(w, D, h)
  PROVE  \A T \in SUBSET S : g[T] = h[T]
  <1> DEFINE Agree == { n \in Nat : \A T \in SUBSET S : Cardinality(T) = n => g[T] = h[T] }
  <1>1. 0 \in Agree
    <2> SUFFICES ASSUME NEW T \in SUBSET S, Cardinality(T) = 0 PROVE g[T] = h[T]
      OBVIOUS
    <2>1. T = {} /\ T \in SUBSET D
      BY FS_Subset, FS_EmptySet
    <2> QED
      BY <2>1 DEF SumBody
  <1>2. ASSUME NEW n \in Nat, n \in Agree PROVE n + 1 \in Agree
    <2> SUFFICES ASSUME NEW T \in SUBSET S, Cardinality(T) = n + 1 PROVE g[T] = h[T]
      OBVIOUS
    <2>1. T # {} /\ T \in SUBSET D
      BY FS_EmptySet
    <2> DEFINE U == T \ {Picked(T)}
    <2>2. U \in SUBSET S /\ Cardinality(U) = n
      BY <2>1, PickedIn
    <2>3. g[U] = h[U]
      BY <1>2, <2>2
    <2>4. g[T] = w[Picked(T)] + g[U] /\ h[T] = w[Picked(T)] + h[U]
      BY <2>1 DEF SumBody
    <2> QED
      BY <2>3, <2>4
  <1>3. ASSUME NEW T \in SUBSET S PROVE g[T] = h[T]
    <2> DEFINE n == Cardinality(T)
    <2>1. n \in Nat
      BY FS_Subset, FS_CardinalityType
    <2> HIDE DEF Agree
    <2>2. 0..n \subseteq Agree
      BY <1>1, <1>2, <2>1, InductionUpTo
    <2>3. n \in Agree
      BY <2>1, <2>2
    <2> QED
      BY <2>3 DEF Agree
  <1> QED
    BY <1>3

\* There is a function that sums: adding elements once more for each element of D
\* leaves nothing to add.
LEMMA SumExists ==
  ASSUME NEW D, IsFiniteSet(D), NEW w \in [D -> Int]
  PROVE  \E h \in [SUBSET D -> Int] : h = SumBody(w, D, h)
  <1> DEFINE X == [SUBSET D -> Int]
             m == Cardinality(D) + 1
             base == [T \in SUBSET D |-> 0]
             step == [p \in X \X (1..m) |-> SumBody(w, D, p[1])]
  <1>1. Cardinality(D) \in Nat /\ m \in Nat /\ \A T \in SUBSET D : Cardinality(T) \in 0..Cardinality(D)
    BY FS_CardinalityType, FS_Subset
  <1>2. ASSUME NEW h \in X PROVE SumBody(w, D, h) \in X
    <2>1. ASSUME NEW T \in SUBSET D, T # {} PROVE w[Picked(T)] + h[T \ {Picked(T)}] \in Int
      <3>1. Picked(T) \in D /\ T \ {Picked(T)} \in SUBSET D
        BY <2>1, PickedIn
      <3>2. w[Picked(T)] \in Int /\ h[T \ {Picked(T)}] \in Int
        BY <3>1
      <3> QED
        BY <3>2
    <2> QED
      BY <2>1 DEF SumBody
  <1>3. base \in X
    OBVIOUS
  <1>4. step \in StepsOver(m, X)
    BY <1>2 DEF StepsOver
  <1>5. \A h \in X, n \in 1..m : step[<<h, n>>] = SumBody(w, D, h)
    OBVIOUS
  <1> HIDE DEF base, step, m, X
  <1>6. PICK it : Follows(m, X, base, step, it)
    BY <1>1, <1>3, <1>4, RecursionUpTo
  <1>7. ASSUME NEW n \in 1..m PROVE it[n - 1] \in X /\ it[n] = SumBody(w, D, it[n - 1])
    <2>1. n - 1 \in 0..m
      BY <1>1
    <2> QED
      BY <1>5, <1>6, <2>1 DEF Follows
  <1> DEFINE S == { n \in 0..(m - 1) :
                      \A T \in SUBSET D : Cardinality(T) <= n => it[n + 1][T] = it[n][T] }
  <1>8. 0 \in S
    <2> SUFFICES ASSUME NEW T \in SUBSET D, Cardinality(T) <= 0 PROVE it[0 + 1][T] = it[0][T]
      BY <1>1 DEF m
    <2>1. T = {}
      BY <1>1, FS_Subset, FS_EmptySet
    <2>2. it[1] = SumBody(w, D, it[0])
      BY <1>1, <1>7 DEF m
    <2>3. it[0][T] = 0
      BY <1>6 DEF Follows, base
    <2> QED
      BY <2>1, <2>2, <2>3 DEF SumBody
  <1>9. ASSUME NEW n \in 0..(m - 2), n \in S PROVE n + 1 \in S
    <2>1. n + 1 \in 1..m /\ n + 2 \in 1..m /\ (n + 1) - 1 = n /\ (n + 2) - 1 = n + 1
          /\ n + 1 \in 0..(m - 1) /\ (n + 1) + 1 = n + 2
      BY <1>1
    <2>2. it[n + 1] = SumBody(w, D, it[n]) /\ it[n + 2] = SumBody(w, D, it[n + 1])
      BY <1>7, <2>1
    <2>3. ASSUME NEW T \in SUBSET D, Cardinality(T) <= n + 1 PROVE it[n + 2][T] = it[n + 1][T]
      <3>1. CASE T = {}
        BY <2>2, <3>1 DEF SumBody
      <3>2. CASE T # {}
        <4> DEFINE U == T \ {Picked(T)}
        <4>1. U \in SUBSET D /\ Cardinality(U) <= n
          BY <2>3, <3>2, PickedIn
        <4>2. it[n + 1][U] = it[n][U]
          BY <1>9, <4>1
        <4> QED
          BY <2>2, <3>2, <4>2 DEF SumBody
      <3> QED
        BY <3>1, <3>2
    <2> QED
      BY <2>1, <2>3
  <1>10. m - 1 \in S
    <2> HIDE DEF S
    <2>1. m - 1 \in Nat
      BY <1>1 DEF m
    <2>2. \A n \in 0..((m - 1) - 1) : n \in S => n + 1 \in S
      BY <1>1, <1>9
    <2>3. 0..(m - 1) \subseteq S
      BY <1>8, <2>1, <2>2, InductionUpTo
    <2> QED
      BY <2>1, <2>3
  <1>11. it[m] = it[m - 1]
    <2>1. m \in 0..m /\ m - 1 \in 0..m /\ (m - 1) + 1 = m
      BY <1>1 DEF m
    <2>2. it[m] \in X /\ it[m - 1] \in X
      BY <1>6, <2>1 DEF Follows
    <2>3. \A T \in SUBSET D : it[m][T] = it[m - 1][T]
      BY <1>1, <1>10, <2>1 DEF m
    <2> QED
      BY <2>2, <2>3 DEF X
  <1>12. m \in 1..m
    BY <1>1 DEF m
  <1>13. it[m - 1] \in X /\ it[m - 1] = SumBody(w, D, it[m - 1])
    BY <1>7, <1>11, <1>12
  <1> QED
    BY <1>13 DEF X

Sums(w, D, h) ==
  IsFiniteSet(D) /\ w \in [D -> Int] /\ h \in [SUBSET D -> Int] /\ h = SumBody(w, D, h)

\* Any element may be taken out first.
LEMMA SumTakesAny ==
  ASSUME NEW D, NEW w, NEW h, Sums(w, D, h)
  PROVE  /\ h[{}] = 0
         /\ \A T \in SUBSET D : \A x \in T : h[T] = w[x] + h[T \ {x}]
  <1>0. IsFiniteSet(D) /\ w \in [D -> Int] /\ h \in [SUBSET D -> Int] /\ h = SumBody(w, D, h)
    BY DEF Sums
  <1> DEFINE S == { n \in Nat : \A T \in SUBSET D : Cardinality(T) = n =>
                                  \A x \in T : h[T] = w[x] + h[T \ {x}] }
  <1>1. h[{}] = 0
    BY <1>0 DEF SumBody
  <1>2. 0 \in S
    <2>1. \A T \in SUBSET D : Cardinality(T) = 0 => T = {}
      BY <1>0, FS_Subset, FS_EmptySet
    <2> QED
      BY <2>1
  <1>3. ASSUME NEW n \in Nat, n \in S PROVE n + 1 \in S
    <2> SUFFICES ASSUME NEW T \in SUBSET D, Cardinality(T) = n + 1, NEW x \in T
                 PROVE  h[T] = w[x] + h[T \ {x}]
      OBVIOUS
    <2> DEFINE c == Picked(T)
    <2>1. c \in T /\ \A y \in T : Cardinality(T \ {y}) = n
      BY <1>0, PickedIn
    <2>2. h[T] = w[c] + h[T \ {c}]
      BY <1>0, <2>1 DEF SumBody
    <2> HIDE DEF c
    <2>3. CASE x = c
      BY <2>2, <2>3
    <2>4. CASE x # c
      <3> DEFINE U == (T \ {c}) \ {x}
      <3>1. T \ {c} \in SUBSET D /\ T \ {x} \in SUBSET D /\ U \in SUBSET D /\ U = (T \ {x}) \ {c}
            /\ x \in T \ {c} /\ c \in T \ {x}
        BY <2>1, <2>4
      <3>2. h[T \ {c}] = w[x] + h[U]
        BY <1>3, <2>1, <3>1
      <3>3. h[T \ {x}] = w[c] + h[U]
        BY <1>3, <2>1, <3>1
      <3>4. w[x] \in Int /\ w[c] \in Int /\ h[U] \in Int
        BY <1>0, <2>1, <3>1
      <3> QED
        BY <2>2, <3>2, <3>3, <3>4
    <2> QED
      BY <2>3, <2>4
  <1>4. ASSUME NEW T \in SUBSET D, NEW x \in T PROVE h[T] = w[x] + h[T \ {x}]
    <2> DEFINE n == Cardinality(T)
    <2>1. n \in Nat
      BY <1>0, FS_Subset, FS_CardinalityType
    <2> HIDE DEF S
    <2>2. 0..n \subseteq S
      BY <1>2, <1>3, <2>1, InductionUpTo
    <2>3. n \in S
      BY <2>1, <2>2
    <2> QED
      BY <2>3 DEF S
  <1> QED
    BY <1>1, <1>4

-----------------------------------------------------------------------------
(* Ranks.                                                                  *)

\* R puts any two members of S in an order, and no two members go round.
StrictOrder(S, R) ==
  /\ \A r \in S : <<r, r>> \notin R
  /\ \A r, s, t \in S : <<r, s>> \in R /\ <<s, t>> \in R => <<r, t>> \in R
  /\ \A r, s \in S : r = s \/ <<r, s>> \in R \/ <<s, r>> \in R

Ahead(S, R, r) == { s \in S \ {r} : <<s, r>> \in R }

\* A proper part of a finite set has fewer members.
LEMMA PartIsSmaller ==
  ASSUME NEW T, IsFiniteSet(T), NEW S \in SUBSET T, NEW x \in T, x \notin S
  PROVE  Cardinality(S) < Cardinality(T)
  <1>1. IsFiniteSet(S) /\ Cardinality(S) <= Cardinality(T) /\ S # T
    BY FS_Subset
  <1>2. Cardinality(S) # Cardinality(T)
    BY <1>1, FS_Subset
  <1>3. Cardinality(S) \in Nat /\ Cardinality(T) \in Nat
    BY <1>1, FS_CardinalityType
  <1> QED
    BY <1>1, <1>2, <1>3

\* The number of those ahead is a different one for each member, grows along the order
\* and leaves out no number below the size.
LEMMA Ranks ==
  ASSUME NEW S, IsFiniteSet(S), NEW R, StrictOrder(S, R)
  PROVE  /\ Cardinality(S) \in Nat
         /\ \A r \in S : Cardinality(Ahead(S, R, r)) \in 0..(Cardinality(S) - 1)
         /\ \A r, s \in S : <<s, r>> \in R => Cardinality(Ahead(S, R, s)) < Cardinality(Ahead(S, R, r))
         /\ \A i \in 0..(Cardinality(S) - 1) : \E r \in S : Cardinality(Ahead(S, R, r)) = i
  <1> DEFINE n == Cardinality(S)
             rank == [r \in S |-> Cardinality(Ahead(S, R, r))]
  <1>1. n \in Nat
    BY FS_CardinalityType
  <1>2. ASSUME NEW r \in S
        PROVE  IsFiniteSet(Ahead(S, R, r)) /\ Cardinality(Ahead(S, R, r)) \in 0..(n - 1)
    <2>1. Ahead(S, R, r) \in SUBSET S /\ r \notin Ahead(S, R, r)
      BY DEF Ahead
    <2>2. IsFiniteSet(Ahead(S, R, r)) /\ Cardinality(Ahead(S, R, r)) < n
      BY <2>1, FS_Subset, PartIsSmaller
    <2>3. Cardinality(Ahead(S, R, r)) \in Nat
      BY <2>2, FS_CardinalityType
    <2> QED
      BY <1>1, <2>2, <2>3
  <1>3. ASSUME NEW r \in S, NEW s \in S, <<s, r>> \in R
        PROVE  Cardinality(Ahead(S, R, s)) < Cardinality(Ahead(S, R, r))
    <2>1. s \in Ahead(S, R, r) /\ s \notin Ahead(S, R, s)
      BY <1>3 DEF Ahead, StrictOrder
    <2>2. Ahead(S, R, s) \in SUBSET Ahead(S, R, r)
      BY <1>3 DEF Ahead, StrictOrder
    <2> QED
      BY <1>2, <2>1, <2>2, PartIsSmaller
  <1>4. rank \in [S -> 0..(n - 1)]
    BY <1>2
  <1>5. \A r, s \in S : rank[r] = rank[s] => r = s
    <2> TAKE r, s \in S
    <2>1. r = s \/ <<r, s>> \in R \/ <<s, r>> \in R
      BY DEF StrictOrder
    <2>2. rank[r] \in Int /\ rank[s] \in Int
      BY <1>4
    <2>3. <<r, s>> \in R => rank[r] < rank[s]
      BY <1>3
    <2>4. <<s, r>> \in R => rank[s] < rank[r]
      BY <1>3
    <2> HIDE DEF rank
    <2> QED
      BY <2>1, <2>2, <2>3, <2>4
  <1>6. rank \in Injection(S, 0..(n - 1))
    BY <1>4, <1>5 DEF Injection, IsInjective
  <1>7. IsFiniteSet(0..(n - 1)) /\ Cardinality(0..(n - 1)) = n
    <2>1. 0 \in Int /\ n - 1 \in Int /\ (0 > n - 1 => n = 0)
      BY <1>1
    <2>2. Cardinality(0..(n - 1)) = IF 0 > n - 1 THEN 0 ELSE n - 1 - 0 + 1
      BY <2>1, FS_Interval
    <2> QED
      BY <1>1, <2>1, <2>2, FS_Interval
  <1>8. rank \in Surjection(S, 0..(n - 1))
    <2> DEFINE T == 0..(n - 1)
    <2>1. rank \in Injection(S, T) /\ IsFiniteSet(T) /\ Cardinality(S) = Cardinality(T)
      BY <1>6, <1>7
    <2> HIDE DEF T, rank
    <2>2. rank \in Surjection(S, T)
      BY <2>1, FS_Injection
    <2> QED
      BY <2>2 DEF T
  <1>9. \A i \in 0..(n - 1) : \E r \in S : rank[r] = i
    BY <1>8 DEF Surjection
  <1> QED
    BY <1>1, <1>2, <1>3, <1>9
=============================================================================
