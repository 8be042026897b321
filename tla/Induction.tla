------------------------------ MODULE Induction ------------------------------
(***************************************************************************)
(* Induction over the natural numbers for sets, and what follows from it   *)
(* about the recursive functions and the choices that the models are built *)
(* from.  The induction theorems of the library take an operator, which    *)
(* the provers cannot instantiate; that < is well-founded, and that a set  *)
(* has then a least element, they state of sets.                           *)
(***************************************************************************)
EXTENDS Integers, WellFoundedInduction, TLAPS

(* A set of numbers has a least element.                                   *)
LEMMA Least ==
  ASSUME NEW T, T \subseteq Nat, T # {}
  PROVE  \E x \in T : \A y \in T : x <= y
<1>1. PICK x \in T : \A y \in T : ~(<<y, x>> \in OpToRel(<, Nat))
  BY NatLessThanWellFounded, WFMin, Zenon
<1>2. \A y \in T : ~(y < x)
  BY <1>1 DEF OpToRel
<1>3. QED
  BY <1>2

(* A bounded one has a greatest element too.                               *)
LEMMA Greatest ==
  ASSUME NEW T, T \subseteq Nat, T # {}, NEW n \in Nat, \A y \in T : y <= n
  PROVE  \E x \in T : \A y \in T : y <= x
<1> DEFINE D == {n - y : y \in T}
<1>1. D \subseteq Nat /\ D # {}
  <2>1. \A y \in T : y \in Nat /\ n - y \in Nat
    OBVIOUS
  <2>2. QED
    BY <2>1
<1>2. PICK d \in D : \A y \in D : d <= y
  BY <1>1, Least
<1>3. PICK x \in T : d = n - x
  OBVIOUS
<1>4. \A y \in T : n - y \in D
  OBVIOUS
<1>5. \A y \in T : y \in Nat /\ n - x <= n - y
  BY <1>2, <1>3, <1>4
<1>6. QED
  BY <1>5

(* A set that holds 0 and the successor of each of its numbers holds all.  *)
LEMMA SetInduction ==
  ASSUME NEW S, 0 \in S, \A n \in Nat : n \in S => n + 1 \in S
  PROVE  Nat \subseteq S
<1>1. SUFFICES ASSUME Nat \ S # {} PROVE FALSE
  OBVIOUS
<1>2. PICK x \in Nat \ S : \A y \in Nat \ S : x <= y
  BY <1>1, Least
<1>3. x - 1 \in Nat
  BY <1>2
<1>4. QED
  BY <1>2, <1>3

(* Induction as far as n.                                                  *)
LEMMA UpTo ==
  ASSUME NEW n \in Nat, NEW S, 0 \in S, \A i \in 1..n : i - 1 \in S => i \in S
  PROVE  \A i \in 0..n : i \in S
<1> DEFINE R == {m \in Nat : m <= n => m \in S}
<1>1. 0 \in R
  OBVIOUS
<1>2. ASSUME NEW m \in Nat, m \in R PROVE m + 1 \in R
  <2>1. SUFFICES ASSUME m + 1 <= n PROVE m + 1 \in S
    OBVIOUS
  <2>2. m + 1 \in 1..n /\ (m + 1) - 1 = m /\ m \in S
    BY <1>2, <2>1
  <2>3. QED
    BY <2>2
<1>3. Nat \subseteq R
  <2> HIDE DEF R
  <2>1. QED
    BY <1>1, <1>2, SetInduction
<1>4. QED
  BY <1>3

(* What n steps make of b, the i-th one by g[i].                           *)
Steps(n, S, b, g) ==
  {f \in [0..n -> S] : f[0] = b /\ \A i \in 1..n : f[i] = g[i][f[i - 1]]}

LEMMA StepsExist ==
  ASSUME NEW n \in Nat, NEW S, NEW b \in S, NEW g, \A i \in 1..n : \A x \in S : g[i][x] \in S
  PROVE  Steps(n, S, b, g) # {}
<1> DEFINE Stepping(m, f) == f[0] = b /\ \A i \in 1..m : f[i] = g[i][f[i - 1]]
           R == {m \in Nat : \E f \in [0..m -> S] : Stepping(m, f)}
<1>1. 0 \in R
  <2>1. [i \in 0..0 |-> b] \in [0..0 -> S] /\ Stepping(0, [i \in 0..0 |-> b])
    OBVIOUS
  <2>2. QED
    BY <2>1
<1>2. ASSUME NEW m \in 1..n, m - 1 \in R PROVE m \in R
  <2>1. PICK f \in [0..m-1 -> S] : Stepping(m - 1, f)
    BY <1>2
  <2>2. PICK last : last = g[m][f[m - 1]]
    OBVIOUS
  <2> DEFINE h == [i \in 0..m |-> IF i < m THEN f[i] ELSE last]
  <2>3. m - 1 \in 0..m-1 /\ f[m - 1] \in S /\ last \in S
    BY <2>2
  <2>4. h \in [0..m -> S]
    BY <2>3
  <2>5. h[0] = b /\ h[m] = last /\ h[m - 1] = f[m - 1]
    BY <2>1, <2>3
  <2>6. \A i \in 1..m-1 : h[i] = g[i][h[i - 1]]
    BY <2>1
  <2>7. Stepping(m, h)
    <3> HIDE DEF h
    <3>1. ASSUME NEW i \in 1..m PROVE h[i] = g[i][h[i - 1]]
      <4>1. CASE i = m
        BY <2>2, <2>5, <4>1
      <4>2. CASE i \in 1..m-1
        BY <2>6, <4>2
      <4>3. QED
        BY <4>1, <4>2
    <3>2. QED
      BY <2>5, <3>1
  <2> HIDE DEF h
  <2>8. m \in Nat /\ \E k \in [0..m -> S] : Stepping(m, k)
    BY <2>4, <2>7
  <2>9. QED
    BY <2>8
<1>3. \A m \in 0..n : m \in R
  <2> HIDE DEF R
  <2>1. QED
    BY <1>1, <1>2, UpTo
<1>4. \E f \in [0..n -> S] : Stepping(n, f)
  BY <1>3
<1>5. QED
  BY <1>4 DEF Steps

(* The sums of the first elements of a sequence of numbers exist.          *)
LEMMA SumsExist ==
  ASSUME NEW n \in Nat, NEW a, \A i \in 1..n : a[i] \in Int
  PROVE  \E f \in [0..n -> Int] : f = [i \in 0..n |-> IF i = 0 THEN 0 ELSE f[i - 1] + a[i]]
<1> DEFINE g == [i \in 1..n |-> [x \in Int |-> x + a[i]]]
<1>1. \A i \in 1..n : \A x \in Int : g[i][x] \in Int /\ g[i][x] = x + a[i]
  OBVIOUS
<1> HIDE DEF g
<1>2. PICK f : f \in Steps(n, Int, 0, g)
  <2>1. PICK Z, b : Z = Int /\ b = 0
    OBVIOUS
  <2>2. b \in Z /\ \A i \in 1..n : \A x \in Z : g[i][x] \in Z
    BY <1>1, <2>1
  <2>3. Steps(n, Z, b, g) # {}
    BY <2>2, StepsExist
  <2>4. QED
    BY <2>1, <2>3
<1>3. f \in [0..n -> Int] /\ f[0] = 0 /\ \A i \in 1..n : f[i] = g[i][f[i - 1]]
  BY <1>2 DEF Steps
<1>4. \A i \in 1..n : f[i] = f[i - 1] + a[i]
  <2>1. \A i \in 1..n : i - 1 \in 0..n /\ f[i - 1] \in Int
    BY <1>3
  <2>2. QED
    BY <1>1, <1>3, <2>1
<1>5. f = [i \in 0..n |-> IF i = 0 THEN 0 ELSE f[i - 1] + a[i]]
  BY <1>3, <1>4
<1>6. QED
  BY <1>3, <1>5

(* They are numbers.                                                       *)
LEMMA SumsAreInt ==
  ASSUME NEW n \in Nat, NEW a \in [1..n -> Int],
         NEW f, f[0] = 0, \A i \in 1..n : f[i] = f[i - 1] + a[i]
  PROVE  \A i \in 0..n : f[i] \in Int
<1> DEFINE S == {i \in 0..n : f[i] \in Int}
<1>1. 0 \in S
  OBVIOUS
<1>2. ASSUME NEW i \in 1..n, i - 1 \in S PROVE i \in S
  <2>1. f[i] = f[i - 1] + a[i]
    OBVIOUS
  <2>2. QED
    BY <1>2, <2>1
<1>3. \A i \in 0..n : i \in S
  <2> HIDE DEF S
  <2>1. QED
    BY <1>1, <1>2, UpTo
<1>4. QED
  BY <1>3

-----------------------------------------------------------------------------
(* Recursion along a measure.                                              *)

(* What holds of each element of D if it does of those with a smaller      *)
(* measure holds of all.                                                   *)
LEMMA ByMeasure ==
  ASSUME NEW D, NEW m \in [D -> Nat], NEW S,
         \A x \in D : (\A y \in D : m[y] < m[x] => y \in S) => x \in S
  PROVE  D \subseteq S
<1> DEFINE R == {m[x] : x \in D \ S}
<1>1. SUFFICES ASSUME D \ S # {} PROVE FALSE
  OBVIOUS
<1>2. R \subseteq Nat /\ R # {}
  BY <1>1
<1>3. PICK k \in R : \A l \in R : k <= l
  <2> HIDE DEF R
  <2>1. QED
    BY <1>2, Least
<1>4. PICK x \in D \ S : k = m[x]
  BY <1>3
<1>5. ASSUME NEW y \in D, m[y] < m[x], y \notin S PROVE FALSE
  <2>1. m[y] \in R
    BY <1>5
  <2>2. m[x] <= m[y]
    BY <1>3, <1>4, <2>1
  <2>3. m[x] \in Nat /\ m[y] \in Nat
    BY <1>4
  <2>4. QED
    BY <1>5, <2>2, <2>3
<1>6. QED
  BY <1>4, <1>5

(* A recursion with one call at most: f[x] is res[x] on base, elsewhere    *)
(* what g[x] makes of f[next[x]].                                          *)
Unfolded(base, next, res, g, f, x) == IF x \in base THEN res[x] ELSE g[x][f[next[x]]]

Solutions(D, V, base, next, res, g) ==
  {f \in [D -> V] : \A x \in D : f[x] = Unfolded(base, next, res, g, f, x)}

(* It ends by a measure, and its values are in V.                          *)
Descends(D, V, m, base, next, res, g) ==
  /\ m \in [D -> Nat]
  /\ \A x \in D : x \in base => res[x] \in V
  /\ \A x \in D : x \notin base =>
       next[x] \in D /\ m[next[x]] < m[x] /\ \A v \in V : g[x][v] \in V

(* Solutions up to a measure.                                              *)
SolvesBelow(D, m, base, next, res, g, f, k) ==
  \A x \in D : m[x] < k => f[x] = Unfolded(base, next, res, g, f, x)

LEMMA BelowAgree ==
  ASSUME NEW D, NEW V, NEW m, NEW base, NEW next, NEW res, NEW g, Descends(D, V, m, base, next, res, g),
         NEW a, NEW b, NEW k \in Nat,
         SolvesBelow(D, m, base, next, res, g, a, k), SolvesBelow(D, m, base, next, res, g, b, k)
  PROVE  \A x \in D : m[x] < k => a[x] = b[x]
<1> DEFINE S == {x \in D : m[x] < k => a[x] = b[x]}
<1>1. m \in [D -> Nat]
  BY DEF Descends
<1>2. ASSUME NEW x \in D, \A y \in D : m[y] < m[x] => y \in S PROVE x \in S
  <2>1. SUFFICES ASSUME m[x] < k PROVE a[x] = b[x]
    OBVIOUS
  <2>2. a[x] = Unfolded(base, next, res, g, a, x) /\ b[x] = Unfolded(base, next, res, g, b, x)
    BY <2>1 DEF SolvesBelow
  <2>3. CASE x \in base
    BY <2>2, <2>3 DEF Unfolded
  <2>4. CASE x \notin base
    <3>1. next[x] \in D /\ m[next[x]] < m[x]
      BY <2>4 DEF Descends
    <3>2. next[x] \in S /\ m[next[x]] \in Nat /\ m[x] \in Nat
      BY <1>1, <1>2, <3>1
    <3>3. a[next[x]] = b[next[x]]
      BY <2>1, <3>1, <3>2
    <3>4. QED
      BY <2>2, <2>4, <3>3 DEF Unfolded
  <2>5. QED
    BY <2>3, <2>4
<1>3. D \subseteq S
  <2> HIDE DEF S
  <2>1. QED
    BY <1>1, <1>2, ByMeasure
<1>4. QED
  BY <1>3

LEMMA BelowExists ==
  ASSUME NEW D, NEW V, NEW m, NEW base, NEW next, NEW res, NEW g, Descends(D, V, m, base, next, res, g),
         NEW v0 \in V
  PROVE  \A k \in Nat : \E f \in [D -> V] : SolvesBelow(D, m, base, next, res, g, f, k)
<1> DEFINE R == {k \in Nat : \E f \in [D -> V] : SolvesBelow(D, m, base, next, res, g, f, k)}
<1>0. m \in [D -> Nat]
  BY DEF Descends
<1>1. 0 \in R
  <2>1. \A x \in D : ~(m[x] < 0)
    BY <1>0
  <2>2. PICK f : f = [x \in D |-> v0]
    OBVIOUS
  <2>3. f \in [D -> V] /\ SolvesBelow(D, m, base, next, res, g, f, 0)
    BY <2>1, <2>2 DEF SolvesBelow
  <2>4. QED
    BY <2>3
<1>2. ASSUME NEW k \in Nat, k \in R PROVE k + 1 \in R
  <2>1. PICK f \in [D -> V] : SolvesBelow(D, m, base, next, res, g, f, k)
    BY <1>2
  <2>2. PICK h : h = [x \in D |-> IF m[x] < k THEN f[x] ELSE Unfolded(base, next, res, g, f, x)]
    OBVIOUS
  <2>3. \A x \in D : Unfolded(base, next, res, g, f, x) \in V
    BY <2>1 DEF Unfolded, Descends
  <2>4. h \in [D -> V]
    BY <2>2, <2>3
  <2>5. ASSUME NEW x \in D, m[x] < k + 1 PROVE h[x] = Unfolded(base, next, res, g, h, x)
    <3>1. h[x] = Unfolded(base, next, res, g, f, x)
      BY <2>1, <2>2 DEF SolvesBelow
    <3>2. CASE x \in base
      BY <3>1, <3>2 DEF Unfolded
    <3>3. CASE x \notin base
      <4>1. next[x] \in D /\ m[next[x]] < m[x]
        BY <3>3 DEF Descends
      <4>2. m[next[x]] \in Nat /\ m[x] \in Nat
        BY <1>0, <4>1
      <4>3. m[next[x]] < k
        BY <2>5, <4>1, <4>2
      <4>4. h[next[x]] = f[next[x]]
        BY <2>2, <4>1, <4>3
      <4>5. QED
        BY <3>1, <3>3, <4>4 DEF Unfolded
    <3>4. QED
      BY <3>2, <3>3
  <2>6. SolvesBelow(D, m, base, next, res, g, h, k + 1)
    BY <2>5 DEF SolvesBelow
  <2>7. QED
    BY <2>4, <2>6
<1>3. Nat \subseteq R
  <2> HIDE DEF R
  <2>1. QED
    BY <1>1, <1>2, SetInduction
<1>4. QED
  BY <1>3

LEMMA SolutionExists ==
  ASSUME NEW D, NEW V, NEW m, NEW base, NEW next, NEW res, NEW g, Descends(D, V, m, base, next, res, g),
         NEW v0 \in V
  PROVE  Solutions(D, V, base, next, res, g) # {}
<1>0. m \in [D -> Nat]
  BY DEF Descends
<1> DEFINE F == [k \in Nat |-> CHOOSE f \in [D -> V] : SolvesBelow(D, m, base, next, res, g, f, k)]
<1>1. \A k \in Nat : F[k] \in [D -> V] /\ SolvesBelow(D, m, base, next, res, g, F[k], k)
  BY BelowExists
<1> HIDE DEF F
<1>2. PICK h : h = [x \in D |-> F[m[x] + 1][x]]
  OBVIOUS
<1>3. h \in [D -> V]
  BY <1>0, <1>1, <1>2
<1>4. ASSUME NEW x \in D PROVE h[x] = Unfolded(base, next, res, g, h, x)
  <2>1. PICK k : k = m[x] + 1
    OBVIOUS
  <2>2. k \in Nat /\ m[x] \in Nat /\ m[x] < k
    BY <1>0, <2>1
  <2>3. h[x] = Unfolded(base, next, res, g, F[k], x)
    BY <1>1, <1>2, <2>1, <2>2 DEF SolvesBelow
  <2>4. CASE x \in base
    BY <2>3, <2>4 DEF Unfolded
  <2>5. CASE x \notin base
    <3>1. next[x] \in D /\ m[next[x]] < m[x]
      BY <2>5 DEF Descends
    <3>2. PICK l : l = m[next[x]] + 1
      OBVIOUS
    <3>3. l \in Nat /\ m[next[x]] \in Nat /\ m[next[x]] < l /\ l <= k
      BY <1>0, <2>1, <2>2, <3>1, <3>2
    <3>4. \A y \in D : m[y] \in Nat
      BY <1>0
    <3>5. SolvesBelow(D, m, base, next, res, g, F[k], l)
      BY <1>1, <2>2, <3>3, <3>4 DEF SolvesBelow
    <3>6. F[k][next[x]] = F[l][next[x]]
      <4>1. PICK a, b : a = F[k] /\ b = F[l]
        OBVIOUS
      <4>2. SolvesBelow(D, m, base, next, res, g, a, l) /\ SolvesBelow(D, m, base, next, res, g, b, l)
        BY <1>1, <3>3, <3>5, <4>1
      <4>3. \A y \in D : m[y] < l => a[y] = b[y]
        BY <3>3, <4>2, BelowAgree
      <4>4. QED
        BY <3>1, <3>3, <4>1, <4>3
    <3>7. h[next[x]] = F[k][next[x]]
      BY <1>2, <3>1, <3>2, <3>6
    <3>8. QED
      BY <2>3, <2>5, <3>7 DEF Unfolded
  <2>6. QED
    BY <2>4, <2>5
<1>5. QED
  BY <1>3, <1>4 DEF Solutions

(* A loop: f[x] is res[x] on base, elsewhere f[next[x]].                   *)
Loops(D, V, m, base, next, res) ==
  /\ m \in [D -> Nat]
  /\ \A x \in D : x \in base => res[x] \in V
  /\ \A x \in D : x \notin base => next[x] \in D /\ m[next[x]] < m[x]

LoopSolutions(D, V, base, next, res) ==
  {f \in [D -> V] : \A x \in D : f[x] = IF x \in base THEN res[x] ELSE f[next[x]]}

LEMMA LoopExists ==
  ASSUME NEW D, NEW V, NEW m, NEW base, NEW next, NEW res, Loops(D, V, m, base, next, res),
         NEW v0 \in V
  PROVE  LoopSolutions(D, V, base, next, res) # {}
<1>1. PICK g : g = [x \in D |-> [v \in V |-> v]]
  OBVIOUS
<1>2. \A x \in D : \A v \in V : g[x][v] = v
  BY <1>1
<1>3. Descends(D, V, m, base, next, res, g)
  BY <1>2 DEF Descends, Loops
<1>4. PICK f : f \in Solutions(D, V, base, next, res, g)
  BY <1>3, SolutionExists
<1>5. f \in [D -> V] /\ \A x \in D : f[x] = Unfolded(base, next, res, g, f, x)
  BY <1>4 DEF Solutions
<1>6. ASSUME NEW x \in D PROVE f[x] = IF x \in base THEN res[x] ELSE f[next[x]]
  <2>1. x \notin base => next[x] \in D
    BY DEF Loops
  <2>2. QED
    BY <1>2, <1>5, <2>1 DEF Unfolded
<1>7. QED
  BY <1>5, <1>6 DEF LoopSolutions

=============================================================================
