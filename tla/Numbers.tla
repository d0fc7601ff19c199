------------------------------- MODULE Numbers ------------------------------
(***************************************************************************)
(* Facts about numbers that the proofs share: quotients and remainders by  *)
(* any divisor, least elements, and functions defined by iteration.        *)
(***************************************************************************)
EXTENDS Integers, WellFoundedInduction, TLAPS

\* Multiples of d keep a distance of d.
LEMMA Multiples ==
  ASSUME NEW d \in Nat \ {0}, NEW p \in Int, NEW q \in Int, p < q
  PROVE  d * p + d <= d * q
<1>1. PICK k \in Nat : q = p + 1 + k
  <2>1. q - p - 1 \in Nat /\ q = p + 1 + (q - p - 1)
    OBVIOUS
  <2> QED
    BY <2>1
<1>2. d * q = d * p + d + d * k /\ d * k >= 0
  BY <1>1
<1> QED
  BY <1>2

\* The remainder and the quotient of a number.
LEMMA Division ==
  ASSUME NEW a \in Nat, NEW d \in Nat \ {0}
  PROVE  /\ a \div d \in Nat /\ a % d \in 0 .. d - 1
         /\ a = d * (a \div d) + (a % d)
<1> DEFINE q == a \div d
           r == a % d
<1>1. q \in Nat /\ r \in 0 .. d - 1
  OBVIOUS
<1>2. \A x, y \in Int : x = a \div d /\ y = a % d => a = d * x + y
  OBVIOUS
<1>3. q = a \div d /\ r = a % d
  OBVIOUS
<1> HIDE DEF q, r
<1>4. a = d * q + r
  BY <1>1, <1>2, <1>3
<1> QED
  BY <1>1, <1>4 DEF q, r

\* No other numbers are its quotient and remainder.
LEMMA DivisionUnique ==
  ASSUME NEW a \in Nat, NEW d \in Nat \ {0}, NEW q \in Nat, NEW r \in 0 .. d - 1,
         a = d * q + r
  PROVE  a \div d = q /\ a % d = r
<1>1. /\ a \div d \in Nat /\ a % d \in 0 .. d - 1
      /\ a = d * (a \div d) + (a % d)
  BY Division
<1> DEFINE p == a \div d
           s == a % d
<1>2. p \in Nat /\ s \in 0 .. d - 1 /\ d * p + s = d * q + r
  BY <1>1
<1> HIDE DEF p, s
<1>3. d * p \in Nat /\ d * q \in Nat
  BY <1>2
<1>4. ~(p < q)
  BY <1>2, <1>3, Multiples
<1>5. ~(q < p)
  BY <1>2, <1>3, Multiples
<1>6. p = q /\ s = r
  BY <1>2, <1>4, <1>5
<1> QED
  BY <1>6 DEF p, s

\* A step that stays below the next multiple of d.
LEMMA StepWithin ==
  ASSUME NEW a \in Nat, NEW d \in Nat \ {0}, NEW k \in Nat, (a % d) + k < d
  PROVE  (a + k) \div d = a \div d /\ (a + k) % d = (a % d) + k
<1> DEFINE q == a \div d
           r == a % d
<1>1. q \in Nat /\ r \in 0 .. d - 1 /\ a = d * q + r /\ r + k < d
  BY Division
<1> HIDE DEF q, r
<1>2. a + k = d * q + (r + k)
  <2>1. d * q \in Nat
    BY <1>1
  <2> QED
    BY <1>1, <2>1
<1>3. (a + k) \div d = q /\ (a + k) % d = r + k
  <2>1. a + k \in Nat /\ r + k \in 0 .. d - 1
    BY <1>1
  <2> QED
    BY <1>1, <1>2, <2>1, DivisionUnique
<1> QED
  BY <1>3 DEF q, r

\* A step that reaches the next multiple of d.
LEMMA StepToNext ==
  ASSUME NEW a \in Nat, NEW d \in Nat \ {0}, NEW k \in Nat, (a % d) + k = d
  PROVE  (a + k) \div d = a \div d + 1 /\ (a + k) % d = 0
<1> DEFINE q == a \div d
           r == a % d
<1>1. q \in Nat /\ r \in 0 .. d - 1 /\ a = d * q + r /\ r + k = d
  BY Division
<1> HIDE DEF q, r
<1>2. a + k = d * (q + 1) + 0
  <2>1. d * q \in Nat /\ d * (q + 1) = d * q + d
    BY <1>1
  <2> QED
    BY <1>1, <2>1
<1>3. (a + k) \div d = q + 1 /\ (a + k) % d = 0
  <2>1. a + k \in Nat /\ q + 1 \in Nat /\ 0 \in 0 .. d - 1
    BY <1>1
  <2> QED
    BY <1>1, <1>2, <2>1, DivisionUnique
<1> QED
  BY <1>3 DEF q

\* Quotients grow with their numerators.
LEMMA DivisionMonotonic ==
  ASSUME NEW a \in Nat, NEW b \in Nat, NEW d \in Nat \ {0}, a <= b
  PROVE  a \div d <= b \div d
<1> DEFINE p == a \div d
           q == b \div d
           r == a % d
           s == b % d
<1>1. /\ p \in Nat /\ q \in Nat /\ r \in 0 .. d - 1 /\ s \in 0 .. d - 1
      /\ a = d * p + r /\ b = d * q + s
  BY Division
<1> HIDE DEF p, q, r, s
<1>2. d * p \in Nat /\ d * q \in Nat
  BY <1>1
<1>3. ~(q < p)
  BY <1>1, <1>2, Multiples
<1> QED
  BY <1>1, <1>3 DEF p, q

\* What lies below m units of d lies in one of the first m.
LEMMA UnitBelow ==
  ASSUME NEW a \in Nat, NEW d \in Nat \ {0}, NEW m \in Nat, a < d * m
  PROVE  a \div d \in 0 .. m - 1
<1> DEFINE q == a \div d
           r == a % d
<1>1. q \in Nat /\ r \in 0 .. d - 1 /\ a = d * q + r
  BY Division
<1> HIDE DEF q, r
<1>2. d * q \in Nat /\ d * m \in Nat
  BY <1>1
<1>3. ~(m < q) /\ m # q
  BY <1>1, <1>2, Multiples
<1>4. q \in 0 .. m - 1
  BY <1>1, <1>3
<1> QED
  BY <1>4 DEF q

\* The next number is in the same unit, unless it starts one.
LEMMA NextInUnit ==
  ASSUME NEW a \in Nat, NEW d \in Nat \ {0}, (a + 1) % d # 0
  PROVE  (a + 1) \div d = a \div d
<1> DEFINE q == a \div d
           r == a % d
           p == (a + 1) \div d
           s == (a + 1) % d
<1>1. q \in Nat /\ r \in 0 .. d - 1 /\ a = d * q + r
  BY Division
<1>2. p \in Nat /\ s \in 0 .. d - 1 /\ a + 1 = d * p + s /\ s # 0
  <2>1. a + 1 \in Nat
    OBVIOUS
  <2> QED
    BY <2>1, Division
<1> HIDE DEF p, q, r, s
<1>3. d * q \in Nat /\ d * p \in Nat
  BY <1>1, <1>2
<1>4. ~(p < q)
  BY <1>1, <1>2, <1>3, Multiples
<1>5. ~(q < p)
  BY <1>1, <1>2, <1>3, Multiples
<1>6. p = q
  BY <1>1, <1>2, <1>4, <1>5
<1> QED
  BY <1>6 DEF p, q

\* Every set of numbers has a least one: induction, as the proofs use it.
LEMMA LeastElement ==
  ASSUME NEW T, T \subseteq Nat, T # {}
  PROVE  \E n \in T : \A m \in T : n <= m
<1> DEFINE R == OpToRel(<, Nat)
<1>1. \E n \in T : \A m \in T : ~(<<m, n>> \in R)
  BY NatLessThanWellFounded, WFMin
<1>2. PICK n \in T : \A m \in T : ~(<<m, n>> \in R)
  BY <1>1
<1>3. \A m \in T : ~(m < n)
  BY <1>2 DEF OpToRel
<1> QED
  BY <1>3

\* c holds the first N values of iterating g from x.
Iterates(c, x, g, N) == c[0] = x /\ \A k \in 1 .. N : c[k] = g[c[k - 1]]

\* A step function can be iterated: else there is a least number of steps for
\* which it cannot.
LEMMA Iteration ==
  ASSUME NEW S, NEW x \in S, NEW g \in [S -> S], NEW N \in Nat
  PROVE  \E c \in [0 .. N -> S] : Iterates(c, x, g, N)
<1> USE DEF Iterates
<1> DEFINE T == {n \in Nat : ~ \E c \in [0 .. n -> S] : Iterates(c, x, g, n)}
<1>1. SUFFICES ASSUME T # {} PROVE FALSE
  OBVIOUS
<1>2. T \subseteq Nat
  OBVIOUS
<1>3. PICK n \in T : \A m \in T : n <= m
  <2> HIDE DEF T
  <2> QED
    BY <1>1, <1>2, LeastElement
<1>4. CASE n = 0
  <2>1. [k \in 0 .. n |-> x] \in [0 .. n -> S] /\ Iterates([k \in 0 .. n |-> x], x, g, n)
    BY <1>4
  <2> QED
    BY <2>1
<1>5. CASE n # 0
  <2>1. n - 1 \in Nat /\ n - 1 \notin T
    <3> HIDE DEF T
    <3> QED
      BY <1>2, <1>3, <1>5
  <2>2. PICK c \in [0 .. n - 1 -> S] : Iterates(c, x, g, n - 1)
    BY <2>1
  <2> DEFINE d == [k \in 0 .. n |-> IF k = n THEN g[c[n - 1]] ELSE c[k]]
  <2>3. d \in [0 .. n -> S]
    BY <1>2, <2>1
  <2>4. d[0] = x
    BY <1>5, <2>1, <2>2
  <2>5. ASSUME NEW k \in 1 .. n PROVE d[k] = g[d[k - 1]]
    BY <2>1, <2>2
  <2> QED
    BY <2>3, <2>4, <2>5
<1> QED
  BY <1>4, <1>5
=============================================================================
