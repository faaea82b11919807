---------------------------- MODULE MemoryProofs ----------------------------
(***************************************************************************)
(* The memory of a classic system, for every list of memory ranges, every  *)
(* number of channels and all the scripts: how the interfaces share the    *)
(* addresses, what the map of an x86 guest says of them, and how many      *)
(* testers a tree has.                                                     *)
(***************************************************************************)
EXTENDS MemorySystem, TLAPS, FiniteSetTheorems, SequenceTheorems

-----------------------------------------------------------------------------
(* Numbers.                                                                *)

\* A set of numbers that is not empty has a least one.
LEMMA LeastNumber ==
  ASSUME NEW T, T \subseteq Nat, T # {}
  PROVE  \E x \in T : \A y \in T : x <= y
<1> DEFINE R == OpToRel(<, Nat)
<1>1. IsWellFoundedOn(R, Nat)
  BY NatLessThanWellFounded
<1>2. \A x, y \in Nat : y < x => <<y, x>> \in R
  BY DEF OpToRel
<1> HIDE DEF R
<1>3. PICK x \in T : \A y \in T : ~ (<<y, x>> \in R)
  BY <1>1, WFMin
<1>4. ASSUME NEW y \in T PROVE x <= y
  <2>1. x \in Nat /\ y \in Nat
    OBVIOUS
  <2>2. ~(y < x)
    BY <1>2, <1>3, <2>1
  <2> QED
    BY <2>1, <2>2
<1> QED
  BY <1>4

LEMMA Product ==
  ASSUME NEW a \in Nat, NEW b \in Nat, NEW q \in Nat, a < b, q > 0
  PROVE  a * q + q <= b * q
<1>1. (b - a - 1) * q >= 0
  BY SMT
<1>2. (b - a - 1) * q = b * q - a * q - q
  BY SMT
<1> QED
  BY <1>1, <1>2, SMT

\* A quotient and a remainder are the only ones.
LEMMA Division ==
  ASSUME NEW n \in Nat \ {0}, NEW a \in Nat
  PROVE  /\ a \div n \in Nat /\ a % n \in 0 .. n - 1
         /\ a = (a % n) + (a \div n) * n
BY SMT

LEMMA DivisionUnique ==
  ASSUME NEW n \in Nat \ {0}, NEW c \in 0 .. n - 1, NEW d \in Nat
  PROVE  (c + d * n) % n = c /\ (c + d * n) \div n = d
<1> DEFINE a == c + d * n
<1>1. a \in Nat
  BY SMT
<1> DEFINE q == a \div n
           m == a % n
<1>2. q \in Nat /\ m \in 0 .. n - 1 /\ c + d * n = m + q * n
  BY <1>1, Division
<1> HIDE DEF a, q, m
<1>3. ~(q < d)
  <2> SUFFICES ASSUME q < d PROVE FALSE
    OBVIOUS
  <2>1. q * n + n <= d * n
    BY <1>2, Product
  <2>2. q * n \in Int /\ d * n \in Int
    BY <1>2
  <2> QED
    BY <1>2, <2>1, <2>2
<1>4. ~(d < q)
  <2> SUFFICES ASSUME d < q PROVE FALSE
    OBVIOUS
  <2>1. d * n + n <= q * n
    BY <1>2, Product
  <2>2. q * n \in Int /\ d * n \in Int
    BY <1>2
  <2> QED
    BY <1>2, <2>1, <2>2
<1>5. q = d
  BY <1>2, <1>3, <1>4
<1>6. m = c
  BY <1>2, <1>5
<1> QED
  BY <1>5, <1>6 DEF a, q, m

\* The remainder of the next number.
LEMMA NextRemainder ==
  ASSUME NEW n \in Nat \ {0}, NEW a \in Nat
  PROVE  (a + 1) % n = IF a % n = n - 1 THEN 0 ELSE (a % n) + 1
<1> DEFINE q == a \div n
           c == a % n
<1>1. q \in Nat /\ c \in 0 .. n - 1 /\ a = c + q * n
  BY Division
<1> HIDE DEF q, c
<1>2. CASE c = n - 1
  <2>1. (0 + (q + 1) * n) % n = 0
    BY <1>1, DivisionUnique
  <2>2. 0 + (q + 1) * n = a + 1
    BY <1>1, <1>2, SMT
  <2> QED
    BY <1>2, <2>1, <2>2 DEF c
<1>3. CASE c # n - 1
  <2>1. c + 1 \in 0 .. n - 1
    BY <1>1, <1>3
  <2>2. (c + 1 + q * n) % n = c + 1
    BY <1>1, <2>1, DivisionUnique
  <2>3. c + 1 + q * n = a + 1
    <3>1. q * n \in Int
      BY <1>1
    <3> QED
      BY <1>1, <3>1
  <2> QED
    BY <1>3, <2>2, <2>3 DEF c
<1> QED
  BY <1>2, <1>3

-----------------------------------------------------------------------------
(* Powers of two, and the bits of a number.                                *)

\* The powers of two, by the subsets of a set.
LEMMA PowersOfTwo ==
  /\ 2^0 = 1
  /\ \A n \in Nat : 2^n \in Nat \ {0} /\ 2^(n + 1) = 2 * 2^n
<1>1. \A n \in Nat : /\ IsFiniteSet(SUBSET (1 .. n))
                     /\ Cardinality(SUBSET (1 .. n)) = 2^n
                     /\ 2^n \in Nat
  <2> SUFFICES ASSUME NEW n \in Nat
               PROVE  /\ IsFiniteSet(SUBSET (1 .. n))
                      /\ Cardinality(SUBSET (1 .. n)) = 2^n
                      /\ 2^n \in Nat
    OBVIOUS
  <2>1. IsFiniteSet(1 .. n) /\ Cardinality(1 .. n) = n
    BY FS_Interval
  <2>2. IsFiniteSet(SUBSET (1 .. n)) /\ Cardinality(SUBSET (1 .. n)) = 2^n
    BY <2>1, FS_SUBSET
  <2> QED
    BY <2>2, FS_CardinalityType
<1>2. 2^0 = 1
  <2>1. SUBSET (1 .. 0) = {{}}
    OBVIOUS
  <2>2. Cardinality({{}}) = 1
    BY FS_Singleton
  <2> QED
    BY <1>1, <2>1, <2>2
<1>3. ASSUME NEW n \in Nat PROVE 2^(n + 1) = 2 * 2^n
  <2> DEFINE S == SUBSET (1 .. n)
             with(X) == X \cup {n + 1}
             T == {with(X) : X \in S}
  <2>1. SUBSET (1 .. n + 1) = S \cup T
    <3>0. /\ \A y \in 1 .. n + 1 : y # n + 1 => y \in 1 .. n
          /\ \A y \in 1 .. n : y \in 1 .. n + 1
          /\ n + 1 \in 1 .. n + 1
      OBVIOUS
    <3>1. ASSUME NEW Y \in SUBSET (1 .. n + 1), n + 1 \in Y PROVE Y \in T
      <4>1. Y \ {n + 1} \in S /\ Y = with(Y \ {n + 1})
        BY <3>0, <3>1
      <4> QED
        BY <4>1
    <3>2. ASSUME NEW Y \in SUBSET (1 .. n + 1), n + 1 \notin Y PROVE Y \in S
      BY <3>0, <3>2
    <3>3. S \cup T \subseteq SUBSET (1 .. n + 1)
      BY <3>0
    <3> QED
      BY <3>1, <3>2, <3>3
  <2>2. S \cap T = {}
    OBVIOUS
  <2>3. IsFiniteSet(S) /\ Cardinality(S) = 2^n /\ 2^n \in Nat
    BY <1>1
  <2>4. IsFiniteSet(T) /\ Cardinality(T) = Cardinality(S)
    <3> DEFINE f == [X \in S |-> with(X)]
    <3>1. f \in [S -> T]
      OBVIOUS
    <3>2. ASSUME NEW X \in S, NEW Y \in S, f[X] = f[Y] PROVE X = Y
      <4>1. X \cup {n + 1} = Y \cup {n + 1} /\ n + 1 \notin X /\ n + 1 \notin Y
        BY <3>2
      <4> QED
        BY <4>1
    <3>3. \A Y \in T : \E X \in S : f[X] = Y
      OBVIOUS
    <3>4. f \in Bijection(S, T)
      BY <3>1, <3>2, <3>3 DEF Bijection, Injection, Surjection, IsInjective
    <3> HIDE DEF S, T, f
    <3> QED
      BY <2>3, <3>4, FS_Bijection DEF ExistsBijection
  <2> HIDE DEF S, T
  <2>5. Cardinality(S \cup T) = Cardinality(S) + Cardinality(T)
    BY <2>2, <2>3, <2>4, FS_Union, FS_EmptySet
  <2>6. Cardinality(SUBSET (1 .. n + 1)) = 2^(n + 1)
    BY <1>1
  <2>7. 2^(n + 1) = 2^n + 2^n /\ 2^n \in Nat
    BY <2>1, <2>3, <2>4, <2>5, <2>6
  <2> QED
    BY <2>7
<1>4. \A n \in Nat : 2^n # 0
  <2>1. ASSUME NEW n \in Nat, 2^n = 0 PROVE FALSE
    <3>1. IsFiniteSet(SUBSET (1 .. n)) /\ Cardinality(SUBSET (1 .. n)) = 0
      BY <1>1, <2>1
    <3>2. SUBSET (1 .. n) = {}
      BY <3>1, FS_EmptySet
    <3> QED
      BY <3>2
  <2> QED
    BY <2>1
<1> QED
  BY <1>1, <1>2, <1>3, <1>4

\* By the least number of which it is not so.
LEMMA Powers ==
  /\ \A n \in Nat : n < 2^n
  /\ \A a, b \in Nat : 2^(a + b) = 2^a * 2^b
  /\ \A a, b \in Nat : a <= b => 2^a <= 2^b
<1>1. \A n \in Nat : n < 2^n
  <2> DEFINE T == {n \in Nat : ~(n < 2^n)}
  <2> SUFFICES ASSUME T # {} PROVE FALSE
    OBVIOUS
  <2>1. PICK n \in T : \A k \in T : n <= k
    <3>1. T \subseteq Nat
      OBVIOUS
    <3> HIDE DEF T
    <3> QED
      BY <3>1, LeastNumber
  <2>2. n \in Nat /\ ~(n < 2^n)
    OBVIOUS
  <2>3. CASE n = 0
    BY <2>2, <2>3, PowersOfTwo
  <2>4. CASE n # 0
    <3> DEFINE m == n - 1
    <3>1. m \in Nat /\ n = m + 1
      BY <2>2, <2>4
    <3>2. m < 2^m
      BY <2>1, <3>1
    <3> HIDE DEF m
    <3>3. 2^m \in Nat /\ 2^(m + 1) = 2 * 2^m
      BY <3>1, PowersOfTwo
    <3> QED
      BY <2>2, <3>1, <3>2, <3>3
  <2> QED
    BY <2>3, <2>4
<1>2. ASSUME NEW a \in Nat PROVE \A b \in Nat : 2^(a + b) = 2^a * 2^b
  <2> DEFINE T == {b \in Nat : 2^(a + b) # 2^a * 2^b}
  <2> SUFFICES ASSUME T # {} PROVE FALSE
    OBVIOUS
  <2>1. PICK b \in T : \A k \in T : b <= k
    <3>1. T \subseteq Nat
      OBVIOUS
    <3> HIDE DEF T
    <3> QED
      BY <3>1, LeastNumber
  <2>2. b \in Nat /\ 2^(a + b) # 2^a * 2^b
    OBVIOUS
  <2>3. CASE b = 0
    <3>1. a + b = a
      BY <2>3
    <3>2. 2^a * 1 = 2^a
      BY PowersOfTwo
    <3> QED
      BY <2>2, <2>3, <3>1, <3>2, PowersOfTwo
  <2>4. CASE b # 0
    <3> DEFINE m == b - 1
               p == 2^a
               q == 2^m
    <3>1. m \in Nat /\ b = m + 1 /\ a + b = (a + m) + 1
      BY <2>2, <2>4
    <3>2. 2^(a + m) = p * q
      BY <2>1, <3>1
    <3>3. p \in Nat /\ q \in Nat
      BY <3>1, PowersOfTwo
    <3>4. 2^b = 2 * q /\ 2^(a + b) = 2 * 2^(a + m)
      BY <3>1, PowersOfTwo
    <3> HIDE DEF m, p, q
    <3>5. 2 * (p * q) = p * (2 * q)
      BY <3>3, SMT
    <3>6. 2^(a + b) = p * 2^b
      BY <3>2, <3>4, <3>5
    <3> QED
      BY <2>2, <3>6 DEF p
  <2> QED
    BY <2>3, <2>4
<1>3. ASSUME NEW a \in Nat, NEW b \in Nat, a <= b PROVE 2^a <= 2^b
  <2> DEFINE p == 2^a
             q == 2^(b - a)
  <2>1. b - a \in Nat /\ b = a + (b - a)
    BY <1>3
  <2>2. 2^b = p * q
    BY <1>2, <2>1
  <2>3. p \in Nat /\ q \in Nat \ {0}
    BY <2>1, PowersOfTwo
  <2> HIDE DEF q
  <2>4. p * q >= p
    <3> HIDE DEF p
    <3>1. p * (q - 1) >= 0
      BY <2>3, SMT
    <3>2. p * (q - 1) = p * q - p
      BY <2>3, SMT
    <3>3. p * q \in Int
      BY <2>3, SMT
    <3> QED
      BY <2>3, <3>1, <3>2, <3>3
  <2>5. p * q \in Int
    BY <2>3, SMT
  <2> QED
    BY <2>2, <2>3, <2>4, <2>5
<1> QED
  BY <1>1, <1>2, <1>3

LEMMA DivisionTwice ==
  ASSUME NEW a \in Nat, NEW p \in Nat \ {0}, NEW q \in Nat \ {0},
         NEW pq, pq = p * q
  PROVE  pq \in Nat \ {0} /\ (a \div p) \div q = a \div pq
<1> DEFINE d == a \div p
           c == a % p
           e == d \div q
           f == d % q
<1>1. d \in Nat /\ c \in 0 .. p - 1 /\ a = c + d * p
  BY Division
<1>2. e \in Nat /\ f \in 0 .. q - 1 /\ d = f + e * q
  <2> HIDE DEF d
  <2> QED
    BY <1>1, Division
<1> HIDE DEF d, c, e, f
<1>3. p * q \in Nat \ {0}
  BY SMT
<1>4. c + f * p \in 0 .. p * q - 1
  <2>1. f * p + p <= q * p
    BY <1>2, Product
  <2>2. q * p = p * q /\ f * p \in Nat
    BY <1>2, SMT
  <2> QED
    BY <1>1, <1>2, <1>3, <2>1, <2>2
<1>5. a = (c + f * p) + e * (p * q)
  <2>1. d * p = f * p + e * (p * q)
    BY <1>2, SMT
  <2>2. d * p \in Int /\ f * p \in Int /\ e * (p * q) \in Int
    BY <1>1, <1>2, SMT
  <2> QED
    BY <1>1, <2>1, <2>2
<1>6. a \div (p * q) = e
  <2> DEFINE n == p * q
             g == c + f * p
  <2>1. n \in Nat \ {0} /\ g \in 0 .. n - 1 /\ a = g + e * n
    BY <1>3, <1>4, <1>5
  <2> HIDE DEF n, g
  <2>2. a \div n = e
    BY <1>2, <2>1, DivisionUnique
  <2> QED
    BY <2>2 DEF n
<1> QED
  BY <1>3, <1>6 DEF e, d

LEMMA Log2Known ==
  ASSUME NEW n \in Nat \ {0}, n < 2^AddrBits
  PROVE  /\ Log2(n) \in 0 .. AddrBits
         /\ 2^Log2(n) <= n /\ n < 2^(Log2(n) + 1)
<1> DEFINE T == {k \in Nat : n < 2^(k + 1)}
<1>1. AddrBits \in Nat /\ AddrBits \in T
  BY PowersOfTwo, MemAssumption
<1>2. PICK k \in T : \A j \in T : k <= j
  <2>1. T \subseteq Nat /\ T # {}
    BY <1>1
  <2> HIDE DEF T
  <2> QED
    BY <2>1, LeastNumber
<1>3. k \in 0 .. AddrBits
  BY <1>1, <1>2
<1>4. 2^k <= n
  <2>1. CASE k = 0
    BY <2>1, PowersOfTwo
  <2>2. CASE k # 0
    <3>1. k - 1 \in Nat /\ (k - 1) + 1 = k
      BY <2>2
    <3>2. ~(k - 1 \in T)
      BY <1>2, <3>1
    <3> QED
      BY <3>1, <3>2, PowersOfTwo
  <2> QED
    BY <2>1, <2>2
<1>5. \E j \in 0 .. AddrBits : 2^j <= n /\ n < 2^(j + 1)
  BY <1>2, <1>3, <1>4
<1> QED
  BY <1>5 DEF Log2

\* The bits of an address, from the lowest.
LEMMA Bits ==
  ASSUME NEW a \in Nat
  PROVE  /\ \A b \in Nat : Bit(a, b) \in {0, 1}
         /\ Bit(a, 0) = a % 2
         /\ a \div 2 \in Nat /\ a = 2 * (a \div 2) + (a % 2)
         /\ \A b \in Nat : Bit(a, b + 1) = Bit(a \div 2, b)
<1>1. ASSUME NEW b \in Nat PROVE Bit(a, b) \in {0, 1}
  <2> DEFINE p == 2^b
             q == a \div p
  <2>1. p \in Nat \ {0}
    BY PowersOfTwo
  <2> HIDE DEF p
  <2>2. q \in Nat
    BY <2>1, Division
  <2>3. q % 2 \in {0, 1}
    BY <2>2, SMT
  <2> QED
    BY <2>3 DEF Bit, p
<1>2. Bit(a, 0) = a % 2
  <2>1. a \div 1 = a
    BY SMT
  <2> QED
    BY <2>1, PowersOfTwo DEF Bit
<1>3. a \div 2 \in Nat /\ a = 2 * (a \div 2) + (a % 2)
  BY SMT
<1>4. ASSUME NEW b \in Nat PROVE Bit(a, b + 1) = Bit(a \div 2, b)
  <2> DEFINE p == 2^b
  <2>1. p \in Nat \ {0} /\ 2^(b + 1) = 2 * p
    BY PowersOfTwo
  <2>2. Bit(a, b + 1) = (a \div (2 * p)) % 2
    BY <2>1 DEF Bit
  <2>3. Bit(a \div 2, b) = ((a \div 2) \div p) % 2
    BY DEF Bit
  <2> HIDE DEF p
  <2>4. (a \div 2) \div p = a \div (2 * p)
    BY <2>1, DivisionTwice
  <2> QED
    BY <2>2, <2>3, <2>4
<1> QED
  BY <1>1, <1>2, <1>3, <1>4

\* Numbers of n bits: there is one for all values of them, and only one.
LEMMA BitVector ==
  \A n \in Nat : \A v \in [Nat -> {0, 1}] :
    \E m \in 0 .. 2^n - 1 : \A k \in 0 .. n - 1 : Bit(m, k) = v[k]
<1> DEFINE Has(n, v) == \E m \in 0 .. 2^n - 1 : \A k \in 0 .. n - 1 : Bit(m, k) = v[k]
           T == {n \in Nat : \E v \in [Nat -> {0, 1}] : ~Has(n, v)}
<1> SUFFICES ASSUME T # {} PROVE FALSE
  OBVIOUS
<1>1. PICK n \in T : \A k \in T : n <= k
  <2>1. T \subseteq Nat
    OBVIOUS
  <2> HIDE DEF T
  <2> QED
    BY <2>1, LeastNumber
<1>2. n \in Nat
  OBVIOUS
<1>3. PICK v \in [Nat -> {0, 1}] : ~Has(n, v)
  OBVIOUS
<1>4. CASE n = 0
  <2>1. 0 \in 0 .. 2^n - 1
    BY <1>4, PowersOfTwo
  <2>2. \A k \in 0 .. n - 1 : Bit(0, k) = v[k]
    BY <1>4
  <2> QED
    BY <1>3, <2>1, <2>2
<1>5. CASE n # 0
  <2> DEFINE j == n - 1
             w == [k \in Nat |-> v[k + 1]]
  <2>1. j \in Nat /\ n = j + 1 /\ w \in [Nat -> {0, 1}]
    BY <1>2, <1>5
  <2>2. j \notin T
    BY <1>1, <2>1
  <2>3. Has(j, w)
    BY <2>1, <2>2
  <2>4. PICK m \in 0 .. 2^j - 1 : \A k \in 0 .. j - 1 : Bit(m, k) = w[k]
    BY <2>3
  <2> DEFINE a == 2 * m + v[0]
  <2>5. 2^j \in Nat /\ 2^n = 2 * 2^j /\ v[0] \in {0, 1}
    BY <2>1, PowersOfTwo
  <2>6. a \in 0 .. 2^n - 1 /\ a \div 2 = m /\ a % 2 = v[0] /\ m \in Nat
    <3> DEFINE q == 2^j
               u == v[0]
    <3>1. q \in Nat /\ 2^n = 2 * q /\ u \in {0, 1} /\ m \in 0 .. q - 1
      BY <2>5
    <3> HIDE DEF q, u
    <3>2. 2 * m + u \in 0 .. 2 * q - 1
      BY <3>1
    <3>3. (2 * m + u) \div 2 = m /\ (2 * m + u) % 2 = u /\ m \in Nat
      BY <3>1, SMT
    <3> QED
      BY <3>1, <3>2, <3>3 DEF u
  <2> HIDE DEF a, j
  <2>7. a \in Nat
    BY <2>5, <2>6, <1>2
  <2>8. ASSUME NEW k \in 0 .. n - 1 PROVE Bit(a, k) = v[k]
    <3>1. CASE k = 0
      BY <2>6, <2>7, <3>1, Bits
    <3>2. CASE k # 0
      <4>1. k - 1 \in 0 .. j - 1 /\ k - 1 \in Nat /\ (k - 1) + 1 = k
        BY <2>1, <3>2
      <4>2. Bit(m, k - 1) = v[k]
        BY <2>4, <4>1
      <4>3. Bit(a, (k - 1) + 1) = Bit(a \div 2, k - 1)
        BY <2>7, <4>1, Bits
      <4> QED
        BY <2>6, <4>1, <4>2, <4>3
    <3> QED
      BY <3>1, <3>2
  <2> QED
    BY <1>3, <2>6, <2>8
<1> QED
  BY <1>4, <1>5

LEMMA BitsTell ==
  \A n \in Nat : \A a, b \in 0 .. 2^n - 1 :
    (\A k \in 0 .. n - 1 : Bit(a, k) = Bit(b, k)) => a = b
<1> DEFINE Below(n) == 0 .. 2^n - 1
           Same(n, a, b) == \A k \in 0 .. n - 1 : Bit(a, k) = Bit(b, k)
           T == {n \in Nat : \E a, b \in Below(n) : Same(n, a, b) /\ a # b}
<1> SUFFICES ASSUME T # {} PROVE FALSE
  <2>1. ASSUME NEW n \in Nat, NEW a \in Below(n), NEW b \in Below(n), Same(n, a, b)
        PROVE  a = b
    <3>1. n \notin T
      OBVIOUS
    <3> HIDE DEF Below, Same
    <3> QED
      BY <2>1, <3>1
  <2> QED
    BY <2>1
<1>1. PICK n \in T : \A k \in T : n <= k
  <2>1. T \subseteq Nat
    OBVIOUS
  <2> HIDE DEF T
  <2> QED
    BY <2>1, LeastNumber
<1>2. n \in Nat
  OBVIOUS
<1>3. PICK a \in Below(n), b \in Below(n) : Same(n, a, b) /\ a # b
  OBVIOUS
<1>4. CASE n = 0
  <2>1. a \in 0 .. 0 /\ b \in 0 .. 0
    BY <1>4, PowersOfTwo
  <2> QED
    BY <1>3, <2>1
<1>5. CASE n # 0
  <2> DEFINE j == n - 1
             q == 2^j
             c == a \div 2
             d == b \div 2
  <2>1. j \in Nat /\ n = j + 1 /\ q \in Nat /\ 2^n = 2 * q
    BY <1>2, <1>5, PowersOfTwo
  <2>2. a \in Nat /\ b \in Nat /\ a < 2 * q /\ b < 2 * q
    BY <1>3, <2>1
  <2>3. /\ c \in Nat /\ a = 2 * c + (a % 2) /\ Bit(a, 0) = a % 2 /\ a % 2 \in {0, 1}
        /\ d \in Nat /\ b = 2 * d + (b % 2) /\ Bit(b, 0) = b % 2 /\ b % 2 \in {0, 1}
    BY <2>2, Bits
  <2>4. c \in 0 .. q - 1 /\ d \in 0 .. q - 1
    <3> DEFINE e == a % 2
               f == b % 2
    <3>1. a = 2 * c + e /\ b = 2 * d + f /\ e \in {0, 1} /\ f \in {0, 1}
      BY <2>3
    <3> HIDE DEF c, d, e, f, q
    <3> QED
      BY <2>1, <2>2, <2>3, <3>1
  <2>5. Same(j, c, d)
    <3> SUFFICES ASSUME NEW k \in 0 .. j - 1 PROVE Bit(c, k) = Bit(d, k)
      OBVIOUS
    <3>1. k \in Nat /\ k + 1 \in 0 .. n - 1
      BY <2>1
    <3>2. Bit(a, k + 1) = Bit(c, k) /\ Bit(b, k + 1) = Bit(d, k)
      BY <2>2, <3>1, Bits
    <3> QED
      BY <1>3, <3>1, <3>2
  <2>6. Bit(a, 0) = Bit(b, 0)
    BY <1>2, <1>3, <1>5
  <2>7. c # d
    BY <1>3, <2>3, <2>6
  <2>8. j \in T
    BY <2>1, <2>4, <2>5, <2>7
  <2> QED
    BY <1>1, <2>1, <2>8
<1> QED
  BY <1>4, <1>5

\* The addresses of a block have the same bits above those of the block.
LEMMA BlockBits ==
  ASSUME NEW a \in Nat, NEW p \in Nat, NEW b \in Nat, p <= b
  PROVE  /\ a - (a % 2^p) \in Nat /\ a - (a % 2^p) <= a
         /\ Bit(a - (a % 2^p), b) = Bit(a, b)
<1> DEFINE q == 2^p
           m == a % q
           d == a \div q
           s == 2^(b - p)
<1>1. q \in Nat \ {0} /\ b - p \in Nat /\ s \in Nat \ {0}
  BY PowersOfTwo
<1>2. 2^b = q * s
  <2>1. b = p + (b - p)
    OBVIOUS
  <2> QED
    BY <1>1, <2>1, Powers
<1> HIDE DEF q, s
<1>3. d \in Nat /\ m \in 0 .. q - 1 /\ a = m + d * q
  BY <1>1, Division
<1> HIDE DEF m, d
<1>4. d * q \in Nat
  BY <1>1, <1>3, SMT
<1>5. a - m = d * q
  BY <1>3, <1>4
<1>6. (0 + d * q) \div q = d
  BY <1>1, <1>3, DivisionUnique
<1>7. (a - m) \div q = d
  <2>1. 0 + d * q = d * q
    BY <1>4
  <2> QED
    BY <1>5, <1>6, <2>1
<1>8. a - m \in Nat /\ a - m <= a
  BY <1>3, <1>4, <1>5
<1>9. (a - m) \div (q * s) = a \div (q * s)
  <2>1. \A x \in Nat : (x \div q) \div s = x \div (q * s)
    <3> SUFFICES ASSUME NEW x \in Nat PROVE (x \div q) \div s = x \div (q * s)
      OBVIOUS
    <3> DEFINE n == q * s
    <3>1. n = q * s
      OBVIOUS
    <3> HIDE DEF n
    <3>2. (x \div q) \div s = x \div n
      BY <1>1, <3>1, DivisionTwice
    <3> QED
      BY <3>1, <3>2
  <2>2. a \div q = (a - m) \div q
    BY <1>7 DEF d
  <2> QED
    BY <1>8, <2>1, <2>2
<1>10. Bit(a - m, b) = Bit(a, b)
  BY <1>2, <1>9 DEF Bit
<1> QED
  BY <1>8, <1>10 DEF m, q

-----------------------------------------------------------------------------
(* The invariant of the loops.                                             *)

All == (1 .. Len(opts.ranges)) \X (0 .. opts.num - 1)

\* The interface of a range's channel.
ForDRAMs(k) ==
  opts.mem_type # NoType /\ (opts.nvm_type = NoType \/ k % 2 = 1)
TypeFor(k) ==
  IF opts.driver = "config_mem" /\ ~ForDRAMs(k) THEN opts.nvm_type
                                                ELSE opts.mem_type
IntfOf(k, ch) ==
  IF opts.driver = "chi"
  THEN AddrRange(opts.ranges[k], Log2(opts.cacheline_size), IntlvBits, 0, ch)
  ELSE AddrRange(opts.ranges[k], LowBit(TypeFor(k)), IntlvBits,
                 opts.xor_low_bit, ch)

RangeTypes == {NoRange} \cup {IntfOf(x[1], x[2]) : x \in All}
CtrlTypes  == [dram : RangeTypes, nvm : RangeTypes, port : Nat]

\* The channels the loops have been through.
Before(k, ch) ==
  IF opts.driver = "config_mem" THEN k < r \/ (k = r /\ ch < i)
                                ELSE ch < i \/ (ch = i /\ k < r)
MadeSoFar == {x \in All : pc = "create" => Before(x[1], x[2])}

Building == pc \in {"create", "hook_up", "connect", "done"}

TypesOK ==
  /\ opts \in Options
  /\ r \in 1 .. Len(opts.ranges)
  /\ i \in 0 .. opts.num - 1
  /\ mem_ctrls \in Seq(CtrlTypes)
  /\ nvm_intfs \in Seq(RangeTypes)
  /\ pc = "check" => r = 1 /\ i = 0 /\ mem_ctrls = <<>> /\ nvm_intfs = <<>>
  /\ pc \in {"hook_up", "connect"} => opts.driver = "config_mem"
  /\ (Building /\ opts.driver = "config_mem") => ~Refused

Shared == opts.driver = "config_mem" /\ opts.hybrid_channel

\* Interfaces wait only for a channel to share, and are of one kind until then.
WaitOK ==
  /\ ~Shared => nvm_intfs = <<>>
  /\ pc \in {"create", "hook_up"} => \A k \in 1 .. Len(mem_ctrls) :
       /\ Shared => mem_ctrls[k].nvm = NoRange
       /\ mem_ctrls[k].dram = NoRange \/ mem_ctrls[k].nvm = NoRange

\* The interfaces of either kind count the channels again and again.
MatchOK ==
  (Shared /\ pc \in {"create", "hook_up"}) =>
    /\ \A k \in 1 .. Len(mem_ctrls) :
         mem_ctrls[k].dram.match = (k - 1) % opts.num
    /\ \A k \in 1 .. Len(nvm_intfs) : nvm_intfs[k].match = (k - 1) % opts.num
    /\ pc = "create" =>
         /\ Len(mem_ctrls) % opts.num = IF ForDRAM THEN i ELSE 0
         /\ Len(nvm_intfs) % opts.num = IF ForDRAM THEN 0 ELSE i
SharedMatch ==
  pc \in {"connect", "done"} => \A k \in 1 .. Len(mem_ctrls) :
    (mem_ctrls[k].dram # NoRange /\ mem_ctrls[k].nvm # NoRange) =>
      mem_ctrls[k].dram.match = mem_ctrls[k].nvm.match

\* The vaults of a cube in their order.
VaultsOK ==
  (opts.hmc /\ Building) =>
    /\ Len(mem_ctrls) = IF pc = "create" THEN (r - 1) * opts.num + i
                                         ELSE Vaults * opts.num
    /\ opts.num = 1 => \A k \in 1 .. Len(mem_ctrls) :
         mem_ctrls[k].dram.start = opts.ranges[k].start
    /\ pc = "done" =>
         /\ Len(mem_ctrls) <= 4 * Crossbars
         /\ \A k \in 1 .. Len(mem_ctrls) : mem_ctrls[k].port = (k - 1) \div 4

-----------------------------------------------------------------------------
(* The steps: what a loop goes on to, and what it has made.                *)

LEMMA TheOptions ==
  ASSUME TypesOK
  PROVE  /\ opts \in OptionTypes
         /\ opts.num \in Nat \ {0}
         /\ Len(opts.ranges) \in Nat \ {0}
         /\ r \in Nat \ {0} /\ r <= Len(opts.ranges)
         /\ i \in Nat /\ i < opts.num
         /\ <<r, i>> \in All
         /\ opts.ranges \in Seq([start : Nat, size : Nat \ {0}])
         /\ \A k \in 1 .. Len(opts.ranges) :
              opts.ranges[k].start \in Nat /\ opts.ranges[k].size \in Nat \ {0}
<1>1. opts \in OptionTypes
  BY MemAssumption DEF TypesOK
<1>2. opts.num \in Nat \ {0}
  BY <1>1 DEF OptionTypes
<1>3. /\ opts.ranges \in Seq([start : Nat, size : Nat \ {0}])
      /\ opts.ranges # <<>>
  BY <1>1 DEF OptionTypes
<1>4. /\ Len(opts.ranges) \in Nat \ {0}
      /\ \A k \in 1 .. Len(opts.ranges) :
           opts.ranges[k] \in [start : Nat, size : Nat \ {0}]
  <2> DEFINE S == [start : Nat, size : Nat \ {0}]
             seq == opts.ranges
  <2>1. seq \in Seq(S) /\ seq # <<>>
    BY <1>3
  <2> HIDE DEF S, seq
  <2>2. Len(seq) \in Nat \ {0}
    BY <2>1, EmptySeq
  <2>3. \A k \in 1 .. Len(seq) : seq[k] \in S
    BY <2>1
  <2> QED
    BY <2>2, <2>3 DEF seq, S
<1>5. \A k \in 1 .. Len(opts.ranges) :
        opts.ranges[k].start \in Nat /\ opts.ranges[k].size \in Nat \ {0}
  BY <1>4
<1>6. r \in Nat \ {0} /\ r <= Len(opts.ranges) /\ i \in Nat /\ i < opts.num
  BY <1>2, <1>4 DEF TypesOK
<1>7. <<r, i>> \in All
  BY DEF TypesOK, All
<1> QED
  BY <1>1, <1>2, <1>3, <1>4, <1>5, <1>6, <1>7

\* Wherever a loop goes, it has made one channel more, and at its end all.
LEMMA Advanced ==
  ASSUME TypesOK, pc = "create", UNCHANGED opts,
         NEW last \in {"hook_up", "done"}, Advance(last)
  PROVE  /\ r' \in 1 .. Len(opts.ranges) /\ i' \in 0 .. opts.num - 1
         /\ pc' = "create" \/ pc' = last
         /\ <<r, i>> \in All /\ <<r, i>> \notin MadeSoFar
         /\ All' = All
         /\ MadeSoFar' = MadeSoFar \cup {<<r, i>>}
<1>1. /\ opts.num \in Nat \ {0} /\ Len(opts.ranges) \in Nat \ {0}
      /\ r \in Nat \ {0} /\ r <= Len(opts.ranges) /\ i \in Nat /\ i < opts.num
      /\ <<r, i>> \in All
  BY TheOptions
<1> DEFINE m == Len(opts.ranges)
           n == opts.num
<1>2. /\ m' = m /\ n' = n /\ All' = All
      /\ \A x \in All : x = <<x[1], x[2]>> /\ x[1] \in 1 .. m /\ x[2] \in 0 .. n - 1
  BY DEF All
<1>3. CASE opts.driver = "config_mem"
  <2>1. /\ MadeSoFar = {x \in All : x[1] < r \/ (x[1] = r /\ x[2] < i)}
        /\ MadeSoFar' = {x \in All : pc' = "create" =>
                                       x[1] < r' \/ (x[1] = r' /\ x[2] < i')}
    BY <1>2, <1>3 DEF MadeSoFar, Before
  <2>2. NextController(last, n)
    BY <1>3 DEF Advance
  <2>3. CASE i < n - 1 /\ i' = i + 1 /\ UNCHANGED <<r, pc>>
    <3>1. \A x \in All : (x[1] < r \/ (x[1] = r /\ x[2] < i + 1))
                           <=> ((x[1] < r \/ (x[1] = r /\ x[2] < i)) \/ x = <<r, i>>)
      BY <1>1, <1>2
    <3> QED
      BY <1>1, <1>2, <2>1, <2>3, <3>1
  <2>4. CASE i = n - 1 /\ r < m /\ i' = 0 /\ r' = r + 1 /\ UNCHANGED pc
    <3>1. \A x \in All : (x[1] < r + 1 \/ (x[1] = r + 1 /\ x[2] < 0))
                           <=> ((x[1] < r \/ (x[1] = r /\ x[2] < i)) \/ x = <<r, i>>)
      BY <1>1, <1>2, <2>4
    <3> QED
      BY <1>1, <1>2, <2>1, <2>4, <3>1
  <2>5. CASE i = n - 1 /\ r = m /\ pc' = last /\ UNCHANGED <<r, i>>
    <3>1. \A x \in All : (x[1] < r \/ (x[1] = r /\ x[2] < i)) \/ x = <<r, i>>
      BY <1>1, <1>2, <2>5
    <3> QED
      BY <1>1, <1>2, <2>1, <2>5, <3>1
  <2> QED
    BY <2>2, <2>3, <2>4, <2>5 DEF NextController
<1>4. CASE opts.driver # "config_mem"
  <2>1. /\ MadeSoFar = {x \in All : x[2] < i \/ (x[2] = i /\ x[1] < r)}
        /\ MadeSoFar' = {x \in All : pc' = "create" =>
                                       x[2] < i' \/ (x[2] = i' /\ x[1] < r')}
    BY <1>2, <1>4 DEF MadeSoFar, Before
  <2>2. NextRange(last, n)
    BY <1>4 DEF Advance
  <2>3. CASE r < m /\ r' = r + 1 /\ UNCHANGED <<i, pc>>
    <3>1. \A x \in All : (x[2] < i \/ (x[2] = i /\ x[1] < r + 1))
                           <=> ((x[2] < i \/ (x[2] = i /\ x[1] < r)) \/ x = <<r, i>>)
      BY <1>1, <1>2
    <3> QED
      BY <1>1, <1>2, <2>1, <2>3, <3>1
  <2>4. CASE r = m /\ i < n - 1 /\ r' = 1 /\ i' = i + 1 /\ UNCHANGED pc
    <3>1. \A x \in All : (x[2] < i + 1 \/ (x[2] = i + 1 /\ x[1] < 1))
                           <=> ((x[2] < i \/ (x[2] = i /\ x[1] < r)) \/ x = <<r, i>>)
      BY <1>1, <1>2, <2>4
    <3> QED
      BY <1>1, <1>2, <2>1, <2>4, <3>1
  <2>5. CASE r = m /\ i = n - 1 /\ pc' = last /\ UNCHANGED <<r, i>>
    <3>1. \A x \in All : (x[2] < i \/ (x[2] = i /\ x[1] < r)) \/ x = <<r, i>>
      BY <1>1, <1>2, <2>5
    <3> QED
      BY <1>1, <1>2, <2>1, <2>5, <3>1
  <2> QED
    BY <2>2, <2>3, <2>4, <2>5 DEF NextRange
<1> QED
  BY <1>3, <1>4

\* An action of the loops creates the interface of their channel, and puts it
\* into a controller or keeps it for one.
Creates ==
  CreateDRAM \/ CreateNVM \/ CreateDirectoryRange \/ CreateHomeRange

ForOwn(intf) == \E p \in Nat : /\ mem_ctrls' = Append(mem_ctrls, Ctrl(intf, NoRange, p))
                               /\ nvm_intfs' = nvm_intfs
ForNVM(intf) == /\ mem_ctrls' = Append(mem_ctrls, Ctrl(NoRange, intf, 0))
                /\ nvm_intfs' = nvm_intfs
ForLater(intf) == /\ nvm_intfs' = Append(nvm_intfs, intf)
                  /\ mem_ctrls' = mem_ctrls

LastOf == IF opts.driver = "config_mem" THEN "hook_up" ELSE "done"

LEMMA Creation ==
  ASSUME TypesOK, Creates, pc' # "error"
  PROVE  /\ pc = "create" /\ UNCHANGED opts
         /\ Advance(LastOf) /\ LastOf \in {"hook_up", "done"}
         /\ \/ (opts.driver = "config_mem" => ForDRAM) /\ ForOwn(IntfOf(r, i))
            \/ /\ opts.driver = "config_mem" /\ ~ForDRAM /\ ~opts.hybrid_channel
               /\ ForNVM(IntfOf(r, i))
            \/ /\ opts.driver = "config_mem" /\ ~ForDRAM /\ opts.hybrid_channel
               /\ ForLater(IntfOf(r, i))
         /\ opts.driver # "config_mem" => Representable(IntfOf(r, i))
<1>0. LastOf \in {"hook_up", "done"} /\ i \in Nat
  BY TheOptions DEF LastOf
<1>1. CASE CreateDRAM
  <2>1. MemIntf(opts.mem_type) = IntfOf(r, i)
    BY <1>1 DEF CreateDRAM, MemIntf, IntfOf, TypeFor, ForDRAMs, ForDRAM
  <2> QED
    BY <1>0, <1>1, <2>1 DEF CreateDRAM, ForOwn, LastOf
<1>2. CASE CreateNVM
  <2>1. MemIntf(opts.nvm_type) = IntfOf(r, i)
    BY <1>2 DEF CreateNVM, MemIntf, IntfOf, TypeFor, ForDRAMs, ForDRAM
  <2> QED
    BY <1>0, <1>2, <2>1 DEF CreateNVM, ForNVM, ForLater, LastOf
<1>3. CASE CreateDirectoryRange
  <2>1. MemIntf(opts.mem_type) = IntfOf(r, i)
    BY <1>3 DEF CreateDirectoryRange, MemIntf, IntfOf, TypeFor
  <2> QED
    BY <1>0, <1>3, <2>1 DEF CreateDirectoryRange, ForOwn, LastOf, Fail
<1>4. CASE CreateHomeRange
  <2>1. HomeRange = IntfOf(r, i)
    BY <1>4 DEF CreateHomeRange, HomeRange, IntfOf
  <2> QED
    BY <1>0, <1>4, <2>1 DEF CreateHomeRange, ForOwn, LastOf, Fail
<1> QED
  BY <1>1, <1>2, <1>3, <1>4 DEF Creates

LEMMA TypesKept ==
  ASSUME UNCHANGED opts
  PROVE  /\ All' = All /\ RangeTypes' = RangeTypes /\ CtrlTypes' = CtrlTypes
         /\ Refused' = Refused /\ Shared' = Shared
         /\ \A k, ch : IntfOf(k, ch)' = IntfOf(k, ch)
<1>1. All' = All
  BY DEF All
<1>2. IntlvBits' = IntlvBits /\ IntlvSize' = IntlvSize /\ Refused' = Refused
  BY DEF IntlvBits, IntlvSize, DirBlock, Refused
<1>3. \A type : LowBit(type)' = LowBit(type)
  BY <1>2 DEF LowBit
<1>4. \A k : TypeFor(k)' = TypeFor(k)
  BY DEF TypeFor, ForDRAMs
<1>5. \A k, ch : IntfOf(k, ch)' = IntfOf(k, ch)
  BY <1>2, <1>3, <1>4 DEF IntfOf
<1>6. RangeTypes' = RangeTypes
  BY <1>1, <1>5 DEF RangeTypes
<1> QED
  BY <1>1, <1>2, <1>5, <1>6 DEF CtrlTypes, Shared

-----------------------------------------------------------------------------
(* Each step keeps the invariant.                                          *)

InterInv == TypesOK /\ WaitOK /\ MatchOK /\ SharedMatch /\ VaultsOK

\* Nothing is made, and pc stays or the loops have been left.
LEMMA NothingMade ==
  ASSUME InterInv, UNCHANGED <<opts, r, i, mem_ctrls, nvm_intfs>>,
         pc' = pc \/ pc' \in {"error", "returned"}
  PROVE  InterInv'
<1>1. CASE pc' = pc
  <2>1. TypesOK'
    BY <1>1, TypesKept DEF InterInv, TypesOK, Building
  <2>2. WaitOK'
    BY <1>1 DEF InterInv, WaitOK, Shared
  <2>3. MatchOK' /\ SharedMatch'
    BY <1>1 DEF InterInv, MatchOK, SharedMatch, Shared, ForDRAM
  <2>4. VaultsOK'
    BY <1>1 DEF InterInv, VaultsOK, Building
  <2> QED
    BY <2>1, <2>2, <2>3, <2>4 DEF InterInv
<1>2. CASE pc' \in {"error", "returned"}
  <2>1. TypesOK'
    BY <1>2, TypesKept DEF InterInv, TypesOK, Building
  <2>2. WaitOK'
    BY <1>2 DEF InterInv, WaitOK, Shared
  <2>3. MatchOK' /\ SharedMatch'
    BY <1>2 DEF MatchOK, SharedMatch
  <2>4. VaultsOK'
    BY <1>2 DEF VaultsOK, Building
  <2> QED
    BY <2>1, <2>2, <2>3, <2>4 DEF InterInv
<1> QED
  BY <1>1, <1>2

LEMMA CheckKeeps == InterInv /\ Check => InterInv'
<1> SUFFICES ASSUME InterInv, Check PROVE InterInv'
  OBVIOUS
<1>1. CASE pc' = "error"
  BY <1>1, NothingMade DEF Check, Fail
<1>2. CASE pc' # "error"
  <2>1. /\ pc = "check" /\ pc' = "create"
        /\ UNCHANGED <<opts, r, i, mem_ctrls, nvm_intfs>>
        /\ opts.driver = "config_mem" => ~Refused
        /\ r = 1 /\ i = 0 /\ mem_ctrls = <<>> /\ nvm_intfs = <<>>
    BY <1>2 DEF Check, Fail, InterInv, TypesOK
  <2>2. opts.num \in Nat \ {0}
    BY TheOptions DEF InterInv
  <2>3. TypesOK'
    BY <2>1, TypesKept DEF InterInv, TypesOK, Building
  <2>4. WaitOK' /\ SharedMatch'
    BY <2>1 DEF WaitOK, SharedMatch
  <2>5. MatchOK'
    <3>1. 0 % opts.num = 0
      BY <2>2, SMT
    <3> QED
      BY <2>1, <3>1 DEF MatchOK
  <2>6. VaultsOK'
    <3>1. (r - 1) * opts.num + i = 0
      BY <2>1, <2>2, SMT
    <3> QED
      BY <2>1, <3>1 DEF VaultsOK
  <2> QED
    BY <2>3, <2>4, <2>5, <2>6 DEF InterInv
<1> QED
  BY <1>1, <1>2

LEMMA IntfTypes ==
  ASSUME TypesOK
  PROVE  /\ IntfOf(r, i) \in RangeTypes /\ NoRange \in RangeTypes
         /\ \A p \in Nat : /\ Ctrl(IntfOf(r, i), NoRange, p) \in CtrlTypes
                           /\ Ctrl(NoRange, IntfOf(r, i), p) \in CtrlTypes
         /\ IntfOf(r, i).match = i
         /\ IntfOf(r, i).start = opts.ranges[r].start
<1>1. <<r, i>> \in All
  BY TheOptions
<1>2. IntfOf(r, i) \in RangeTypes /\ NoRange \in RangeTypes
  BY <1>1 DEF RangeTypes
<1>3. /\ IntfOf(r, i).match = i
      /\ IntfOf(r, i).start = opts.ranges[r].start
  BY DEF IntfOf, AddrRange
<1> QED
  BY <1>2, <1>3 DEF Ctrl, CtrlTypes

LEMMA CreatesKeep == InterInv /\ Creates => InterInv'
<1> SUFFICES ASSUME InterInv, Creates PROVE InterInv'
  OBVIOUS
<1>1. CASE pc' = "error"
  <2>1. \A last \in {"hook_up", "done"} : pc = "create" /\ Advance(last) => pc' # "error"
    BY DEF Advance, NextController, NextRange
  <2>2. Fail
    BY <1>1, <2>1 DEF Creates, CreateDRAM, CreateNVM, CreateDirectoryRange,
                      CreateHomeRange
  <2> QED
    BY <2>2, NothingMade DEF Fail
<1>2. CASE pc' # "error"
  <2> DEFINE x == IntfOf(r, i)
             n == opts.num
             lm == Len(mem_ctrls)
             ln == Len(nvm_intfs)
  <2>0. TypesOK
    BY DEF InterInv
  <2>1. /\ pc = "create" /\ UNCHANGED opts
        /\ Advance(LastOf) /\ LastOf \in {"hook_up", "done"}
        /\ \/ (opts.driver = "config_mem" => ForDRAM) /\ ForOwn(x)
           \/ /\ opts.driver = "config_mem" /\ ~ForDRAM /\ ~opts.hybrid_channel
              /\ ForNVM(x)
           \/ /\ opts.driver = "config_mem" /\ ~ForDRAM /\ opts.hybrid_channel
              /\ ForLater(x)
    BY <1>2, <2>0, Creation
  <2>2. /\ r' \in 1 .. Len(opts.ranges) /\ i' \in 0 .. n - 1
        /\ pc' = "create" \/ pc' = LastOf
    BY <2>0, <2>1, Advanced
  <2>3. /\ x \in RangeTypes /\ NoRange \in RangeTypes
        /\ \A p \in Nat : /\ Ctrl(x, NoRange, p) \in CtrlTypes
                          /\ Ctrl(NoRange, x, p) \in CtrlTypes
        /\ x.match = i /\ x.start = opts.ranges[r].start
    BY <2>0, IntfTypes
  <2>4. /\ RangeTypes' = RangeTypes /\ CtrlTypes' = CtrlTypes
        /\ Refused' = Refused /\ Shared' = Shared
    BY <2>1, TypesKept
  <2>5. /\ mem_ctrls \in Seq(CtrlTypes) /\ nvm_intfs \in Seq(RangeTypes)
        /\ lm \in Nat /\ ln \in Nat
    BY <2>0 DEF TypesOK
  <2>6. /\ n \in Nat \ {0} /\ Len(opts.ranges) \in Nat \ {0}
        /\ r \in Nat \ {0} /\ i \in Nat /\ i < n
    BY <2>0, TheOptions
  <2> HIDE DEF x
  <2>7. \A p \in Nat : \A c \in {Ctrl(x, NoRange, p), Ctrl(NoRange, x, p)} :
          mem_ctrls' = Append(mem_ctrls, c) =>
            /\ mem_ctrls' \in Seq(CtrlTypes) /\ Len(mem_ctrls') = lm + 1
            /\ \A k \in 1 .. lm : mem_ctrls'[k] = mem_ctrls[k]
            /\ mem_ctrls'[lm + 1] = c
    BY <2>3, <2>5, AppendProperties
  <2>8. nvm_intfs' = Append(nvm_intfs, x) =>
          /\ nvm_intfs' \in Seq(RangeTypes) /\ Len(nvm_intfs') = ln + 1
          /\ \A k \in 1 .. ln : nvm_intfs'[k] = nvm_intfs[k]
          /\ nvm_intfs'[ln + 1] = x
    BY <2>3, <2>5, AppendProperties
  <2>9. TypesOK'
    <3>1. mem_ctrls' \in Seq(CtrlTypes) /\ nvm_intfs' \in Seq(RangeTypes)
      BY <2>1, <2>5, <2>7, <2>8 DEF ForOwn, ForNVM, ForLater
    <3>2. pc' # "check" /\ (pc' \in {"hook_up", "connect"} => opts.driver = "config_mem")
      BY <2>1, <2>2 DEF LastOf
    <3>3. opts.driver = "config_mem" => ~Refused
      BY <2>0, <2>1 DEF TypesOK, Building
    <3> QED
      BY <2>0, <2>1, <2>2, <2>4, <3>1, <3>2, <3>3 DEF TypesOK
  <2>10. WaitOK'
    <3>1. WaitOK
      BY DEF InterInv
    <3>2. ~Shared' => nvm_intfs' = <<>>
      BY <2>1, <2>4, <3>1 DEF WaitOK, Shared, ForOwn, ForNVM, ForLater
    <3>3. \A k \in 1 .. lm :
             /\ Shared => mem_ctrls[k].nvm = NoRange
             /\ mem_ctrls[k].dram = NoRange \/ mem_ctrls[k].nvm = NoRange
      BY <2>1, <3>1 DEF WaitOK
    <3>4. \A k \in 1 .. Len(mem_ctrls') :
             /\ Shared => mem_ctrls'[k].nvm = NoRange
             /\ mem_ctrls'[k].dram = NoRange \/ mem_ctrls'[k].nvm = NoRange
      <4>1. CASE ForOwn(x)
        BY <2>5, <2>7, <3>3, <4>1 DEF ForOwn, Ctrl
      <4>2. CASE ~opts.hybrid_channel /\ ForNVM(x)
        BY <2>5, <2>7, <3>3, <4>2 DEF ForNVM, Ctrl, Shared
      <4>3. CASE ForLater(x)
        BY <3>3, <4>3 DEF ForLater
      <4> QED
        BY <2>1, <4>1, <4>2, <4>3
    <3> QED
      BY <2>4, <3>2, <3>4 DEF WaitOK
  <2>11. SharedMatch'
    <3>1. pc' \in {"connect", "done"} => opts.driver # "config_mem"
      BY <2>1, <2>2 DEF LastOf
    <3>2. CASE opts.driver # "config_mem"
      <4>1. \A k \in 1 .. Len(mem_ctrls') :
              mem_ctrls'[k].dram = NoRange \/ mem_ctrls'[k].nvm = NoRange
        <5>1. \A k \in 1 .. lm :
                mem_ctrls[k].dram = NoRange \/ mem_ctrls[k].nvm = NoRange
          BY <2>1 DEF InterInv, WaitOK
        <5>2. ForOwn(x)
          BY <2>1, <3>2
        <5> QED
          BY <2>5, <2>7, <5>1, <5>2 DEF ForOwn, Ctrl
      <4> QED
        BY <4>1 DEF SharedMatch
    <3> QED
      BY <3>1, <3>2 DEF SharedMatch
  <2>12. MatchOK'
    <3> SUFFICES ASSUME Shared, pc' \in {"create", "hook_up"} PROVE MatchOK'
      BY <2>4 DEF MatchOK
    <3>1. opts.driver = "config_mem" /\ opts.hybrid_channel
      BY DEF Shared
    <3>2. /\ \A k \in 1 .. lm : mem_ctrls[k].dram.match = (k - 1) % n
          /\ \A k \in 1 .. ln : nvm_intfs[k].match = (k - 1) % n
          /\ lm % n = IF ForDRAM THEN i ELSE 0
          /\ ln % n = IF ForDRAM THEN 0 ELSE i
      BY <2>1 DEF InterInv, MatchOK
    <3>3. NextController("hook_up", n)
      BY <2>1, <3>1 DEF Advance, LastOf
    <3>4. CASE ForDRAM /\ ForOwn(x)
      <4>1. /\ Len(mem_ctrls') = lm + 1 /\ nvm_intfs' = nvm_intfs
            /\ \A k \in 1 .. lm : mem_ctrls'[k] = mem_ctrls[k]
            /\ mem_ctrls'[lm + 1].dram = x
        BY <2>7, <3>4 DEF ForOwn, Ctrl
      <4>0. lm % n = i
        BY <3>2, <3>4
      <4>2. \A k \in 1 .. lm + 1 : mem_ctrls'[k].dram.match = (k - 1) % n
        <5>1. mem_ctrls'[lm + 1].dram.match = (lm + 1 - 1) % n
          BY <2>3, <2>5, <4>0, <4>1
        <5> QED
          BY <2>5, <3>2, <4>1, <5>1
      <4>3. (lm + 1) % n = IF i = n - 1 THEN 0 ELSE i + 1
        BY <2>5, <2>6, <4>0, NextRemainder
      <4>4. CASE i < n - 1 /\ i' = i + 1 /\ UNCHANGED <<r, pc>>
        <5>1. ForDRAM'
          BY <2>1, <3>4, <4>4 DEF ForDRAM
        <5> QED
          BY <2>1, <2>6, <3>2, <3>4, <4>1, <4>2, <4>3, <4>4, <5>1 DEF MatchOK
      <4>5. CASE i = n - 1 /\ i' = 0
        BY <2>1, <3>2, <3>4, <4>1, <4>2, <4>3, <4>5 DEF MatchOK
      <4>6. CASE pc' = "hook_up"
        BY <2>1, <3>2, <4>1, <4>2, <4>6 DEF MatchOK
      <4> QED
        BY <3>3, <4>4, <4>5, <4>6 DEF NextController
    <3>5. CASE ~ForDRAM /\ ForLater(x)
      <4>1. /\ Len(nvm_intfs') = ln + 1 /\ mem_ctrls' = mem_ctrls
            /\ \A k \in 1 .. ln : nvm_intfs'[k] = nvm_intfs[k]
            /\ nvm_intfs'[ln + 1] = x
        BY <2>8, <3>5 DEF ForLater
      <4>0. ln % n = i /\ lm % n = 0
        BY <3>2, <3>5
      <4>2. \A k \in 1 .. ln + 1 : nvm_intfs'[k].match = (k - 1) % n
        <5>1. nvm_intfs'[ln + 1].match = (ln + 1 - 1) % n
          BY <2>3, <2>5, <4>0, <4>1
        <5> QED
          BY <2>5, <3>2, <4>1, <5>1
      <4>3. (ln + 1) % n = IF i = n - 1 THEN 0 ELSE i + 1
        BY <2>5, <2>6, <4>0, NextRemainder
      <4>4. CASE i < n - 1 /\ i' = i + 1 /\ UNCHANGED <<r, pc>>
        <5>1. ~ForDRAM'
          BY <2>1, <3>5, <4>4 DEF ForDRAM
        <5> QED
          BY <2>1, <2>6, <3>2, <3>5, <4>1, <4>2, <4>3, <4>4, <5>1 DEF MatchOK
      <4>5. CASE i = n - 1 /\ i' = 0
        BY <2>1, <3>2, <3>5, <4>1, <4>2, <4>3, <4>5 DEF MatchOK
      <4>6. CASE pc' = "hook_up"
        BY <2>1, <3>2, <4>1, <4>2, <4>6 DEF MatchOK
      <4> QED
        BY <3>3, <4>4, <4>5, <4>6 DEF NextController
    <3> QED
      BY <2>1, <3>1, <3>4, <3>5
  <2>13. VaultsOK'
    <3> SUFFICES ASSUME opts.hmc, Building' PROVE VaultsOK'
      BY <2>1 DEF VaultsOK
    <3>1. /\ opts.driver = "config_mem" /\ opts.nvm_type = NoType
          /\ Len(opts.ranges) = Vaults
      BY <2>0, CubeAssumption DEF TypesOK
    <3>2. ForDRAM
      BY <2>0, <2>1, <3>1 DEF TypesOK, Building, Refused, ForDRAM
    <3>3. /\ Len(mem_ctrls') = lm + 1
          /\ \A k \in 1 .. lm : mem_ctrls'[k] = mem_ctrls[k]
          /\ mem_ctrls'[lm + 1].dram = x
      <4>1. PICK p \in Nat : mem_ctrls' = Append(mem_ctrls, Ctrl(x, NoRange, p))
        BY <2>1, <3>1, <3>2 DEF ForOwn
      <4>2. Ctrl(x, NoRange, p).dram = x
        BY DEF Ctrl
      <4> QED
        BY <2>7, <4>1, <4>2
    <3>4. /\ lm = (r - 1) * n + i
          /\ n = 1 => \A k \in 1 .. lm :
                        mem_ctrls[k].dram.start = opts.ranges[k].start
      BY <2>1 DEF InterInv, VaultsOK, Building
    <3>5. NextController("hook_up", n)
      BY <2>1, <3>1 DEF Advance, LastOf
    <3>6. n = 1 => \A k \in 1 .. lm + 1 :
                     mem_ctrls'[k].dram.start = opts.ranges[k].start
      <4>1. n = 1 => r = lm + 1
        BY <2>6, <3>4, SMT
      <4> QED
        BY <2>3, <2>5, <3>3, <3>4, <4>1
    <3>7. Len(mem_ctrls') = IF pc' = "create" THEN (r' - 1) * n + i' ELSE Vaults * n
      <4>1. CASE i < n - 1 /\ i' = i + 1 /\ UNCHANGED <<r, pc>>
        <5> DEFINE p == (r - 1) * n
        <5>1. p \in Int /\ lm = p + i /\ (r' - 1) * n = p
          BY <2>6, <3>4, <4>1
        <5> HIDE DEF p
        <5> QED
          BY <2>1, <2>6, <3>3, <4>1, <5>1
      <4>2. CASE i = n - 1 /\ i' = 0 /\ r' = r + 1 /\ UNCHANGED pc
        <5>1. lm + 1 = (r' - 1) * n + i'
          <6> DEFINE p == (r - 1) * n
          <6>1. p + n = (r' - 1) * n
            <7>1. (r - 1) * n + n = r * n
              BY <2>6, SMT
            <7>2. r' - 1 = r
              BY <2>6, <4>2
            <7> QED
              BY <7>1, <7>2
          <6>2. p \in Int /\ lm = p + i
            BY <2>6, <3>4, SMT
          <6> HIDE DEF p
          <6>3. lm + 1 = p + n
            BY <2>6, <4>2, <6>2
          <6>4. (r' - 1) * n + i' = p + n
            BY <2>6, <4>2, <6>1, <6>2
          <6> QED
            BY <6>3, <6>4
        <5> QED
          BY <2>1, <3>3, <4>2, <5>1
      <4>3. CASE i = n - 1 /\ r = Vaults /\ pc' = "hook_up"
        <5>1. lm + 1 = Vaults * n
          BY <2>6, <3>4, <4>3, SMT DEF Vaults
        <5> QED
          BY <3>3, <4>3, <5>1
      <4> QED
        BY <3>1, <3>5, <4>1, <4>2, <4>3 DEF NextController
    <3>8. pc' # "done"
      BY <2>1, <2>2, <3>1 DEF LastOf
    <3> QED
      BY <2>1, <3>3, <3>6, <3>7, <3>8 DEF VaultsOK
  <2> QED
    BY <2>9, <2>10, <2>11, <2>12, <2>13 DEF InterInv
<1> QED
  BY <1>1, <1>2

LEMMA HookUpKeeps == InterInv /\ HookUp => InterInv'
<1> SUFFICES ASSUME InterInv, HookUp PROVE InterInv'
  OBVIOUS
<1>1. CASE pc' = "error"
  BY <1>1, NothingMade DEF HookUp, Share, Fail
<1>2. CASE pc' # "error"
  <2> DEFINE lm == Len(mem_ctrls)
             ln == Len(nvm_intfs)
             shared(k) == IF k <= ln
                          THEN [mem_ctrls[k] EXCEPT !.nvm = nvm_intfs[k]]
                          ELSE mem_ctrls[k]
  <2>0. TypesOK /\ WaitOK /\ pc = "hook_up" /\ pc' = "connect" /\ ln <= lm
    BY <1>2 DEF InterInv, HookUp, Share, Fail
  <2>1. /\ mem_ctrls \in Seq(CtrlTypes) /\ nvm_intfs \in Seq(RangeTypes)
        /\ lm \in Nat /\ ln \in Nat
    BY <2>0 DEF TypesOK
  <2>2. UNCHANGED <<opts, r, i, nvm_intfs>>
    BY <1>2 DEF HookUp, Share, Fail
  <2>3. mem_ctrls' = [k \in 1 .. lm |-> shared(k)]
    BY <1>2 DEF HookUp, Share, Fail
  <2>4. ASSUME NEW k \in 1 .. lm PROVE shared(k) \in CtrlTypes
    <3>1. mem_ctrls[k] \in CtrlTypes /\ (k <= ln => nvm_intfs[k] \in RangeTypes)
      BY <2>1
    <3>2. \A v \in RangeTypes : [mem_ctrls[k] EXCEPT !.nvm = v] \in CtrlTypes
      BY <3>1 DEF CtrlTypes
    <3> QED
      BY <3>1, <3>2
  <2> HIDE DEF shared
  <2>5. mem_ctrls' \in Seq(CtrlTypes) /\ Len(mem_ctrls') = lm
    BY <2>1, <2>3, <2>4, IsASeq
  <2>6. \A k \in 1 .. lm : mem_ctrls'[k] = shared(k)
    BY <2>3
  <2>7. /\ RangeTypes' = RangeTypes /\ CtrlTypes' = CtrlTypes
        /\ Refused' = Refused /\ Shared' = Shared
    BY <2>2, TypesKept
  <2>8. /\ opts.driver = "config_mem" /\ ~Refused
    BY <2>0 DEF TypesOK, Building
  <2>9. TypesOK'
    BY <2>0, <2>2, <2>5, <2>7, <2>8 DEF TypesOK
  <2>10. WaitOK' /\ MatchOK'
    BY <2>0, <2>2, <2>7 DEF WaitOK, MatchOK
  <2>11. SharedMatch'
    <3> SUFFICES ASSUME NEW k \in 1 .. lm
                 PROVE  (mem_ctrls'[k].dram # NoRange /\ mem_ctrls'[k].nvm # NoRange) =>
                          mem_ctrls'[k].dram.match = mem_ctrls'[k].nvm.match
      BY <2>5 DEF SharedMatch
    <3>1. CASE k <= ln
      <4>1. Shared
        BY <2>0, <2>1, <3>1, EmptySeq DEF WaitOK
      <4>2. mem_ctrls[k].dram.match = (k - 1) % opts.num
            /\ nvm_intfs[k].match = (k - 1) % opts.num
        BY <2>0, <3>1, <4>1 DEF InterInv, MatchOK
      <4>3. mem_ctrls[k] \in CtrlTypes
        BY <2>1
      <4>4. mem_ctrls'[k].dram = mem_ctrls[k].dram
            /\ mem_ctrls'[k].nvm = nvm_intfs[k]
        BY <2>6, <3>1, <4>3 DEF shared, CtrlTypes
      <4> QED
        BY <4>2, <4>4
    <3>2. CASE ~(k <= ln)
      <4>1. mem_ctrls'[k] = mem_ctrls[k]
        BY <2>6, <3>2 DEF shared
      <4> QED
        BY <2>0, <4>1 DEF WaitOK
    <3> QED
      BY <3>1, <3>2
  <2>12. VaultsOK'
    <3> SUFFICES ASSUME opts.hmc PROVE VaultsOK'
      BY <2>2 DEF VaultsOK
    <3>1. /\ lm = Vaults * opts.num
          /\ opts.num = 1 => \A k \in 1 .. lm :
               mem_ctrls[k].dram.start = opts.ranges[k].start
      BY <2>0 DEF InterInv, VaultsOK, Building
    <3>2. \A k \in 1 .. lm : mem_ctrls'[k].dram = mem_ctrls[k].dram
      <4>1. \A k \in 1 .. lm : mem_ctrls[k] \in CtrlTypes
        BY <2>1
      <4> QED
        BY <2>6, <4>1 DEF shared, CtrlTypes
    <3> QED
      BY <2>0, <2>2, <2>5, <3>1, <3>2 DEF VaultsOK
  <2> QED
    BY <2>9, <2>10, <2>11, <2>12 DEF InterInv
<1> QED
  BY <1>1, <1>2

LEMMA ConnectKeeps == InterInv /\ Connect => InterInv'
<1> SUFFICES ASSUME InterInv, Connect PROVE InterInv'
  OBVIOUS
<1>1. CASE pc' = "error"
  BY <1>1, NothingMade DEF Connect, Fail
<1>2. CASE pc' # "error"
  <2> DEFINE lm == Len(mem_ctrls)
             port(k) == IF opts.hmc THEN (k - 1) \div 4 ELSE 0
             joined(k) == [mem_ctrls[k] EXCEPT !.port = port(k)]
  <2>0. TypesOK /\ WaitOK /\ pc = "connect" /\ pc' = "done"
        /\ (opts.hmc => lm <= 4 * Crossbars)
    BY <1>2 DEF InterInv, Connect, Fail
  <2>1. mem_ctrls \in Seq(CtrlTypes) /\ lm \in Nat
    BY <2>0 DEF TypesOK
  <2>2. UNCHANGED <<opts, r, i, nvm_intfs>>
    BY <1>2 DEF Connect, Fail
  <2>3. mem_ctrls' = [k \in 1 .. lm |-> joined(k)]
    BY <1>2 DEF Connect, Fail
  <2>4. \A k \in 1 .. lm : port(k) \in Nat
    BY <2>1, SMT
  <2> HIDE DEF port
  <2>5. \A k \in 1 .. lm :
          /\ joined(k) \in CtrlTypes /\ joined(k).port = port(k)
          /\ joined(k).dram = mem_ctrls[k].dram /\ joined(k).nvm = mem_ctrls[k].nvm
    <3>1. \A k \in 1 .. lm : mem_ctrls[k] \in CtrlTypes
      BY <2>1
    <3> QED
      BY <2>4, <3>1 DEF CtrlTypes
  <2> HIDE DEF joined
  <2>6. mem_ctrls' \in Seq(CtrlTypes) /\ Len(mem_ctrls') = lm
    BY <2>1, <2>3, <2>5, IsASeq
  <2>7. \A k \in 1 .. lm : mem_ctrls'[k] = joined(k)
    BY <2>3
  <2>8. /\ RangeTypes' = RangeTypes /\ CtrlTypes' = CtrlTypes
        /\ Refused' = Refused /\ Shared' = Shared
    BY <2>2, TypesKept
  <2>9. TypesOK'
    <3>1. ~Refused
      BY <2>0 DEF TypesOK, Building
    <3> QED
      BY <2>0, <2>2, <2>6, <2>8, <3>1 DEF TypesOK
  <2>10. WaitOK' /\ MatchOK'
    BY <2>0, <2>2, <2>8 DEF WaitOK, MatchOK
  <2>11. SharedMatch'
    BY <2>0, <2>5, <2>6, <2>7 DEF InterInv, SharedMatch
  <2>12. VaultsOK'
    <3> SUFFICES ASSUME opts.hmc PROVE VaultsOK'
      BY <2>2 DEF VaultsOK
    <3>1. /\ lm = Vaults * opts.num
          /\ opts.num = 1 => \A k \in 1 .. lm :
               mem_ctrls[k].dram.start = opts.ranges[k].start
      BY <2>0 DEF InterInv, VaultsOK, Building
    <3>2. \A k \in 1 .. lm : port(k) = (k - 1) \div 4
      BY DEF port
    <3> QED
      BY <2>0, <2>2, <2>5, <2>6, <2>7, <3>1, <3>2 DEF VaultsOK
  <2> QED
    BY <2>9, <2>10, <2>11, <2>12 DEF InterInv
<1> QED
  BY <1>1, <1>2

-----------------------------------------------------------------------------
(* Each channel of each range has one interface.                           *)

\* Where an interface is: in a controller, or waiting for one.
Waiting == IF pc \in {"connect", "done"} THEN {}
           ELSE {<<k, "wait">> : k \in 1 .. Len(nvm_intfs)}
Places  == Interfaces \cup Waiting
Holds(p) == IF p[2] = "wait" THEN nvm_intfs[p[1]] ELSE RangeOf(p)

PlacesOK ==
  Building =>
    /\ \A p \in Places : Holds(p) = NoRange \/
         \E x \in MadeSoFar : Holds(p) = IntfOf(x[1], x[2])
    /\ \A x \in MadeSoFar : \E p \in Places : Holds(p) = IntfOf(x[1], x[2])
    /\ \A p, q \in Places : (Holds(p) = Holds(q) /\ Holds(p) # NoRange) => p = q

\* A directory or a home node is created only if its number fits its bits.
FitOK ==
  (Building /\ opts.driver # "config_mem") =>
    \A x \in MadeSoFar : Representable(IntfOf(x[1], x[2]))

\* Interfaces tell their channels: the ranges are apart.
LEMMA IntfsApart ==
  ASSUME TypesOK
  PROVE  /\ \A x \in All : IntfOf(x[1], x[2]) # NoRange
         /\ \A x, y \in All : IntfOf(x[1], x[2]) = IntfOf(y[1], y[2]) => x = y
<1>1. /\ opts.num \in Nat \ {0}
      /\ \A k \in 1 .. Len(opts.ranges) :
           opts.ranges[k].start \in Nat /\ opts.ranges[k].size \in Nat \ {0}
  BY TheOptions
<1>2. \A x \in All : /\ x = <<x[1], x[2]>> /\ x[1] \in 1 .. Len(opts.ranges)
                     /\ IntfOf(x[1], x[2]).start = opts.ranges[x[1]].start
                     /\ IntfOf(x[1], x[2]).size = opts.ranges[x[1]].size
                     /\ IntfOf(x[1], x[2]).match = x[2]
  BY DEF All, IntfOf, AddrRange
<1>3. \A x \in All : IntfOf(x[1], x[2]) # NoRange
  <2>1. NoRange.size = 0
    BY DEF NoRange
  <2> QED
    BY <1>1, <1>2, <2>1
<1>4. \A j, k \in 1 .. Len(opts.ranges) : j # k =>
        \/ opts.ranges[j].start + opts.ranges[j].size <= opts.ranges[k].start
        \/ opts.ranges[k].start + opts.ranges[k].size <= opts.ranges[j].start
  BY RangesAssumption DEF TypesOK
<1>5. ASSUME NEW x \in All, NEW y \in All, IntfOf(x[1], x[2]) = IntfOf(y[1], y[2])
      PROVE  x = y
  <2>1. x[2] = y[2] /\ opts.ranges[x[1]].start = opts.ranges[y[1]].start
    BY <1>2, <1>5
  <2>2. x[1] = y[1]
    <3> DEFINE j == x[1]
               k == y[1]
    <3>1. j \in 1 .. Len(opts.ranges) /\ k \in 1 .. Len(opts.ranges)
      BY <1>2
    <3> HIDE DEF j, k
    <3>2. j # k => \/ opts.ranges[j].start + opts.ranges[j].size <= opts.ranges[k].start
                   \/ opts.ranges[k].start + opts.ranges[k].size <= opts.ranges[j].start
      BY <1>4, <3>1
    <3>3. opts.ranges[j].start = opts.ranges[k].start
      BY <2>1 DEF j, k
    <3>4. j = k
      BY <1>1, <3>1, <3>2, <3>3
    <3> QED
      BY <3>4 DEF j, k
  <2> QED
    BY <1>2, <2>1, <2>2
<1> QED
  BY <1>3, <1>5

\* A step of the loops adds the place of its interface.
LEMMA PlaceAdded ==
  ASSUME TypesOK, WaitOK, Creates, pc' # "error"
  PROVE  \E z, w : /\ z \notin Places /\ Places' = Places \cup {z, w}
                   /\ Holds(z)' = IntfOf(r, i)
                   /\ w = z \/ Holds(w)' = NoRange
                   /\ \A p \in Places : Holds(p)' = Holds(p)
<1> DEFINE x == IntfOf(r, i)
           lm == Len(mem_ctrls)
           ln == Len(nvm_intfs)
<1>1. /\ pc = "create" /\ LastOf \in {"hook_up", "done"} /\ Advance(LastOf)
      /\ UNCHANGED opts
      /\ \/ ForOwn(x)
         \/ /\ opts.driver = "config_mem" /\ ForNVM(x)
         \/ /\ opts.driver = "config_mem" /\ ForLater(x)
  BY Creation
<1>2. /\ mem_ctrls \in Seq(CtrlTypes) /\ nvm_intfs \in Seq(RangeTypes)
      /\ lm \in Nat /\ ln \in Nat
  BY DEF TypesOK
<1>3. /\ x \in RangeTypes
      /\ \A p \in Nat : Ctrl(x, NoRange, p) \in CtrlTypes /\ Ctrl(NoRange, x, p) \in CtrlTypes
  BY IntfTypes
<1>4. (pc' = "create" \/ pc' = "hook_up") \/ (pc' = "done" /\ opts.driver # "config_mem")
  <2>1. pc' = "create" \/ pc' = LastOf
    BY <1>1, Advanced
  <2> QED
    BY <2>1 DEF LastOf
<1>5. Places = Interfaces \cup {<<k, "wait">> : k \in 1 .. ln}
  BY <1>1 DEF Places, Waiting
<1>6. opts.driver # "config_mem" => nvm_intfs = <<>>
  BY DEF WaitOK, Shared
<1> HIDE DEF x
<1>7. PICK k : k = lm + 1
  OBVIOUS
<1>8. PICK j : j = ln + 1
  OBVIOUS
<1>9. ASSUME nvm_intfs' = nvm_intfs, NEW c \in CtrlTypes,
             mem_ctrls' = Append(mem_ctrls, c)
      PROVE  /\ Places' = Places \cup {<<k, "dram">>, <<k, "nvm">>}
             /\ <<k, "dram">> \notin Places /\ <<k, "nvm">> \notin Places
             /\ Holds(<<k, "dram">>)' = c.dram /\ Holds(<<k, "nvm">>)' = c.nvm
             /\ \A p \in Places : Holds(p)' = Holds(p)
  <2>1. /\ Len(mem_ctrls') = lm + 1 /\ mem_ctrls'[lm + 1] = c
        /\ \A m \in 1 .. lm : mem_ctrls'[m] = mem_ctrls[m]
    BY <1>2, <1>9, AppendProperties
  <2>2. Waiting' = {<<m, "wait">> : m \in 1 .. ln}
    <3>1. CASE pc' \in {"create", "hook_up"}
      BY <1>9, <3>1 DEF Waiting
    <3>2. CASE pc' = "done" /\ opts.driver # "config_mem"
      <4>1. ln = 0
        BY <1>6, <3>2, EmptySeq
      <4> QED
        BY <3>2, <4>1 DEF Waiting
    <3> QED
      BY <1>4, <3>1, <3>2
  <2>3. Interfaces' = Interfaces \cup {<<k, "dram">>, <<k, "nvm">>}
    <3>1. 1 .. Len(mem_ctrls') = (1 .. lm) \cup {k}
      BY <1>2, <1>7, <2>1
    <3> QED
      BY <3>1 DEF Interfaces
  <2>4. Places' = Places \cup {<<k, "dram">>, <<k, "nvm">>}
    BY <1>5, <2>2, <2>3 DEF Places
  <2>5. <<k, "dram">> \notin Places /\ <<k, "nvm">> \notin Places
    BY <1>2, <1>5, <1>7 DEF Interfaces
  <2>6. Holds(<<k, "dram">>)' = c.dram /\ Holds(<<k, "nvm">>)' = c.nvm
    BY <1>7, <2>1 DEF Holds, RangeOf
  <2>7. \A p \in Places : Holds(p)' = Holds(p)
    BY <1>5, <1>9, <2>1 DEF Holds, RangeOf, Interfaces
  <2> QED
    BY <2>4, <2>5, <2>6, <2>7
<1>10. CASE ForOwn(x)
  <2>1. PICK p \in Nat : mem_ctrls' = Append(mem_ctrls, Ctrl(x, NoRange, p))
    BY <1>10 DEF ForOwn
  <2>2. /\ Places' = Places \cup {<<k, "dram">>, <<k, "nvm">>}
        /\ <<k, "dram">> \notin Places
        /\ Holds(<<k, "dram">>)' = x /\ Holds(<<k, "nvm">>)' = NoRange
        /\ \A q \in Places : Holds(q)' = Holds(q)
    BY <1>3, <1>9, <1>10, <2>1 DEF ForOwn, Ctrl
  <2> QED
    BY <2>2 DEF x
<1>11. CASE ForNVM(x)
  <2>1. /\ Places' = Places \cup {<<k, "nvm">>, <<k, "dram">>}
        /\ <<k, "nvm">> \notin Places
        /\ Holds(<<k, "nvm">>)' = x /\ Holds(<<k, "dram">>)' = NoRange
        /\ \A q \in Places : Holds(q)' = Holds(q)
    <3> DEFINE c == Ctrl(NoRange, x, 0)
    <3>1. c \in CtrlTypes
      BY <1>3
    <3>2. c.dram = NoRange /\ c.nvm = x
      BY DEF Ctrl
    <3>3. nvm_intfs' = nvm_intfs /\ mem_ctrls' = Append(mem_ctrls, c)
      BY <1>11 DEF ForNVM
    <3> HIDE DEF c
    <3> QED
      BY <1>9, <3>1, <3>2, <3>3
  <2> QED
    BY <2>1 DEF x
<1>12. CASE opts.driver = "config_mem" /\ ForLater(x)
  <2>1. /\ Len(nvm_intfs') = ln + 1 /\ nvm_intfs'[ln + 1] = x
        /\ \A m \in 1 .. ln : nvm_intfs'[m] = nvm_intfs[m]
        /\ mem_ctrls' = mem_ctrls
    BY <1>2, <1>3, <1>12, AppendProperties DEF ForLater
  <2>2. 1 .. Len(nvm_intfs') = (1 .. ln) \cup {j}
    BY <1>2, <1>8, <2>1
  <2>3. Places' = Places \cup {<<j, "wait">>}
    <3>1. Interfaces' = Interfaces
      BY <2>1 DEF Interfaces
    <3>2. Waiting' = {<<m, "wait">> : m \in 1 .. Len(nvm_intfs')}
      BY <1>4, <1>12 DEF Waiting
    <3> QED
      BY <1>5, <2>2, <3>1, <3>2 DEF Places
  <2>4. <<j, "wait">> \notin Places
    BY <1>2, <1>5, <1>8 DEF Interfaces
  <2>5. Holds(<<j, "wait">>)' = x
    BY <1>8, <2>1 DEF Holds
  <2>6. \A p \in Places : Holds(p)' = Holds(p)
    BY <1>5, <2>1 DEF Holds, RangeOf, Interfaces
  <2> QED
    BY <2>3, <2>4, <2>5, <2>6 DEF x
<1> QED
  BY <1>1, <1>10, <1>11, <1>12

LEMMA PlacesGrow ==
  ASSUME TypesOK, WaitOK, PlacesOK, Creates, pc' # "error"
  PROVE  PlacesOK'
<1>1. /\ pc = "create" /\ UNCHANGED opts
      /\ <<r, i>> \in All /\ <<r, i>> \notin MadeSoFar
      /\ MadeSoFar' = MadeSoFar \cup {<<r, i>>}
  BY Creation, Advanced
<1> DEFINE new == <<r, i>>
           intf(x) == IntfOf(x[1], x[2])
<1>2. \A x : intf(x)' = intf(x)
  BY <1>1, TypesKept
<1>3. PICK z, w : /\ z \notin Places /\ Places' = Places \cup {z, w}
                  /\ Holds(z)' = intf(new)
                  /\ w = z \/ Holds(w)' = NoRange
                  /\ \A p \in Places : Holds(p)' = Holds(p)
  BY PlaceAdded
<1>4. /\ \A p \in Places : Holds(p) = NoRange \/ \E x \in MadeSoFar : Holds(p) = intf(x)
      /\ \A x \in MadeSoFar : \E p \in Places : Holds(p) = intf(x)
      /\ \A p, q \in Places : (Holds(p) = Holds(q) /\ Holds(p) # NoRange) => p = q
  BY <1>1 DEF PlacesOK, Building
<1>5. /\ \A x \in All : intf(x) # NoRange
      /\ \A x, y \in All : intf(x) = intf(y) => x = y
  BY IntfsApart
<1>6. MadeSoFar \subseteq All
  BY DEF MadeSoFar
<1>7. PICK n : n = new
  OBVIOUS
<1>8. /\ n \in All /\ n \notin MadeSoFar /\ MadeSoFar' = MadeSoFar \cup {n}
      /\ Holds(z)' = intf(n)
  BY <1>1, <1>3, <1>7
<1> HIDE DEF new, intf
<1>9. \A p \in Places : Holds(p) # intf(n)
  BY <1>4, <1>5, <1>6, <1>8
<1>10. \A p \in Places' : Holds(p)' = NoRange \/ \E x \in MadeSoFar' : Holds(p)' = intf(x)
  BY <1>3, <1>4, <1>8
<1>11. \A x \in MadeSoFar' : \E p \in Places' : Holds(p)' = intf(x)
  BY <1>3, <1>4, <1>8
<1>12. ASSUME NEW p \in Places', NEW q \in Places', Holds(p)' = Holds(q)', Holds(p)' # NoRange
       PROVE  p = q
  <2>1. CASE p \in Places /\ q \in Places
    BY <1>3, <1>4, <1>12, <2>1
  <2>2. CASE p \in Places /\ q \notin Places
    BY <1>3, <1>8, <1>9, <1>12, <2>2
  <2>3. CASE p \notin Places /\ q \in Places
    BY <1>3, <1>8, <1>9, <1>12, <2>3
  <2>4. CASE p \notin Places /\ q \notin Places
    BY <1>3, <1>12, <2>4
  <2> QED
    BY <2>1, <2>2, <2>3, <2>4
<1>13. /\ \A p \in Places' : Holds(p)' = NoRange \/ \E x \in MadeSoFar' : Holds(p)' = intf(x)'
       /\ \A x \in MadeSoFar' : \E p \in Places' : Holds(p)' = intf(x)'
       /\ \A p, q \in Places' : (Holds(p)' = Holds(q)' /\ Holds(p)' # NoRange) => p = q
  BY <1>2, <1>10, <1>11, <1>12
<1> QED
  BY <1>13 DEF PlacesOK, intf

LEMMA FitGrows ==
  ASSUME TypesOK, FitOK, Creates, pc' # "error"
  PROVE  FitOK'
<1>1. /\ pc = "create" /\ UNCHANGED opts
      /\ MadeSoFar' = MadeSoFar \cup {<<r, i>>}
      /\ opts.driver # "config_mem" => Representable(IntfOf(r, i))
  BY Creation, Advanced
<1>2. \A k, ch : IntfOf(k, ch)' = IntfOf(k, ch)
  BY <1>1, TypesKept
<1>3. (opts.driver # "config_mem") =>
        \A x \in MadeSoFar' : Representable(IntfOf(x[1], x[2]))
  BY <1>1 DEF FitOK, Building
<1>4. \A x : Representable(IntfOf(x[1], x[2]))' <=> Representable(IntfOf(x[1], x[2]))
  BY <1>2 DEF Representable
<1> QED
  BY <1>1, <1>3, <1>4 DEF FitOK

PlacesInv == InterInv /\ PlacesOK /\ FitOK

LEMMA NothingPlaced ==
  ASSUME PlacesInv, UNCHANGED <<opts, r, i, mem_ctrls, nvm_intfs>>,
         pc' = pc \/ pc' \in {"error", "returned"}
  PROVE  PlacesInv'
<1>1. InterInv'
  BY NothingMade DEF PlacesInv
<1>2. CASE pc' = pc
  <2>1. All' = All /\ \A k, ch : IntfOf(k, ch)' = IntfOf(k, ch)
    BY TypesKept
  <2>2. MadeSoFar' = MadeSoFar
    BY <1>2, <2>1 DEF MadeSoFar, Before
  <2>3. Places' = Places /\ \A p : Holds(p)' = Holds(p)
    BY <1>2 DEF Places, Waiting, Interfaces, Holds, RangeOf
  <2>4. PlacesOK'
    BY <1>2, <2>1, <2>2, <2>3 DEF PlacesInv, PlacesOK, Building
  <2>5. FitOK'
    BY <1>2, <2>1, <2>2 DEF PlacesInv, FitOK, Building, Representable
  <2> QED
    BY <1>1, <2>4, <2>5 DEF PlacesInv
<1>3. CASE pc' \in {"error", "returned"}
  BY <1>1, <1>3 DEF PlacesInv, PlacesOK, FitOK, Building
<1> QED
  BY <1>2, <1>3

LEMMA CheckPlaces == PlacesInv /\ Check => PlacesInv'
<1> SUFFICES ASSUME PlacesInv, Check PROVE PlacesInv'
  OBVIOUS
<1>1. CASE pc' = "error"
  BY <1>1, NothingPlaced DEF Check, Fail
<1>2. CASE pc' # "error"
  <2>0. TypesOK
    BY DEF PlacesInv, InterInv
  <2>1. /\ pc = "check" /\ pc' = "create"
        /\ UNCHANGED <<opts, r, i, mem_ctrls, nvm_intfs>>
        /\ r = 1 /\ i = 0 /\ mem_ctrls = <<>> /\ nvm_intfs = <<>>
    BY <1>2, <2>0 DEF Check, Fail, TypesOK
  <2>2. MadeSoFar' = {}
    <3>1. \A x \in All' : x[1] \in Nat \ {0} /\ x[2] \in Nat
      <4>1. All' = All /\ opts.num \in Nat \ {0} /\ Len(opts.ranges) \in Nat
        BY <2>0, <2>1, TypesKept, TheOptions
      <4> QED
        BY <4>1 DEF All
    <3>2. \A x \in All' : ~Before(x[1], x[2])'
      BY <2>1, <3>1 DEF Before
    <3> QED
      BY <2>1, <3>2 DEF MadeSoFar
  <2>3. Places' = {}
    <3>1. Len(mem_ctrls') = 0 /\ Len(nvm_intfs') = 0
      BY <2>1, EmptySeq
    <3> QED
      BY <3>1 DEF Places, Waiting, Interfaces
  <2>4. PlacesOK' /\ FitOK'
    BY <2>2, <2>3 DEF PlacesOK, FitOK
  <2> QED
    BY <2>4, CheckKeeps DEF PlacesInv
<1> QED
  BY <1>1, <1>2

LEMMA CreatePlaces == PlacesInv /\ Creates => PlacesInv'
<1> SUFFICES ASSUME PlacesInv, Creates PROVE PlacesInv'
  OBVIOUS
<1>1. InterInv' /\ TypesOK /\ WaitOK
  BY CreatesKeep DEF PlacesInv, InterInv
<1>2. CASE pc' # "error"
  BY <1>1, <1>2, PlacesGrow, FitGrows DEF PlacesInv
<1>3. CASE pc' = "error"
  BY <1>1, <1>3 DEF PlacesInv, PlacesOK, FitOK, Building
<1> QED
  BY <1>2, <1>3

LEMMA HookUpPlaces == PlacesInv /\ HookUp => PlacesInv'
<1> SUFFICES ASSUME PlacesInv, HookUp PROVE PlacesInv'
  OBVIOUS
<1>1. CASE pc' = "error"
  BY <1>1, NothingPlaced DEF HookUp, Share, Fail
<1>2. CASE pc' # "error"
  <2> DEFINE lm == Len(mem_ctrls)
             ln == Len(nvm_intfs)
             intf(x) == IntfOf(x[1], x[2])
             back(p) == IF p[2] = "nvm" /\ p[1] <= ln THEN <<p[1], "wait">> ELSE p
  <2>1. /\ TypesOK /\ WaitOK /\ PlacesOK /\ FitOK
        /\ pc = "hook_up" /\ pc' = "connect" /\ ln <= lm
        /\ UNCHANGED <<opts, r, i, nvm_intfs>>
    BY <1>2 DEF PlacesInv, InterInv, HookUp, Share, Fail
  <2>2. /\ mem_ctrls \in Seq(CtrlTypes) /\ nvm_intfs \in Seq(RangeTypes)
        /\ lm \in Nat /\ ln \in Nat
    BY <2>1 DEF TypesOK
  <2>3. mem_ctrls' = [k \in 1 .. lm |->
                        IF k <= ln THEN [mem_ctrls[k] EXCEPT !.nvm = nvm_intfs[k]]
                        ELSE mem_ctrls[k]]
    BY <1>2 DEF HookUp, Share, Fail
  <2>4. Len(mem_ctrls') = lm
    <3>1. DOMAIN mem_ctrls' = 1 .. lm /\ mem_ctrls' \in Seq(CtrlTypes')
      BY <2>3, HookUpKeeps DEF PlacesInv, InterInv, TypesOK
    <3> QED
      BY <2>2, <3>1
  <2>5. /\ All' = All /\ \A x : intf(x)' = intf(x)
        /\ MadeSoFar' = MadeSoFar
    BY <2>1, TypesKept DEF MadeSoFar
  <2>6. /\ Places = Interfaces \cup {<<k, "wait">> : k \in 1 .. ln}
        /\ Places' = Interfaces
    BY <2>1, <2>4 DEF Places, Waiting, Interfaces
  <2>7. \A p \in Interfaces : back(p) \in Places
    BY <2>2, <2>6 DEF Interfaces
  <2>8. \A p \in Interfaces : Holds(p)' = Holds(back(p))
    <3>1. ASSUME NEW k \in 1 .. lm
          PROVE  Holds(<<k, "dram">>)' = Holds(back(<<k, "dram">>))
      <4>1. mem_ctrls[k] \in CtrlTypes
        BY <2>2
      <4>2. mem_ctrls'[k].dram = mem_ctrls[k].dram
        BY <2>3, <4>1 DEF CtrlTypes
      <4> QED
        BY <4>2 DEF Holds, RangeOf
    <3>2. ASSUME NEW k \in 1 .. lm
          PROVE  Holds(<<k, "nvm">>)' = Holds(back(<<k, "nvm">>))
      <4>1. mem_ctrls[k] \in CtrlTypes
        BY <2>2
      <4>2. mem_ctrls'[k].nvm = IF k <= ln THEN nvm_intfs[k] ELSE mem_ctrls[k].nvm
        BY <2>3, <4>1 DEF CtrlTypes
      <4> QED
        BY <4>2 DEF Holds, RangeOf
    <3> QED
      BY <3>1, <3>2 DEF Interfaces
  <2>9. \A p, q \in Interfaces : back(p) = back(q) => p = q
    BY <2>2 DEF Interfaces
  <2>10. \A q \in Places : Holds(q) = NoRange \/ \E p \in Interfaces : back(p) = q
    <3>1. ASSUME NEW k \in 1 .. ln PROVE \E p \in Interfaces : back(p) = <<k, "wait">>
      <4>1. <<k, "nvm">> \in Interfaces
        BY <2>1, <2>2 DEF Interfaces
      <4>2. back(<<k, "nvm">>) = <<k, "wait">>
        BY <2>2
      <4> QED
        BY <4>1, <4>2
    <3>2. ASSUME NEW k \in 1 .. lm PROVE back(<<k, "dram">>) = <<k, "dram">>
      OBVIOUS
    <3>3. ASSUME NEW k \in 1 .. lm
          PROVE  Holds(<<k, "nvm">>) = NoRange \/ back(<<k, "nvm">>) = <<k, "nvm">>
      <4>1. CASE k <= ln
        <5>1. Shared
          BY <2>1, <2>2, <4>1, EmptySeq DEF WaitOK
        <5>2. mem_ctrls[k].nvm = NoRange
          BY <2>1, <5>1 DEF WaitOK
        <5> QED
          BY <5>2 DEF Holds, RangeOf
      <4>2. CASE ~(k <= ln)
        BY <4>2
      <4> QED
        BY <4>1, <4>2
    <3> QED
      BY <2>6, <3>1, <3>2, <3>3 DEF Interfaces
  <2>11. /\ \A p \in Places : Holds(p) = NoRange \/ \E x \in MadeSoFar : Holds(p) = intf(x)
         /\ \A x \in MadeSoFar : \E p \in Places : Holds(p) = intf(x)
         /\ \A p, q \in Places : (Holds(p) = Holds(q) /\ Holds(p) # NoRange) => p = q
    BY <2>1 DEF PlacesOK, Building
  <2>12. \A x \in MadeSoFar : intf(x) # NoRange
    BY <2>1, IntfsApart DEF MadeSoFar
  <2> HIDE DEF back, intf
  <2>13. /\ \A p \in Places' : Holds(p)' = NoRange \/ \E x \in MadeSoFar' : Holds(p)' = intf(x)'
         /\ \A x \in MadeSoFar' : \E p \in Places' : Holds(p)' = intf(x)'
         /\ \A p, q \in Places' : (Holds(p)' = Holds(q)' /\ Holds(p)' # NoRange) => p = q
    <3>1. \A p \in Places' : Holds(p)' = NoRange \/ \E x \in MadeSoFar' : Holds(p)' = intf(x)'
      BY <2>5, <2>6, <2>7, <2>8, <2>11
    <3>2. ASSUME NEW x \in MadeSoFar' PROVE \E p \in Places' : Holds(p)' = intf(x)'
      <4>1. PICK q \in Places : Holds(q) = intf(x)
        BY <2>5, <2>11
      <4>2. PICK p \in Interfaces : back(p) = q
        BY <2>5, <2>10, <2>12, <4>1
      <4> QED
        BY <2>5, <2>6, <2>8, <4>1, <4>2
    <3>3. \A p, q \in Places' : (Holds(p)' = Holds(q)' /\ Holds(p)' # NoRange) => p = q
      BY <2>6, <2>7, <2>8, <2>9, <2>11
    <3> QED
      BY <3>1, <3>2, <3>3
  <2>14. PlacesOK'
    BY <2>13 DEF PlacesOK, intf
  <2>15. FitOK'
    BY <2>1, <2>5 DEF FitOK, Building, TypesOK
  <2> QED
    BY <2>14, <2>15, HookUpKeeps DEF PlacesInv
<1> QED
  BY <1>1, <1>2

LEMMA ConnectPlaces == PlacesInv /\ Connect => PlacesInv'
<1> SUFFICES ASSUME PlacesInv, Connect PROVE PlacesInv'
  OBVIOUS
<1>1. CASE pc' = "error"
  BY <1>1, NothingPlaced DEF Connect, Fail
<1>2. CASE pc' # "error"
  <2> DEFINE lm == Len(mem_ctrls)
  <2>1. /\ TypesOK /\ WaitOK /\ PlacesOK /\ FitOK
        /\ pc = "connect" /\ pc' = "done"
        /\ UNCHANGED <<opts, r, i, nvm_intfs>>
    BY <1>2 DEF PlacesInv, InterInv, Connect, Fail
  <2>2. mem_ctrls \in Seq(CtrlTypes) /\ lm \in Nat
    BY <2>1 DEF TypesOK
  <2>3. mem_ctrls' = [k \in 1 .. lm |->
             [mem_ctrls[k] EXCEPT !.port = IF opts.hmc THEN (k - 1) \div 4 ELSE 0]]
    BY <1>2 DEF Connect, Fail
  <2>4. Len(mem_ctrls') = lm
    <3>1. DOMAIN mem_ctrls' = 1 .. lm /\ mem_ctrls' \in Seq(CtrlTypes')
      BY <2>3, ConnectKeeps DEF PlacesInv, InterInv, TypesOK
    <3> QED
      BY <2>2, <3>1
  <2>5. /\ \A k, ch : IntfOf(k, ch)' = IntfOf(k, ch)
        /\ MadeSoFar' = MadeSoFar
    BY <2>1, TypesKept DEF MadeSoFar
  <2>6. Places = Interfaces /\ Places' = Interfaces
    BY <2>1, <2>4 DEF Places, Waiting, Interfaces
  <2>7. ASSUME NEW p \in Interfaces PROVE Holds(p)' = Holds(p)
    <3>1. p[1] \in 1 .. lm /\ p[2] \in {"dram", "nvm"}
      BY DEF Interfaces
    <3>2. mem_ctrls[p[1]] \in CtrlTypes
      BY <2>2, <3>1
    <3>3. /\ mem_ctrls'[p[1]].dram = mem_ctrls[p[1]].dram
          /\ mem_ctrls'[p[1]].nvm = mem_ctrls[p[1]].nvm
      BY <2>3, <3>1, <3>2 DEF CtrlTypes
    <3> QED
      BY <3>1, <3>3 DEF Holds, RangeOf
  <2>8. PlacesOK'
    BY <2>1, <2>5, <2>6, <2>7 DEF PlacesOK, Building
  <2>9. FitOK'
    BY <2>1, <2>5 DEF FitOK, Building, TypesOK
  <2> QED
    BY <2>8, <2>9, ConnectKeeps DEF PlacesInv
<1> QED
  BY <1>1, <1>2

-----------------------------------------------------------------------------
(* What follows of them.                                                   *)

LEMMA NextKeeps == PlacesInv /\ Next => PlacesInv'
BY CheckPlaces, CreatePlaces, HookUpPlaces, ConnectPlaces DEF Next, Creates

LEMMA Invariant == SystemSpec => []PlacesInv
<1>1. SystemInit => PlacesInv
  <2> SUFFICES ASSUME SystemInit PROVE PlacesInv
    OBVIOUS
  <2>1. opts \in Options
    BY SystemAssumption DEF SystemInit
  <2>2. opts \in OptionTypes
    BY <2>1, MemAssumption
  <2>3. TypesOK
    <3>1. opts.num \in Nat \ {0}
      BY <2>2 DEF OptionTypes
    <3>2. Len(opts.ranges) \in Nat \ {0}
      <4> DEFINE S == [start : Nat, size : Nat \ {0}]
                 seq == opts.ranges
      <4>1. seq \in Seq(S) /\ seq # <<>>
        BY <2>2 DEF OptionTypes
      <4> HIDE DEF S, seq
      <4>2. Len(seq) \in Nat \ {0}
        BY <4>1, EmptySeq
      <4> QED
        BY <4>2 DEF seq
    <3>3. pc = "check" /\ r = 1 /\ i = 0 /\ mem_ctrls = <<>> /\ nvm_intfs = <<>>
      BY DEF SystemInit
    <3> QED
      BY <2>1, <3>1, <3>2, <3>3, EmptySeq DEF TypesOK, Building
  <2> QED
    BY <2>3 DEF SystemInit, PlacesInv, InterInv, WaitOK, MatchOK, SharedMatch, VaultsOK,
                PlacesOK, FitOK, Building
<1>2. PlacesInv /\ [SystemNext]_allvars => PlacesInv'
  <2> SUFFICES ASSUME PlacesInv, [SystemNext]_allvars PROVE PlacesInv'
    OBVIOUS
  <2>1. CASE ConfigMem
    BY <2>1, NextKeeps DEF ConfigMem
  <2>2. CASE MemoryConfigured
    BY <2>2, NothingPlaced DEF MemoryConfigured
  <2>3. CASE DrawTree \/ BuildSystem \/ Send \/ Forward \/ UNCHANGED allvars
    <3>1. UNCHANGED memvars
      BY <2>3 DEF DrawTree, BuildSystem, Send, Forward, allvars, memvars
    <3> QED
      BY <3>1, NothingPlaced DEF memvars
  <2> QED
    BY <2>1, <2>2, <2>3 DEF SystemNext
<1> QED
  BY <1>1, <1>2, PTL DEF SystemSpec

\* Interfaces that share a controller are the same channel of their ranges,
\* for any number of channels and ranges: the controllers' DRAMs, and the NVMs
\* that wait for them, both count the channels again and again.  A vault's
\* controller is on the crossbar of its four vaults (config_mem's "hook up"
\* loop and the group of ports that follows it).
THEOREM SameChannel == SystemSpec => []ChannelsMatch
<1>1. InterInv => ChannelsMatch
  <2> SUFFICES ASSUME InterInv, pc = "done", NEW k \in 1 .. Len(mem_ctrls)
               PROVE  LET c == mem_ctrls[k]
                      IN  /\ (c.dram # NoRange /\ c.nvm # NoRange) =>
                               c.dram.match = c.nvm.match
                          /\ opts.hmc =>
                               \E v \in 4 * c.port + 1 .. 4 * c.port + 4 :
                                 opts.ranges[v].start = c.dram.start
    BY DEF ChannelsMatch
  <2>1. (mem_ctrls[k].dram # NoRange /\ mem_ctrls[k].nvm # NoRange) =>
           mem_ctrls[k].dram.match = mem_ctrls[k].nvm.match
    BY DEF InterInv, SharedMatch
  <2>2. ASSUME opts.hmc
        PROVE  \E v \in 4 * mem_ctrls[k].port + 1 .. 4 * mem_ctrls[k].port + 4 :
                 opts.ranges[v].start = mem_ctrls[k].dram.start
    <3>0. TypesOK
      BY DEF InterInv
    <3>1. /\ Len(mem_ctrls) = Vaults * opts.num /\ Len(mem_ctrls) <= 4 * Crossbars
          /\ mem_ctrls[k].port = (k - 1) \div 4
          /\ opts.num = 1 => mem_ctrls[k].dram.start = opts.ranges[k].start
      BY <2>2 DEF InterInv, VaultsOK, Building
    <3>2. opts.num \in Nat \ {0}
      BY <3>0, TheOptions
    <3>3. opts.num = 1
      BY <3>1, <3>2 DEF Vaults, Crossbars
    <3>4. k \in Nat \ {0}
      BY <3>0 DEF TypesOK
    <3>5. k \in 4 * ((k - 1) \div 4) + 1 .. 4 * ((k - 1) \div 4) + 4
      BY <3>4, SMT
    <3> QED
      BY <3>1, <3>3, <3>5
  <2> QED
    BY <2>1, <2>2
<1>2. PlacesInv => InterInv
  BY DEF PlacesInv
<1> QED
  BY <1>1, <1>2, Invariant, PTL

LEMMA ParityType ==
  ASSUME NEW a, NEW b, NEW c
  PROVE  Parity(a, {b} \cup {c}) \in {0, 1} /\ Parity(a, {b}) \in {0, 1}
<1> DEFINE S == {x \in {b} \cup {c} : Bit(a, x) = 1}
           T == {x \in {b} : Bit(a, x) = 1}
<1>1. IsFiniteSet({b} \cup {c})
  BY FS_Singleton, FS_Union
<1>2. S \in SUBSET ({b} \cup {c}) /\ T \in SUBSET ({b} \cup {c})
  OBVIOUS
<1>3. IsFiniteSet(S) /\ IsFiniteSet(T)
  BY <1>1, <1>2, FS_Subset
<1>4. Cardinality(S) \in Nat /\ Cardinality(T) \in Nat
  BY <1>3, FS_CardinalityType
<1>5. Cardinality(S) % 2 \in {0, 1} /\ Cardinality(T) % 2 \in {0, 1}
  <2> DEFINE s == Cardinality(S)
             t == Cardinality(T)
  <2>1. s \in Nat /\ t \in Nat
    BY <1>4
  <2> HIDE DEF s, t
  <2>2. s % 2 \in {0, 1} /\ t % 2 \in {0, 1}
    BY <2>1, SMT
  <2> QED
    BY <2>2 DEF s, t
<1> QED
  BY <1>5 DEF Parity

\* The masks of an interface, one for each bit of a channel's number.
Mask(low, xor, k) == {low + k - 1} \cup IF xor = 0 THEN {} ELSE {xor + k - 1}

LEMMA Masks ==
  ASSUME NEW range, NEW low, NEW bits \in Nat, NEW xor, NEW match
  PROVE  LET f == AddrRange(range, low, bits, xor, match)
         IN  /\ Len(f.masks) = bits /\ f.match = match
             /\ f.start = range.start /\ f.size = range.size
             /\ (f.masks # <<>>) <=> bits > 0
             /\ \A k \in 1 .. bits : f.masks[k] = Mask(low, xor, k)
<1> DEFINE f == AddrRange(range, low, bits, xor, match)
           S == {Mask(low, xor, k) : k \in 1 .. bits}
<1>1. f.masks = [k \in 1 .. bits |-> Mask(low, xor, k)]
  BY DEF AddrRange, Mask
<1>2. f.match = match /\ f.start = range.start /\ f.size = range.size
  BY DEF AddrRange
<1>3. \A k \in 1 .. bits : f.masks[k] = Mask(low, xor, k)
  BY <1>1
<1>4. f.masks \in Seq(S) /\ Len(f.masks) = bits
  <2> DEFINE s == f.masks
  <2>1. s \in [1 .. bits -> S]
    BY <1>1
  <2> HIDE DEF s, S
  <2>2. s \in Seq(S)
    BY <2>1, SeqDef
  <2>3. Len(s) \in Nat /\ DOMAIN s = 1 .. Len(s)
    BY <2>2, LenProperties
  <2>4. Len(s) = bits
    BY <2>1, <2>3
  <2> QED
    BY <2>2, <2>4 DEF s
<1>5. f.masks # <<>> <=> bits > 0
  <2> DEFINE s == f.masks
  <2>1. s \in Seq(S) /\ Len(s) = bits
    BY <1>4
  <2> HIDE DEF s, S
  <2>2. s # <<>> <=> bits > 0
    BY <2>1, EmptySeq
  <2> QED
    BY <2>2 DEF s
<1> QED
  BY <1>2, <1>3, <1>4, <1>5

\* When all is made, the channels are as many as their bits can number.
LEMMA PowerOfChannels ==
  ASSUME PlacesInv, pc = "done"
  PROVE  IntlvBits \in Nat /\ opts.num = 2^IntlvBits
<1> DEFINE n == opts.num
           b == IntlvBits
<1>1. TypesOK /\ FitOK
  BY DEF PlacesInv, InterInv
<1>2. n \in Nat \ {0} /\ n < 2^AddrBits /\ Len(opts.ranges) \in Nat \ {0}
  BY <1>1, TheOptions, RangesAssumption DEF TypesOK
<1>3. b \in Nat /\ 2^b <= n /\ n < 2^(b + 1)
  BY <1>2, Log2Known, MemAssumption DEF IntlvBits
<1>4. CASE opts.driver = "config_mem"
  BY <1>1, <1>3, <1>4 DEF TypesOK, Building, Refused
<1>5. CASE opts.driver # "config_mem"
  <2>1. \A x \in All : Representable(IntfOf(x[1], x[2]))
    BY <1>1, <1>5 DEF FitOK, Building, MadeSoFar
  <2>2. <<1, n - 1>> \in All
    BY <1>2 DEF All
  <2>3. Representable(IntfOf(1, n - 1))
    BY <2>1, <2>2
  <2>4. PICK low, xor : IntfOf(1, n - 1) = AddrRange(opts.ranges[1], low, b, xor, n - 1)
    BY DEF IntfOf
  <2> DEFINE f == IntfOf(1, n - 1)
  <2>5. Len(f.masks) = b /\ f.match = n - 1 /\ (f.masks # <<>> <=> b > 0)
    <3>1. b \in Nat /\ f = AddrRange(opts.ranges[1], low, b, xor, n - 1)
      BY <1>3, <2>4
    <3> HIDE DEF b, f, n
    <3> QED
      BY <3>1, Masks
  <2>6. b > 0 => n - 1 < 2^b
    BY <2>3, <2>5 DEF Representable
  <2>7. 2^b \in Nat
    BY <1>3, PowersOfTwo
  <2>8. b = 0 => 2^(b + 1) = 2 * 2^b /\ 2^b = 1
    BY <1>3, PowersOfTwo
  <2> HIDE DEF b, f
  <2>9. n = 2^b
    <3> DEFINE p == 2^b
               q == 2^(b + 1)
    <3>1. /\ b \in Nat /\ p <= n /\ n < q /\ (b > 0 => n - 1 < p) /\ p \in Nat
          /\ b = 0 => q = 2 * p /\ p = 1
      BY <1>3, <2>6, <2>7, <2>8
    <3> HIDE DEF p, q
    <3>2. n = p
      BY <1>2, <3>1
    <3> QED
      BY <3>2 DEF p
  <2> QED
    BY <1>3, <2>9 DEF b
<1> QED
  BY <1>4, <1>5

\* Where the bits of an interface's channel are in an address.
LowOf(k) == IF opts.driver = "chi" THEN Log2(opts.cacheline_size)
                                   ELSE LowBit(TypeFor(k))
XorOf    == IF opts.driver = "chi" THEN 0 ELSE opts.xor_low_bit
Selects(a, k, ch) ==
  \A b \in 1 .. IntlvBits :
    Parity(a, Mask(LowOf(k), XorOf, b)) = Bit(ch, b - 1)

LEMMA IntfContains ==
  ASSUME PlacesInv, pc = "done", NEW k \in 1 .. Len(opts.ranges),
         NEW ch \in 0 .. opts.num - 1, NEW a
  PROVE  Contains(IntfOf(k, ch), a) <=>
           a \in Addresses(opts.ranges[k]) /\ Selects(a, k, ch)
<1> DEFINE bits == IntlvBits
           range == opts.ranges[k]
           f == AddrRange(range, LowOf(k), bits, XorOf, ch)
<1>1. IntfOf(k, ch) = f
  BY DEF IntfOf, LowOf, XorOf
<1>2. bits \in Nat
  BY PowerOfChannels
<1> HIDE DEF bits, range
<1>3. /\ Len(f.masks) = bits /\ f.match = ch
      /\ f.start = range.start /\ f.size = range.size
      /\ \A b \in 1 .. bits : f.masks[b] = Mask(LowOf(k), XorOf, b)
  BY <1>2, Masks
<1> HIDE DEF f
<1>4. Contains(f, a) <=> /\ a \in range.start .. range.start + range.size - 1
                         /\ \A b \in 1 .. bits : Parity(a, f.masks[b]) = Bit(ch, b - 1)
  BY <1>3 DEF Contains
<1>5. Contains(f, a) <=> /\ a \in Addresses(range)
                         /\ \A b \in 1 .. bits :
                              Parity(a, Mask(LowOf(k), XorOf, b)) = Bit(ch, b - 1)
  BY <1>3, <1>4 DEF Addresses
<1> QED
  BY <1>1, <1>5 DEF bits, range, Selects

\* The addresses of a range are its own.
LEMMA OneRange ==
  ASSUME TypesOK, NEW j \in 1 .. Len(opts.ranges), NEW k \in 1 .. Len(opts.ranges),
         NEW a, a \in Addresses(opts.ranges[j]), a \in Addresses(opts.ranges[k])
  PROVE  j = k
<1>1. /\ opts.ranges[j].start \in Nat /\ opts.ranges[j].size \in Nat
      /\ opts.ranges[k].start \in Nat /\ opts.ranges[k].size \in Nat
  BY TheOptions
<1> DEFINE s == opts.ranges[j].start
           t == opts.ranges[k].start
           m == opts.ranges[j].size
           n == opts.ranges[k].size
<1>2. j # k => s + m <= t \/ t + n <= s
  BY RangesAssumption DEF TypesOK
<1>3. a \in s .. s + m - 1 /\ a \in t .. t + n - 1
  BY DEF Addresses
<1>4. s \in Nat /\ t \in Nat /\ m \in Nat /\ n \in Nat
  BY <1>1
<1> HIDE DEF s, t, m, n
<1> QED
  BY <1>2, <1>3, <1>4

\* The parities of an address are the bits of just one channel.
LEMMA OneChannel ==
  ASSUME PlacesInv, pc = "done", NEW k \in 1 .. Len(opts.ranges), NEW a
  PROVE  \E ch \in 0 .. opts.num - 1 :
           Selects(a, k, ch) /\ \A d \in 0 .. opts.num - 1 : Selects(a, k, d) => d = ch
<1> DEFINE bits == IntlvBits
           par(b) == Parity(a, Mask(LowOf(k), XorOf, b))
           Is(ch) == \A b \in 1 .. bits : par(b) = Bit(ch, b - 1)
           v == [b \in Nat |-> par(b + 1)]
<1>1. bits \in Nat /\ opts.num = 2^bits
  BY PowerOfChannels
<1>2. ASSUME NEW b PROVE par(b) \in {0, 1}
  <2>1. CASE XorOf = 0
    <3>1. Mask(LowOf(k), XorOf, b) = {LowOf(k) + b - 1}
      BY <2>1 DEF Mask
    <3> QED
      BY <3>1, ParityType
  <2>2. CASE XorOf # 0
    <3>1. Mask(LowOf(k), XorOf, b) = {LowOf(k) + b - 1} \cup {XorOf + b - 1}
      BY <2>2 DEF Mask
    <3> QED
      BY <3>1, ParityType
  <2> QED
    BY <2>1, <2>2
<1> HIDE DEF bits, par
<1>3. v \in [Nat -> {0, 1}]
  BY <1>2
<1>4. PICK ch \in 0 .. 2^bits - 1 : \A b \in 0 .. bits - 1 : Bit(ch, b) = v[b]
  BY <1>1, <1>3, BitVector
<1>5. Is(ch)
  <2> SUFFICES ASSUME NEW b \in 1 .. bits PROVE par(b) = Bit(ch, b - 1)
    OBVIOUS
  <2>1. b - 1 \in 0 .. bits - 1 /\ b - 1 \in Nat /\ (b - 1) + 1 = b
    BY <1>1
  <2> QED
    BY <1>4, <2>1
<1>6. ASSUME NEW d \in 0 .. 2^bits - 1, Is(d) PROVE d = ch
  <2>1. ASSUME NEW b \in 0 .. bits - 1 PROVE Bit(d, b) = Bit(ch, b)
    <3>1. b + 1 \in 1 .. bits /\ (b + 1) - 1 = b
      BY <1>1
    <3> QED
      BY <1>5, <1>6, <3>1
  <2> QED
    BY <1>1, <2>1, BitsTell
<1>7. \E c \in 0 .. opts.num - 1 :
        Is(c) /\ \A d \in 0 .. opts.num - 1 : Is(d) => d = c
  BY <1>1, <1>5, <1>6
<1> QED
  BY <1>7 DEF bits, par, Selects

\* Every address of every memory range has exactly one owner: for any number of
\* channels the loops go through, any low bit and any hash, the interfaces that
\* config_mem, setup_memory_controllers and createAddrRanges create share the
\* addresses of each range.
THEOREM UniqueOwner == SystemSpec => []OneOwner
<1>1. PlacesInv => OneOwner
  <2> SUFFICES ASSUME PlacesInv, pc = "done", NEW k \in 1 .. Len(opts.ranges),
                      NEW a \in Addresses(opts.ranges[k])
               PROVE  Cardinality(Owners(a)) = 1
    BY DEF OneOwner
  <2>0. TypesOK /\ PlacesOK
    BY DEF PlacesInv, InterInv
  <2>1. PICK ch \in 0 .. opts.num - 1 :
          Selects(a, k, ch) /\ \A d \in 0 .. opts.num - 1 : Selects(a, k, d) => d = ch
    BY OneChannel
  <2>2. Places = Interfaces /\ \A p \in Interfaces : Holds(p) = RangeOf(p)
    BY DEF Places, Waiting, Holds, Interfaces
  <2>3. MadeSoFar = All /\ <<k, ch>> \in All
    BY DEF MadeSoFar, All
  <2>4. \E n \in Interfaces : RangeOf(n) = IntfOf(k, ch)
    <3>1. \E p \in Places : Holds(p) = IntfOf(<<k, ch>>[1], <<k, ch>>[2])
      BY <2>0, <2>3 DEF PlacesOK, Building
    <3> QED
      BY <2>2, <3>1
  <2>5. PICK n \in Interfaces : RangeOf(n) = IntfOf(k, ch)
    BY <2>4
  <2>6. n \in Owners(a)
    BY <2>1, <2>5, IntfContains DEF Owners
  <2>7. ASSUME NEW q \in Owners(a) PROVE q = n
    <3>1. q \in Interfaces /\ Contains(RangeOf(q), a)
      BY DEF Owners
    <3>2. RangeOf(q) # NoRange
      <4>1. ~Contains(NoRange, a)
        BY DEF Contains, NoRange
      <4> QED
        BY <3>1, <4>1
    <3>3. PICK x \in All : RangeOf(q) = IntfOf(x[1], x[2])
      BY <2>0, <2>2, <2>3, <3>1, <3>2 DEF PlacesOK, Building
    <3>4. x[1] \in 1 .. Len(opts.ranges) /\ x[2] \in 0 .. opts.num - 1 /\ x = <<x[1], x[2]>>
      BY DEF All
    <3>5. a \in Addresses(opts.ranges[x[1]]) /\ Selects(a, x[1], x[2])
      BY <3>1, <3>3, <3>4, IntfContains
    <3>6. x[1] = k
      BY <2>0, <3>4, <3>5, OneRange
    <3>7. x[2] = ch
      BY <2>1, <3>4, <3>5, <3>6
    <3>8. RangeOf(q) = RangeOf(n) /\ RangeOf(n) # NoRange
      BY <2>5, <3>2, <3>3, <3>6, <3>7
    <3> QED
      BY <2>0, <2>2, <3>1, <3>8 DEF PlacesOK, Building
  <2>8. Owners(a) = {n}
    BY <2>6, <2>7
  <2> QED
    BY <2>8, FS_Singleton
<1> QED
  BY <1>1, Invariant, PTL

-----------------------------------------------------------------------------
(* Blocks.                                                                 *)

\* The block of a command line; and what the code expects of the sizes: a cache
\* line is a power of two, and a row or bank buffer that channels are selected
\* above of is at least a block.
BlockOf(o) == IF o.driver = "ruby" /\ o.numa_high_bit > 0
              THEN 2^(o.numa_high_bit + 1 - Log2(o.num)) ELSE o.cacheline_size
BlocksFit(o) ==
  /\ \E p \in Nat : o.cacheline_size = 2^p
  /\ \A type \in {o.mem_type, o.nvm_type} :
       (/\ type.class \in {"dram", "nvm"} /\ type.mapping = "RoRaBaChCo"
        /\ o.num > 1) => BlockOf(o) <= 2^type.buffer

\* A power of two that is below another has a lower exponent.
LEMMA Exponents ==
  ASSUME NEW a \in Nat, NEW b \in Nat
  PROVE  /\ 2^a <= 2^b => a <= b
         /\ 2^a < 2^(b + 1) => a <= b
         /\ a < b => 2^a < 2^b
<1> DEFINE p == 2^a
           q == 2^b
<1>1. /\ p \in Nat \ {0} /\ q \in Nat \ {0} /\ 2^(a + 1) = 2 * p /\ 2^(b + 1) = 2 * q
      /\ b < a => 2^(b + 1) <= p
      /\ a < b => 2^(a + 1) <= q
  BY PowersOfTwo, Powers
<1>2. /\ b < a => 2 * q <= p
      /\ a < b => 2 * p <= q
  BY <1>1
<1> HIDE DEF p, q
<1>3. (p <= q => a <= b) /\ (p < 2 * q => a <= b) /\ (a < b => p < q)
  BY <1>1, <1>2
<1> QED
  BY <1>1, <1>3 DEF p, q

\* The bits that select a channel are above those of a block.
LEMMA AboveBlock ==
  ASSUME PlacesInv, pc = "done", \A o \in Options : BlocksFit(o),
         opts.xor_low_bit = 0 \/ 2^opts.xor_low_bit >= Block,
         NEW k \in 1 .. Len(opts.ranges), NEW b \in 1 .. IntlvBits
  PROVE  \E p \in Nat : /\ Block = 2^p
                        /\ \A c \in Mask(LowOf(k), XorOf, b) : c \in Nat /\ p <= c
<1> DEFINE bits == IntlvBits
           low  == LowOf(k)
           xor  == opts.xor_low_bit
<1>0. TypesOK
  BY DEF PlacesInv, InterInv
<1>1. opts \in OptionTypes /\ opts.num \in Nat \ {0} /\ BlocksFit(opts) /\ opts \in Options
  BY <1>0, TheOptions DEF TypesOK
<1>2. /\ bits \in Nat \ {0} /\ b \in Nat \ {0} /\ opts.num = 2^bits /\ opts.num > 1
      /\ Log2(opts.num) = bits
  <2>1. bits \in Nat /\ opts.num = 2^bits
    BY PowerOfChannels
  <2>2. bits > 0 /\ b \in Nat \ {0}
    BY <2>1
  <2>3. opts.num > 1
    BY <2>1, <2>2, Powers
  <2> QED
    BY <2>1, <2>2, <2>3 DEF IntlvBits
<1>3. /\ xor \in Nat /\ opts.cacheline_size \in Nat \ {0} /\ opts.numa_high_bit \in Nat
      /\ opts.mem_channels_intlv \in Nat
      /\ opts.driver \in {"config_mem", "ruby", "chi"}
      /\ opts.mem_type \in MemTypes \cup {NoType} /\ opts.nvm_type \in MemTypes \cup {NoType}
  BY <1>1 DEF OptionTypes
<1>4. /\ opts.cacheline_size < 2^AddrBits /\ opts.mem_channels_intlv < 2^AddrBits
      /\ opts.numa_high_bit > 0 =>
           Log2(opts.num) <= opts.numa_high_bit + 1 /\ opts.numa_high_bit < AddrBits
      /\ AddrBits \in Nat
  BY <1>1, RangesAssumption, MemAssumption
<1>5. Block = BlockOf(opts)
  BY DEF Block, BlockOf, DirBlock, IntlvBits
<1>6. \E p \in Nat : Block = 2^p
  <2>1. CASE opts.driver = "ruby" /\ opts.numa_high_bit > 0
    <3>1. opts.numa_high_bit + 1 - bits \in Nat
      BY <1>2, <1>3, <1>4, <2>1
    <3> QED
      BY <1>2, <1>5, <2>1, <3>1 DEF BlockOf
  <2>2. CASE ~(opts.driver = "ruby" /\ opts.numa_high_bit > 0)
    BY <1>1, <1>5, <2>2 DEF BlockOf, BlocksFit
  <2> QED
    BY <2>1, <2>2
<1>7. PICK p \in Nat : Block = 2^p
  BY <1>6
<1>8. ASSUME NEW n \in Nat \ {0}, n < 2^AddrBits, 2^p <= n
      PROVE  Log2(n) \in Nat /\ p <= Log2(n)
  <2> DEFINE m == Log2(n)
  <2>1. m \in Nat /\ n < 2^(m + 1)
    BY <1>4, <1>8, Log2Known
  <2> HIDE DEF m
  <2>2. 2^p \in Nat /\ 2^(m + 1) \in Nat
    BY <2>1, PowersOfTwo
  <2>3. 2^p < 2^(m + 1)
    BY <1>8, <2>1, <2>2
  <2>4. p <= m
    BY <2>1, <2>3, Exponents
  <2> QED
    BY <2>1, <2>4 DEF m
<1>9. Block < 2^AddrBits /\ Block \in Nat \ {0}
  <2>1. CASE opts.driver = "ruby" /\ opts.numa_high_bit > 0
    <3> DEFINE e == opts.numa_high_bit + 1 - bits
    <3>1. e \in Nat /\ e < AddrBits
      <4>1. bits \in Nat /\ opts.numa_high_bit \in Nat /\ AddrBits \in Nat
        BY <1>2, <1>3, <1>4
      <4>2. bits <= opts.numa_high_bit + 1 /\ opts.numa_high_bit < AddrBits
        BY <1>2, <1>4, <2>1
      <4>3. 0 < bits
        BY <1>2
      <4> QED
        BY <4>1, <4>2, <4>3
    <3>2. Block = 2^e
      BY <1>2, <1>5, <2>1 DEF BlockOf
    <3> HIDE DEF e
    <3> QED
      BY <1>4, <3>1, <3>2, Exponents, PowersOfTwo
  <2>2. CASE ~(opts.driver = "ruby" /\ opts.numa_high_bit > 0)
    BY <1>3, <1>4, <1>5, <2>2 DEF BlockOf
  <2> QED
    BY <2>1, <2>2
<1>10. IntlvSize \in Nat \ {0} /\ IntlvSize < 2^AddrBits /\ Block <= IntlvSize
  <2>1. CASE opts.driver = "ruby"
    BY <1>9, <2>1 DEF IntlvSize, Block
  <2>2. CASE opts.driver # "ruby"
    BY <1>3, <1>4, <2>2 DEF IntlvSize, Block
  <2> QED
    BY <2>1, <2>2
<1>11. ASSUME NEW type \in {opts.mem_type, opts.nvm_type}
       PROVE  LowBit(type) \in Nat /\ p <= LowBit(type)
  <2>1. CASE type.class \in {"dram", "nvm"} /\ type.mapping = "RoRaBaChCo"
    <3>1. LowBit(type) = type.buffer
      BY <2>1 DEF LowBit
    <3>2. type.buffer \in Nat
      <4>1. type \in MemTypes \/ type = NoType
        BY <1>3
      <4>2. NoType.buffer = 0
        BY DEF NoType
      <4>3. \A t \in MemTypes : t.buffer \in Nat
        BY DEF MemTypes
      <4> QED
        BY <4>1, <4>2, <4>3
    <3>3. 2^p <= 2^type.buffer
      BY <1>1, <1>2, <1>5, <1>7, <2>1 DEF BlocksFit
    <3> QED
      BY <3>1, <3>2, <3>3, Exponents
  <2>2. CASE ~(type.class \in {"dram", "nvm"} /\ type.mapping = "RoRaBaChCo")
    <3>1. LowBit(type) = Log2(IntlvSize)
      BY <2>2 DEF LowBit
    <3> QED
      BY <1>7, <1>8, <1>10, <3>1
  <2> QED
    BY <2>1, <2>2
<1>12. low \in Nat /\ p <= low
  <2>1. CASE opts.driver = "chi"
    <3>1. low = Log2(opts.cacheline_size) /\ Block = opts.cacheline_size
      BY <2>1 DEF LowOf, Block
    <3> QED
      BY <1>3, <1>4, <1>7, <1>8, <1>9, <3>1
  <2>2. CASE opts.driver # "chi"
    <3>1. low = LowBit(TypeFor(k)) /\ TypeFor(k) \in {opts.mem_type, opts.nvm_type}
      BY <2>2 DEF LowOf, TypeFor
    <3> QED
      BY <1>11, <3>1
  <2> QED
    BY <2>1, <2>2
<1>13. xor # 0 => p <= xor
  BY <1>3, <1>7, Exponents
<1>14. XorOf = 0 \/ (XorOf = xor /\ xor # 0)
  BY DEF XorOf
<1> HIDE DEF low, xor, bits
<1>15. \A c \in Mask(low, XorOf, b) : c \in Nat /\ p <= c
  <2>1. \A c \in Mask(low, XorOf, b) :
          c = low + b - 1 \/ (c = xor + b - 1 /\ xor # 0)
    BY <1>14 DEF Mask
  <2>2. low + b - 1 \in Nat /\ p <= low + b - 1
    BY <1>2, <1>12
  <2>3. xor # 0 => xor + b - 1 \in Nat /\ p <= xor + b - 1
    BY <1>2, <1>3, <1>13
  <2> QED
    BY <2>1, <2>2, <2>3
<1> QED
  BY <1>7, <1>15 DEF low

\* A block (a cache line; for Ruby block_size_bytes) has one owner, unless it is
\* hashed with bits of its own, whatever --mem-channels-intlv asks for.  With
\* the channel above the columns (RoRaBaChCo) this needs a buffer that is not
\* smaller than the block, which create_mem_intf does not check.
THEOREM WholeBlocks ==
  ASSUME \A o \in Options : BlocksFit(o)
  PROVE  SystemSpec => []BlocksUndivided
<1>1. PlacesInv => BlocksUndivided
  <2> SUFFICES ASSUME PlacesInv, pc = "done",
                      opts.xor_low_bit = 0 \/ 2^opts.xor_low_bit >= Block,
                      NEW k \in 1 .. Len(opts.ranges),
                      NEW a \in Addresses(opts.ranges[k]),
                      a - (a % Block) >= opts.ranges[k].start
               PROVE  Owners(a) = Owners(a - (a % Block))
    BY DEF BlocksUndivided
  <2> DEFINE first == a - (a % Block)
  <2>0. TypesOK /\ PlacesOK
    BY DEF PlacesInv, InterInv
  <2>1. /\ opts.ranges[k].start \in Nat /\ opts.ranges[k].size \in Nat
        /\ a \in Nat
    <3>1. opts.ranges[k].start \in Nat /\ opts.ranges[k].size \in Nat
      BY <2>0, TheOptions
    <3> QED
      BY <3>1 DEF Addresses
  <2>2. IntlvBits \in Nat
    BY PowerOfChannels
  <2>3. Block \in Nat \ {0}
    <3>1. BlocksFit(opts) /\ opts \in OptionTypes
      BY <2>0, TheOptions DEF TypesOK
    <3>2. CASE opts.driver = "ruby" /\ opts.numa_high_bit > 0
      <4>1. Log2(opts.num) = IntlvBits
        BY DEF IntlvBits
      <4>2. Log2(opts.num) <= opts.numa_high_bit + 1 /\ opts.numa_high_bit \in Nat
        BY <2>0, <3>1, <3>2, RangesAssumption DEF TypesOK, OptionTypes
      <4>3. opts.numa_high_bit + 1 - IntlvBits \in Nat
        BY <2>2, <4>1, <4>2
      <4> QED
        BY <3>2, <4>3, PowersOfTwo DEF Block, DirBlock
    <3>3. CASE ~(opts.driver = "ruby" /\ opts.numa_high_bit > 0)
      BY <3>1, <3>3 DEF Block, DirBlock, OptionTypes
    <3> QED
      BY <3>2, <3>3
  <2>4. first \in Nat /\ first <= a /\ first \in Addresses(opts.ranges[k])
    <3> DEFINE n == Block
               m == a % n
               s == opts.ranges[k].start
               z == opts.ranges[k].size
    <3>1. n \in Nat \ {0}
      BY <2>3
    <3> HIDE DEF n
    <3>2. m \in 0 .. n - 1 /\ m <= a
      <4> DEFINE q == a \div n
      <4>1. m \in 0 .. n - 1 /\ q \in Nat /\ a = m + q * n
        BY <2>1, <3>1, Division
      <4> HIDE DEF m, q
      <4>2. q * n \in Nat
        BY <3>1, <4>1, SMT
      <4> QED
        BY <3>1, <4>1, <4>2
    <3>3. first = a - m /\ a \in s .. s + z - 1 /\ first >= s
      BY DEF Addresses, n
    <3>4. Addresses(opts.ranges[k]) = s .. s + z - 1
      BY DEF Addresses
    <3>5. s \in Nat /\ z \in Nat
      BY <2>1
    <3> HIDE DEF m, s, z, first
    <3>6. first \in Nat /\ first <= a /\ first \in s .. s + z - 1
      BY <2>1, <3>1, <3>2, <3>3, <3>5
    <3> QED
      BY <3>4, <3>6
  <2>5. \A b \in 1 .. IntlvBits : \A c \in Mask(LowOf(k), XorOf, b) :
          Bit(first, c) = Bit(a, c)
    <3> SUFFICES ASSUME NEW b \in 1 .. IntlvBits, NEW c \in Mask(LowOf(k), XorOf, b)
                 PROVE  Bit(first, c) = Bit(a, c)
      OBVIOUS
    <3>1. PICK p \in Nat : Block = 2^p /\ \A e \in Mask(LowOf(k), XorOf, b) : e \in Nat /\ p <= e
      BY AboveBlock
    <3>2. Bit(a - (a % 2^p), c) = Bit(a, c)
      BY <2>1, <3>1, BlockBits
    <3> QED
      BY <3>1, <3>2
  <2> HIDE DEF first
  <2>6. ASSUME NEW b \in 1 .. IntlvBits
        PROVE  Parity(first, Mask(LowOf(k), XorOf, b)) = Parity(a, Mask(LowOf(k), XorOf, b))
    <3> DEFINE M == Mask(LowOf(k), XorOf, b)
    <3>1. {c \in M : Bit(first, c) = 1} = {c \in M : Bit(a, c) = 1}
      BY <2>5
    <3> QED
      BY <3>1 DEF Parity
  <2>7. \A ch : Selects(first, k, ch) <=> Selects(a, k, ch)
    BY <2>6 DEF Selects
  <2>8. ASSUME NEW n \in Interfaces
        PROVE  Contains(RangeOf(n), first) <=> Contains(RangeOf(n), a)
    <3>1. CASE RangeOf(n) = NoRange
      BY <3>1 DEF Contains, NoRange
    <3>2. CASE RangeOf(n) # NoRange
      <4>1. PICK x \in All : RangeOf(n) = IntfOf(x[1], x[2])
        <5>1. n \in Places /\ Holds(n) = RangeOf(n) /\ MadeSoFar = All
          BY DEF Places, Holds, Interfaces, MadeSoFar
        <5> QED
          BY <2>0, <3>2, <5>1 DEF PlacesOK, Building
      <4>2. x[1] \in 1 .. Len(opts.ranges) /\ x[2] \in 0 .. opts.num - 1
        BY DEF All
      <4>3. \A c : Contains(RangeOf(n), c) <=>
                     c \in Addresses(opts.ranges[x[1]]) /\ Selects(c, x[1], x[2])
        BY <4>1, <4>2, IntfContains
      <4>4. CASE x[1] = k
        BY <2>4, <2>7, <4>3, <4>4
      <4>5. CASE x[1] # k
        <5>1. a \notin Addresses(opts.ranges[x[1]])
          BY <2>0, <4>2, <4>5, OneRange
        <5>2. first \notin Addresses(opts.ranges[x[1]])
          BY <2>0, <2>4, <4>2, <4>5, OneRange
        <5> QED
          BY <4>3, <5>1, <5>2
      <4> QED
        BY <4>4, <4>5
    <3> QED
      BY <3>1, <3>2
  <2>9. Owners(a) = Owners(first)
    BY <2>8 DEF Owners
  <2> QED
    BY <2>9 DEF first
<1> QED
  BY <1>1, Invariant, PTL
-----------------------------------------------------------------------------
(* The testers of a tree.                                                  *)

\* A function that is defined by recursion over an interval exists.
Recursive(f, a, n, V, base, step) ==
  /\ f \in [a .. a + n -> V]
  /\ f[a] = base
  /\ \A k \in a + 1 .. a + n : f[k] = step[<<k, f[k - 1]>>]

LEMMA Recursion ==
  ASSUME NEW a \in Nat, NEW n \in Nat, NEW V, NEW base \in V,
         NEW step \in [Nat \X V -> V]
  PROVE  \E f : Recursive(f, a, n, V, base, step)
<1> USE DEF Recursive
<1> DEFINE Solves(f, m) == Recursive(f, a, m, V, base, step)
           T == {m \in Nat : ~(\E f : Solves(f, m))}
<1>1. \E f : Solves(f, 0)
  <2> DEFINE f == [k \in a .. a + 0 |-> base]
  <2>1. Solves(f, 0)
    OBVIOUS
  <2> QED
    BY <2>1
<1>2. ASSUME NEW m \in Nat, NEW f, Solves(f, m) PROVE \E g : Solves(g, m + 1)
  <2> DEFINE last == step[<<a + m + 1, f[a + m]>>]
             g == [k \in a .. a + (m + 1) |-> IF k = a + m + 1 THEN last ELSE f[k]]
  <2>1. f[a + m] \in V
    BY <1>2
  <2>2. last \in V
    BY <2>1
  <2> HIDE DEF last
  <2>3. g \in [a .. a + (m + 1) -> V]
    <3>1. \A k \in a .. a + (m + 1) : k # a + m + 1 => k \in a .. a + m
      OBVIOUS
    <3> QED
      BY <1>2, <2>2, <3>1
  <2>4. g[a] = base
    BY <1>2
  <2>5. ASSUME NEW k \in a + 1 .. a + (m + 1) PROVE g[k] = step[<<k, g[k - 1]>>]
    <3>1. CASE k = a + m + 1
      <4>1. g[k] = last /\ g[k - 1] = f[a + m]
        BY <3>1
      <4> QED
        BY <3>1, <4>1 DEF last
    <3>2. CASE k # a + m + 1
      <4>1. k \in a + 1 .. a + m
        BY <3>2
      <4>2. g[k] = f[k] /\ g[k - 1] = f[k - 1]
        BY <4>1
      <4> HIDE DEF g
      <4> QED
        BY <1>2, <4>1, <4>2
    <3> QED
      BY <3>1, <3>2
  <2>6. Solves(g, m + 1)
    BY <2>3, <2>4, <2>5
  <2> QED
    BY <2>6
<1> HIDE DEF Solves
<1>3. T = {}
  <2> SUFFICES ASSUME T # {} PROVE FALSE
    OBVIOUS
  <2>1. PICK m \in T : \A y \in T : m <= y
    BY LeastNumber
  <2>2. m # 0
    BY <1>1, <2>1
  <2>3. m - 1 \in Nat /\ ~(m - 1 \in T)
    BY <2>1, <2>2
  <2>4. PICK f : Solves(f, m - 1)
    BY <2>3
  <2>5. \E g : Solves(g, (m - 1) + 1)
    BY <1>2, <2>3, <2>4
  <2>6. (m - 1) + 1 = m
    BY <2>1
  <2> QED
    BY <2>1, <2>5, <2>6
<1> QED
  BY <1>3 DEF Solves

\* A specification that the scripts accept.
SpecOK(caches, testers) ==
  /\ caches \in Seq(Int) /\ testers \in Seq(Int)
  /\ Len(caches) \in Nat \ {0} /\ Len(testers) = Len(caches) + 1
  /\ \A k \in 1 .. Len(caches) : caches[k] \in Nat \ {0}
  /\ \A k \in 1 .. Len(caches) + 1 : testers[k] \in Nat
  /\ testers[Len(caches) + 1] # 0

LEMMA Accepted ==
  ASSUME NEW caches \in Seq(Int), NEW testers \in Seq(Int),
         ~SpecRefused(caches, testers)
  PROVE  SpecOK(caches, testers)
<1>1. Len(caches) \in Nat /\ Len(testers) \in Nat
  OBVIOUS
<1>2. \A k \in 1 .. Len(caches) : caches[k] \in Int
  OBVIOUS
<1>3. \A k \in 1 .. Len(testers) : testers[k] \in Int
  OBVIOUS
<1> QED
  BY <1>1, <1>2, <1>3 DEF SpecRefused, SpecOK

\* How many subsystems a level has.
LEMMA Multipliers ==
  ASSUME NEW caches, NEW testers, SpecOK(caches, testers)
  PROVE  LET times == Multiplier(caches) IN
         /\ times[1] = 1
         /\ \A k \in 1 .. Len(caches) : times[k + 1] = times[k] * caches[k]
         /\ \A k \in 1 .. Len(caches) + 1 : times[k] \in Nat \ {0}
<1> DEFINE n == Len(caches)
           V == Nat \ {0}
           factor(k) == IF k - 1 \in 1 .. n THEN caches[k - 1] ELSE 1
           step == [x \in Nat \X V |-> x[2] * factor(x[1])]
           times == Multiplier(caches)
<1>1. n \in Nat /\ \A k \in 1 .. n : caches[k] \in V
  BY DEF SpecOK
<1>2. step \in [Nat \X V -> V]
  <2>1. ASSUME NEW x \in Nat \X V PROVE x[2] * factor(x[1]) \in V
    <3>1. x[2] \in V /\ factor(x[1]) \in V
      BY <1>1
    <3> HIDE DEF factor
    <3> QED
      BY <3>1, Product, SMT
  <2> QED
    BY <2>1
<1> HIDE DEF V
<1>3. 1 \in V
  BY DEF V
<1>4. PICK f \in [1 .. 1 + n -> V] :
        /\ f[1] = 1
        /\ \A k \in 1 + 1 .. 1 + n : f[k] = step[<<k, f[k - 1]>>]
  <2> HIDE DEF step, n
  <2>1. \E f : Recursive(f, 1, n, V, 1, step)
    BY <1>1, <1>2, <1>3, Recursion
  <2> QED
    BY <2>1 DEF Recursive
<1>5. f = [k \in 1 .. n + 1 |-> IF k = 1 THEN 1 ELSE f[k - 1] * caches[k - 1]]
  <2>1. f = [k \in 1 .. n + 1 |-> f[k]]
    <3>1. 1 .. 1 + n = 1 .. n + 1
      BY <1>1
    <3> QED
      BY <3>1
  <2>2. ASSUME NEW k \in 1 .. n + 1, k # 1 PROVE f[k] = f[k - 1] * caches[k - 1]
    <3>1. /\ k - 1 \in 1 .. n /\ k - 1 \in 1 .. 1 + n /\ k \in Nat
          /\ k \in 1 + 1 .. 1 + n
      <4> HIDE DEF n
      <4> QED
        BY <1>1, <2>2
    <3>2. f[k - 1] \in V
      BY <1>4, <3>1
    <3>3. step[<<k, f[k - 1]>>] = f[k - 1] * caches[k - 1]
      BY <3>1, <3>2
    <3> HIDE DEF step, n
    <3> QED
      BY <1>4, <3>1, <3>3
  <2> HIDE DEF step, n
  <2> QED
    BY <1>4, <2>1, <2>2
<1>6. times = [k \in 1 .. n + 1 |-> IF k = 1 THEN 1 ELSE times[k - 1] * caches[k - 1]]
  BY <1>5 DEF Multiplier
<1>7. times = CHOOSE g : g = [k \in 1 .. n + 1 |-> IF k = 1 THEN 1 ELSE g[k - 1] * caches[k - 1]]
  BY DEF Multiplier
<1> HIDE DEF times, n
<1>8. times[1] = 1
  BY <1>1, <1>6
<1>9. ASSUME NEW k \in 1 .. n PROVE times[k + 1] = times[k] * caches[k]
  BY <1>1, <1>6
<1>10. \A k \in 1 .. n + 1 : times[k] \in V
  <2> SUFFICES ASSUME \E k \in 1 .. n + 1 : times[k] \notin V PROVE FALSE
    OBVIOUS
  <2> DEFINE T == {k \in 1 .. n + 1 : times[k] \notin V}
  <2>1. PICK k \in T : \A y \in T : k <= y
    <3>1. T \subseteq Nat /\ T # {}
      BY <1>1
    <3> HIDE DEF T
    <3> QED
      BY <3>1, LeastNumber
  <2>2. k # 1
    BY <1>3, <1>8, <2>1
  <2>3. k - 1 \in 1 .. n /\ times[k - 1] \in V
    BY <1>1, <2>1, <2>2
  <2>4. times[k] = times[k - 1] * caches[k - 1]
    <3>1. (k - 1) + 1 = k
      BY <2>1
    <3> QED
      BY <1>9, <2>3, <3>1
  <2>5. times[k - 1] * caches[k - 1] \in V
    <3>1. times[k - 1] \in V /\ caches[k - 1] \in V
      BY <1>1, <2>3
    <3> QED
      BY <3>1, SMT DEF V
  <2> QED
    BY <2>1, <2>4, <2>5
<1> QED
  BY <1>8, <1>9, <1>10 DEF times, n, V

\* numtesters is a sum over the levels.
LEMMA Totals ==
  ASSUME NEW caches, NEW testers, SpecOK(caches, testers)
  PROVE  \E total :
           /\ total[0] = 0
           /\ \A k \in 1 .. Len(caches) + 1 :
                total[k] = total[k - 1] + testers[k] * Multiplier(caches)[k]
           /\ NumTesters(caches, testers) = total[Len(caches) + 1]
<1> DEFINE n == Len(caches)
           times == Multiplier(caches)
           inLevel(k) == IF k \in 1 .. n + 1 THEN testers[k] * times[k] ELSE 0
           step == [x \in Nat \X Nat |-> x[2] + inLevel(x[1])]
           total == CHOOSE g : g = [k \in 0 .. Len(testers) |->
                      IF k = 0 THEN 0 ELSE g[k - 1] + testers[k] * Multiplier(caches)[k]]
<1>1. /\ n \in Nat /\ Len(testers) = n + 1
      /\ \A k \in 1 .. n + 1 : testers[k] \in Nat
  BY DEF SpecOK
<1>2. \A k \in 1 .. n + 1 : times[k] \in Nat
  BY Multipliers
<1> HIDE DEF n, times
<1>3. step \in [Nat \X Nat -> Nat]
  <2>1. ASSUME NEW x \in Nat \X Nat PROVE x[2] + inLevel(x[1]) \in Nat
    <3>1. CASE x[1] \in 1 .. n + 1
      <4>1. testers[x[1]] * times[x[1]] \in Nat
        BY <1>1, <1>2, <3>1, SMT
      <4> QED
        BY <3>1, <4>1
    <3>2. CASE x[1] \notin 1 .. n + 1
      BY <3>2
    <3> QED
      BY <3>1, <3>2
  <2> QED
    BY <2>1
<1>4. PICK f : Recursive(f, 0, n + 1, Nat, 0, step)
  <2> HIDE DEF step
  <2>1. n + 1 \in Nat /\ 0 \in Nat
    BY <1>1
  <2> QED
    BY <1>3, <2>1, Recursion
<1>5. f = [k \in 0 .. Len(testers) |->
             IF k = 0 THEN 0 ELSE f[k - 1] + testers[k] * Multiplier(caches)[k]]
  <2>1. f = [k \in 0 .. Len(testers) |-> f[k]] /\ f[0] = 0
    <3>1. 0 + (n + 1) = Len(testers)
      BY <1>1
    <3> HIDE DEF step
    <3> QED
      BY <1>4, <3>1 DEF Recursive
  <2>2. ASSUME NEW k \in 0 .. Len(testers), k # 0
        PROVE  f[k] = f[k - 1] + testers[k] * times[k]
    <3>1. k \in 0 + 1 .. 0 + (n + 1) /\ k - 1 \in 0 .. 0 + (n + 1) /\ k \in 1 .. n + 1 /\ k \in Nat
      BY <1>1, <2>2
    <3>2. f[k - 1] \in Nat /\ f[k] = step[<<k, f[k - 1]>>]
      <4> HIDE DEF step
      <4> QED
        BY <1>4, <3>1 DEF Recursive
    <3>3. step[<<k, f[k - 1]>>] = f[k - 1] + testers[k] * times[k]
      BY <3>1, <3>2
    <3> QED
      BY <3>2, <3>3
  <2> HIDE DEF step
  <2> QED
    BY <2>1, <2>2 DEF times
<1> HIDE DEF step
<1>6. total = [k \in 0 .. Len(testers) |->
                 IF k = 0 THEN 0 ELSE total[k - 1] + testers[k] * Multiplier(caches)[k]]
  BY <1>5
<1>7. NumTesters(caches, testers) = total[Len(testers)]
  BY DEF NumTesters
<1> HIDE DEF total
<1>8. total[0] = 0
  BY <1>1, <1>6
<1>9. \A k \in 1 .. n + 1 : total[k] = total[k - 1] + testers[k] * Multiplier(caches)[k]
  BY <1>1, <1>6
<1> QED
  BY <1>1, <1>7, <1>8, <1>9 DEF n

\* The calls of make_cache_level that the calls of the level below make.
Calls(made, caches, k) ==
  {Above(caches, k, s, n) : s \in made[k - 1], n \in 1 .. caches[k]}

LEMMA SubsystemsMade ==
  ASSUME NEW caches, NEW testers, SpecOK(caches, testers)
  PROVE  /\ Subsystems(caches)[0] = {Subsystem(0, {})}
         /\ \A k \in 1 .. Len(caches) :
              Subsystems(caches)[k] = Calls(Subsystems(caches), caches, k)
<1> DEFINE n == Len(caches)
           Sub == [index : Int, next_cache : SUBSET {At("tree_cache", l, x, c) :
                                                       l \in Int, x \in Int, c \in Int}]
           V == SUBSET Sub
           Up(S, k) == {Above(caches, k, s, c) : s \in S, c \in 1 .. caches[k]}
           step == [x \in Nat \X V |-> IF x[1] \in 1 .. n THEN Up(x[2], x[1]) ELSE {}]
           made == Subsystems(caches)
<1>1. n \in Nat /\ \A k \in 1 .. n : caches[k] \in Nat
  BY DEF SpecOK
<1>2. ASSUME NEW S \in V, NEW k \in 1 .. n PROVE Up(S, k) \in V
  <2> SUFFICES ASSUME NEW s \in S, NEW c \in 1 .. caches[k]
               PROVE  Above(caches, k, s, c) \in Sub
    <3> HIDE DEF Sub
    <3> QED
      OBVIOUS
  <2>2. s \in Sub /\ s.index \in Int /\ caches[k] \in Int /\ c \in Int /\ n - k + 1 \in Int
    BY <1>1
  <2>3. s.index * caches[k] + c - 1 \in Int
    BY <2>2, SMT
  <2>4. {At("tree_cache", n - k + 1, s.index, c)}
          \in SUBSET {At("tree_cache", l, x, d) : l \in Int, x \in Int, d \in Int}
    BY <2>2
  <2> QED
    BY <2>3, <2>4 DEF Subsystem, Above
<1>3. step \in [Nat \X V -> V] /\ {Subsystem(0, {})} \in V
  <2>1. {Subsystem(0, {})} \in V
    BY DEF Subsystem
  <2>2. {} \in V
    OBVIOUS
  <2> HIDE DEF V, Up
  <2> QED
    BY <1>2, <2>1, <2>2
<1>4. PICK f : Recursive(f, 0, n, V, {Subsystem(0, {})}, step)
  <2> HIDE DEF step, n, V
  <2> QED
    BY <1>1, <1>3, Recursion
<1>5. f[0] = {Subsystem(0, {})} /\ f = [k \in 0 .. n |-> f[k]]
  <2> HIDE DEF step, V, n
  <2> QED
    BY <1>1, <1>4 DEF Recursive
<1>6. ASSUME NEW k \in 0 .. n, k # 0 PROVE f[k] = Up(f[k - 1], k)
  <2>1. k \in 0 + 1 .. 0 + n /\ k - 1 \in 0 .. 0 + n /\ k \in 1 .. n /\ k \in Nat
    <3> HIDE DEF n
    <3> QED
      BY <1>1, <1>6
  <2>2. f[k - 1] \in V /\ f[k] = step[<<k, f[k - 1]>>]
    <3> HIDE DEF step, V, n
    <3> QED
      BY <1>4, <2>1 DEF Recursive
  <2>3. step[<<k, f[k - 1]>>] = Up(f[k - 1], k)
    <3> HIDE DEF V, Up, n
    <3> QED
      BY <2>1, <2>2
  <2> HIDE DEF step, Up, V, n
  <2> QED
    BY <2>2, <2>3
<1>7. f = [k \in 0 .. n |-> IF k = 0 THEN {Subsystem(0, {})} ELSE Up(f[k - 1], k)]
  <2> HIDE DEF Up, n, V, step
  <2> QED
    BY <1>5, <1>6
<1>8. made = [k \in 0 .. n |-> IF k = 0 THEN {Subsystem(0, {})} ELSE Up(made[k - 1], k)]
  <2>1. made = CHOOSE g : g = [k \in 0 .. n |-> IF k = 0 THEN {Subsystem(0, {})}
                                                  ELSE Up(g[k - 1], k)]
    BY DEF Subsystems
  <2> HIDE DEF made, Up, n
  <2> QED
    BY <1>7, <2>1, Zenon
<1>9. made[0] = {Subsystem(0, {})} /\ \A k \in 1 .. n : made[k] = Up(made[k - 1], k)
  <2> HIDE DEF made, Up, n
  <2>1. ASSUME NEW k \in 0 .. n
        PROVE  made[k] = IF k = 0 THEN {Subsystem(0, {})} ELSE Up(made[k - 1], k)
    BY <1>8, Zenon
  <2>2. 0 \in 0 .. n /\ \A k \in 1 .. n : k \in 0 .. n /\ k # 0
    BY <1>1
  <2> QED
    BY <2>1, <2>2
<1>10. ASSUME NEW k \in 1 .. n PROVE Up(made[k - 1], k) = Calls(made, caches, k)
  BY DEF Calls
<1> HIDE DEF Up, made
<1> QED
  BY <1>9, <1>10 DEF made

\* make_cache_level calls itself for every subsystem of a level, from the first
\* to the last, and each time with a cache of its own.
Numbered(made, caches, k) ==
  /\ \A s \in made[k] : /\ s.index \in 0 .. Multiplier(caches)[k + 1] - 1
                        /\ k # 0 => s.next_cache # {}
  /\ \A x \in 0 .. Multiplier(caches)[k + 1] - 1 : \E s \in made[k] : s.index = x

LEMMA SubsystemsNumbered ==
  ASSUME NEW caches, NEW testers, SpecOK(caches, testers)
  PROVE  \A k \in 0 .. Len(caches) : Numbered(Subsystems(caches), caches, k)
<1> DEFINE n == Len(caches)
           made == Subsystems(caches)
           times == Multiplier(caches)
           T == {k \in 0 .. n : ~Numbered(made, caches, k)}
<1>1. /\ n \in Nat /\ \A k \in 1 .. n : caches[k] \in Nat \ {0}
      /\ times[1] = 1
      /\ \A k \in 1 .. n : times[k + 1] = times[k] * caches[k]
      /\ \A k \in 1 .. n + 1 : times[k] \in Nat \ {0}
  BY Multipliers DEF SpecOK
<1>2. made[0] = {Subsystem(0, {})} /\ \A k \in 1 .. n : made[k] = Calls(made, caches, k)
  BY SubsystemsMade
<1> HIDE DEF n, made, times
<1>3. Numbered(made, caches, 0)
  <2>1. times[0 + 1] = 1
    BY <1>1
  <2>2. 0 .. times[0 + 1] - 1 = {0}
    BY <2>1
  <2> QED
    BY <1>2, <2>2 DEF Numbered, Subsystem, times
<1>4. ASSUME NEW k \in 1 .. n, Numbered(made, caches, k - 1)
      PROVE  Numbered(made, caches, k)
  <2> DEFINE c == caches[k]
             m == times[k]
             p == times[k + 1]
  <2>1. c \in Nat \ {0} /\ m \in Nat \ {0} /\ p = m * c /\ p \in Nat /\ (k - 1) + 1 = k /\ k # 0
    BY <1>1
  <2>2. /\ \A s \in made[k - 1] : s.index \in 0 .. m - 1
        /\ \A x \in 0 .. m - 1 : \E s \in made[k - 1] : s.index = x
    BY <1>4, <2>1 DEF Numbered, times
  <2>3. made[k] = {Above(caches, k, s, j) : s \in made[k - 1], j \in 1 .. c}
    BY <1>2 DEF Calls
  <2> HIDE DEF c, m, p
  <2>4. ASSUME NEW s \in made[k - 1], NEW j \in 1 .. c
        PROVE  /\ Above(caches, k, s, j).index = s.index * c + j - 1
               /\ Above(caches, k, s, j).next_cache # {}
    BY DEF Above, Subsystem, c
  <2>5. ASSUME NEW t \in made[k] PROVE t.index \in 0 .. p - 1 /\ t.next_cache # {}
    <3>1. PICK s \in made[k - 1], j \in 1 .. c : t = Above(caches, k, s, j)
      BY <2>3
    <3>2. s.index \in 0 .. m - 1 /\ s.index \in Nat /\ j \in 1 .. c
      BY <2>1, <2>2
    <3> DEFINE q == s.index * c
    <3>3. q \in Nat
      BY <2>1, <3>2, SMT
    <3>4. q + c <= m * c
      BY <2>1, <3>2, Product
    <3>5. t.index = q + j - 1 /\ t.next_cache # {}
      BY <2>4, <3>1
    <3> HIDE DEF q
    <3> QED
      BY <2>1, <3>2, <3>3, <3>4, <3>5
  <2>6. ASSUME NEW x \in 0 .. p - 1 PROVE \E t \in made[k] : t.index = x
    <3> DEFINE q == x \div c
               j == x % c
    <3>1. x \in Nat /\ x < m * c
      BY <2>1
    <3>2. q \in Nat /\ j \in 0 .. c - 1 /\ x = j + q * c
      BY <2>1, <3>1, Division
    <3> HIDE DEF q, j
    <3>3. q < m
      <4> SUFFICES ASSUME m <= q PROVE FALSE
        BY <2>1, <3>2
      <4> DEFINE mc == m * c
                 qc == q * c
      <4>1. mc \in Nat /\ qc \in Nat
        BY <2>1, <3>2, SMT
      <4>2. mc <= qc
        <5>1. CASE m = q
          BY <4>1, <5>1
        <5>2. CASE m < q
          <6>1. mc + c <= qc
            BY <2>1, <3>2, <5>2, Product
          <6> HIDE DEF mc, qc
          <6> QED
            BY <2>1, <4>1, <6>1
        <5> QED
          BY <2>1, <3>2, <5>1, <5>2
      <4>3. x < mc /\ x = j + qc
        BY <3>1, <3>2
      <4> HIDE DEF mc, qc
      <4> QED
        BY <3>2, <4>1, <4>2, <4>3
    <3>4. PICK s \in made[k - 1] : s.index = q
      BY <2>1, <2>2, <3>2, <3>3
    <3>5. j + 1 \in 1 .. c
      BY <2>1, <3>2
    <3> DEFINE t == Above(caches, k, s, j + 1)
    <3>6. t \in made[k] /\ t.index = q * c + (j + 1) - 1
      BY <2>3, <2>4, <3>4, <3>5
    <3>7. q * c \in Nat
      BY <2>1, <3>2, SMT
    <3> HIDE DEF t
    <3>8. t.index = x
      BY <3>2, <3>6, <3>7
    <3> QED
      BY <3>6, <3>8
  <2> QED
    BY <2>1, <2>5, <2>6 DEF Numbered, p, times
<1>5. T = {}
  <2> SUFFICES ASSUME T # {} PROVE FALSE
    OBVIOUS
  <2>1. PICK k \in T : \A y \in T : k <= y
    <3>1. T \subseteq Nat
      BY <1>1
    <3> HIDE DEF T
    <3> QED
      BY <3>1, LeastNumber
  <2>2. k # 0
    BY <1>3, <2>1
  <2>3. k \in 1 .. n /\ k - 1 \in 0 .. n /\ ~(k - 1 \in T)
    BY <1>1, <2>1, <2>2
  <2> QED
    BY <1>4, <2>1, <2>3
<1> QED
  BY <1>5 DEF n, made

\* The testers of one call, by the nodes their ports belong to.
LEMMA TestersOfLevel ==
  ASSUME NEW o, NEW level, NEW index, NEW next_cache,
         o.testers[Len(o.caches) - level + 1] \in Nat,
         level = 0 => o.testers[Len(o.caches) - level + 1] # 0 /\ next_cache # {}
  PROVE  Testers(MakeCacheLevel(o, level, index, next_cache))
           = {At("tester", level, index, j) : j \in 1 .. o.testers[Len(o.caches) - level + 1]}
<1> DEFINE t == o.testers[Len(o.caches) - level + 1]
           ps == MakeCacheLevel(o, level, index, next_cache)
           node(j) == At("tester", level, index, j)
<1> HIDE DEF t
<1>0. t \in Nat /\ (level = 0 => t # 0 /\ next_cache # {})
  BY DEF t
<1>1. ASSUME NEW j, NEW to, NEW p \in Tester(o, level, index, j, to), p.from[1] = "tester"
      PROVE  p.from = node(j)
  BY <1>1 DEF Tester, Link, Port, At
<1>2. ASSUME NEW j, NEW to
      PROVE  \E p \in Tester(o, level, index, j, to) : p.from = node(j)
  BY DEF Tester, Link, Port
<1>3. \A j : node(j)[1] = "tester"
  BY DEF At
<1>4. \A c, to : /\ Link(SubsysXbar(level, index), to).from[1] # "tester"
                 /\ Link(At("tree_cache", level, index, c), to).from[1] # "tester"
                 /\ Link(At("tester_cache", level, index, c), to).from[1] # "tester"
  BY DEF Link, Port, SubsysXbar, At
<1>5. ASSUME NEW p \in ps, p.from[1] = "tester"
      PROVE  \E j \in 1 .. t : p.from = node(j)
  <2> DEFINE xbar == SubsysXbar(level, index)
             up == {Link(xbar, c) : c \in next_cache}
  <2>1. p \notin up
    BY <1>4, <1>5
  <2>2. CASE level = 0 /\ t > 1
    <3>1. ps = up \cup UNION {Tester(o, 0, index, n, xbar) : n \in 1 .. t}
      BY <2>2 DEF MakeCacheLevel, t
    <3>2. PICK j \in 1 .. t : p \in Tester(o, 0, index, j, xbar)
      BY <2>1, <3>1
    <3> QED
      BY <1>1, <1>5, <2>2, <3>2
  <2>3. CASE level = 0 /\ ~(t > 1)
    <3>1. ps = UNION {Tester(o, 0, index, 1, c) : c \in next_cache}
      BY <2>3 DEF MakeCacheLevel, t
    <3>2. PICK c \in next_cache : p \in Tester(o, 0, index, 1, c)
      BY <3>1
    <3>3. 1 \in 1 .. t
      BY <1>0, <2>3
    <3> QED
      BY <1>1, <1>5, <2>3, <3>2, <3>3
  <2>4. CASE level # 0
    <3> DEFINE trees == {Link(At("tree_cache", level, index, n), xbar) :
                           n \in 1 .. o.caches[Len(o.caches) - level + 1]}
               own(n) == At("tester_cache", level, index, n)
    <3>1. ps = up \cup trees
                 \cup UNION {{Link(own(n), xbar)} \cup Tester(o, level, index, n, own(n))
                               : n \in 1 .. t}
      BY <2>4 DEF MakeCacheLevel, t
    <3>2. p \notin trees
      BY <1>4, <1>5
    <3>3. PICK j \in 1 .. t : p \in {Link(own(j), xbar)} \cup Tester(o, level, index, j, own(j))
      BY <2>1, <3>1, <3>2
    <3>4. p # Link(own(j), xbar)
      BY <1>4, <1>5
    <3> QED
      BY <1>1, <1>5, <3>3, <3>4
  <2> QED
    BY <2>2, <2>3, <2>4
<1>6. ASSUME NEW j \in 1 .. t PROVE \E p \in ps : p.from = node(j)
  <2> DEFINE xbar == SubsysXbar(level, index)
             up == {Link(xbar, c) : c \in next_cache}
  <2>2. CASE level = 0 /\ t > 1
    <3>1. ps = up \cup UNION {Tester(o, 0, index, n, xbar) : n \in 1 .. t}
      BY <2>2 DEF MakeCacheLevel, t
    <3>2. Tester(o, level, index, j, xbar) \subseteq ps
      BY <2>2, <3>1
    <3> QED
      BY <1>2, <3>2
  <2>3. CASE level = 0 /\ ~(t > 1)
    <3>1. ps = UNION {Tester(o, 0, index, 1, c) : c \in next_cache}
      BY <2>3 DEF MakeCacheLevel, t
    <3>2. j = 1
      BY <1>0, <2>3
    <3>3. PICK c \in next_cache : TRUE
      BY <1>0, <2>3
    <3>4. Tester(o, level, index, j, c) \subseteq ps
      BY <2>3, <3>1, <3>2, <3>3
    <3> QED
      BY <1>2, <3>4
  <2>4. CASE level # 0
    <3> DEFINE trees == {Link(At("tree_cache", level, index, n), xbar) :
                           n \in 1 .. o.caches[Len(o.caches) - level + 1]}
               own(n) == At("tester_cache", level, index, n)
    <3>1. ps = up \cup trees
                 \cup UNION {{Link(own(n), xbar)} \cup Tester(o, level, index, n, own(n))
                               : n \in 1 .. t}
      BY <2>4 DEF MakeCacheLevel, t
    <3>2. Tester(o, level, index, j, own(j)) \subseteq ps
      BY <3>1
    <3> QED
      BY <1>2, <3>2
  <2> QED
    BY <2>2, <2>3, <2>4
<1> HIDE DEF ps
<1>7. Testers(ps) = {node(j) : j \in 1 .. t}
  BY <1>3, <1>5, <1>6 DEF Testers
<1> QED
  BY <1>7 DEF ps, t

\* The testers of the subsystems of one level.
Layer(o, k) == {At("tester", Len(o.caches) - k, x, j) :
                  x \in 0 .. Multiplier(o.caches)[k + 1] - 1, j \in 1 .. o.testers[k + 1]}

LEMMA LayerOfSubsystems ==
  ASSUME NEW o, SpecOK(o.caches, o.testers), NEW k \in 0 .. Len(o.caches)
  PROVE  /\ \A s \in Subsystems(o.caches)[k] :
              Testers(MakeCacheLevel(o, Len(o.caches) - k, s.index, s.next_cache))
                \subseteq Layer(o, k)
         /\ \A t \in Layer(o, k) : \E s \in Subsystems(o.caches)[k] :
              t \in Testers(MakeCacheLevel(o, Len(o.caches) - k, s.index, s.next_cache))
<1> DEFINE n == Len(o.caches)
           level == n - k
           made == Subsystems(o.caches)
           subs == made[k]
           m == Multiplier(o.caches)[k + 1]
<1>1. /\ n \in Nat \ {0} /\ o.testers[k + 1] \in Nat
      /\ k = n => o.testers[k + 1] # 0
  <2>1. n \in Nat \ {0} /\ \A j \in 1 .. n + 1 : o.testers[j] \in Nat
    BY DEF SpecOK
  <2>2. o.testers[n + 1] # 0
    BY DEF SpecOK
  <2> HIDE DEF n
  <2>3. k + 1 \in 1 .. n + 1
    BY <2>1 DEF n
  <2> QED
    BY <2>1, <2>2, <2>3
<1>2. n - level + 1 = k + 1 /\ (level = 0 => k = n) /\ (k = n => k # 0) /\ k \in 0 .. n
  BY <1>1
<1>3. Numbered(made, o.caches, k)
  BY SubsystemsNumbered
<1>4. /\ \A s \in subs : s.index \in 0 .. m - 1 /\ (k # 0 => s.next_cache # {})
      /\ \A x \in 0 .. m - 1 : \E s \in subs : s.index = x
  BY <1>3 DEF Numbered
<1> HIDE DEF n, level, made, m
<1>5. ASSUME NEW s \in subs
      PROVE  Testers(MakeCacheLevel(o, level, s.index, s.next_cache))
               = {At("tester", level, s.index, j) : j \in 1 .. o.testers[k + 1]}
  <2>1. o.testers[n - level + 1] \in Nat
    BY <1>1, <1>2
  <2>2. level = 0 => o.testers[n - level + 1] # 0 /\ s.next_cache # {}
    BY <1>1, <1>2, <1>4
  <2>3. Testers(MakeCacheLevel(o, level, s.index, s.next_cache))
          = {At("tester", level, s.index, j) : j \in 1 .. o.testers[n - level + 1]}
    BY <2>1, <2>2, TestersOfLevel DEF n
  <2> QED
    BY <1>2, <2>3
<1>6. Layer(o, k) = {At("tester", level, x, j) : x \in 0 .. m - 1, j \in 1 .. o.testers[k + 1]}
  BY DEF Layer, level, n, m
<1> HIDE DEF subs
<1>7. ASSUME NEW s \in subs,
             NEW t \in Testers(MakeCacheLevel(o, level, s.index, s.next_cache))
      PROVE  t \in Layer(o, k)
  <2>1. PICK j \in 1 .. o.testers[k + 1] : t = At("tester", level, s.index, j)
    BY <1>5
  <2>2. s.index \in 0 .. m - 1
    BY <1>4
  <2> QED
    BY <1>6, <2>1, <2>2
<1>8. ASSUME NEW t \in Layer(o, k)
      PROVE  \E s \in subs : t \in Testers(MakeCacheLevel(o, level, s.index, s.next_cache))
  <2>1. PICK x \in 0 .. m - 1, j \in 1 .. o.testers[k + 1] : t = At("tester", level, x, j)
    BY <1>6
  <2>2. PICK s \in subs : s.index = x
    BY <1>4
  <2> QED
    BY <1>5, <2>1, <2>2
<1> QED
  BY <1>7, <1>8 DEF subs, made, level, n

LEMMA TestersOfTree ==
  ASSUME NEW o, SpecOK(o.caches, o.testers)
  PROVE  Testers(TreePorts(o)) = UNION {Layer(o, k) : k \in 0 .. Len(o.caches)}
<1> DEFINE n == Len(o.caches)
           part(k, s) == MakeCacheLevel(o, n - k, s.index, s.next_cache)
           level(k) == UNION {part(k, s) : s \in Subsystems(o.caches)[k]}
           tree == UNION {level(k) : k \in 0 .. n}
           last == SubsysXbar(n, 0)
           rest == (IF o.noncoherent
                    THEN {Link(last, Node("llc")), Link(Node("llc"), Node("tree_memory"))}
                    ELSE {Link(last, Node("tree_memory"))})
                     \cup {Link(Node("system"), last)}
<1>1. \A p : p \in TreePorts(o) <=> p \in tree \/ p \in rest
  <2>1. TreePorts(o) =
          tree \cup (IF o.noncoherent
                     THEN {Link(last, Node("llc")), Link(Node("llc"), Node("tree_memory"))}
                     ELSE {Link(last, Node("tree_memory"))})
               \cup {Link(Node("system"), last)}
    BY DEF TreePorts
  <2> HIDE DEF tree, last
  <2> QED
    BY <2>1
<1>2. \A p \in rest : p.from[1] # "tester"
  BY DEF Link, Port, Node, SubsysXbar, At
<1> HIDE DEF rest, part
<1>3. \A k : \A p : p \in level(k) <=> \E s \in Subsystems(o.caches)[k] : p \in part(k, s)
  OBVIOUS
<1> HIDE DEF level
<1>4. \A p : p \in tree <=> \E k \in 0 .. n : p \in level(k)
  OBVIOUS
<1> HIDE DEF tree, n
<1>5. \A k \in 0 .. n : /\ \A s \in Subsystems(o.caches)[k] : Testers(part(k, s)) \subseteq Layer(o, k)
                        /\ \A t \in Layer(o, k) : \E s \in Subsystems(o.caches)[k] : t \in Testers(part(k, s))
  BY LayerOfSubsystems DEF part, n
<1>6. ASSUME NEW t \in Testers(TreePorts(o)) PROVE \E k \in 0 .. n : t \in Layer(o, k)
  <2>1. PICK p \in TreePorts(o) : p.from[1] = "tester" /\ t = p.from
    BY DEF Testers
  <2>2. PICK k \in 0 .. n : \E s \in Subsystems(o.caches)[k] : p \in part(k, s)
    BY <1>1, <1>2, <1>3, <1>4, <2>1
  <2>3. PICK s \in Subsystems(o.caches)[k] : p \in part(k, s)
    BY <2>2
  <2>4. t \in Testers(part(k, s))
    BY <2>1, <2>3 DEF Testers
  <2> QED
    BY <1>5, <2>4
<1>7. ASSUME NEW k \in 0 .. n, NEW t \in Layer(o, k) PROVE t \in Testers(TreePorts(o))
  <2>1. PICK s \in Subsystems(o.caches)[k] : t \in Testers(part(k, s))
    BY <1>5
  <2>2. PICK p \in part(k, s) : p.from[1] = "tester" /\ t = p.from
    BY <2>1 DEF Testers
  <2>3. p \in TreePorts(o)
    BY <1>1, <1>3, <1>4, <2>2
  <2> QED
    BY <2>2, <2>3 DEF Testers
<1>8. ASSUME NEW t PROVE t \in Testers(TreePorts(o)) <=> t \in UNION {Layer(o, k) : k \in 0 .. n}
  <2>1. t \in UNION {Layer(o, k) : k \in 0 .. n} <=> \E k \in 0 .. n : t \in Layer(o, k)
    OBVIOUS
  <2> QED
    BY <1>6, <1>7, <2>1
<1> QED
  BY <1>8, Zenon DEF n

\* A subsystem and a number tell a tester of a level from the others.
LEMMA LayerCounted ==
  ASSUME NEW o, SpecOK(o.caches, o.testers), NEW k \in 0 .. Len(o.caches)
  PROVE  /\ IsFiniteSet(Layer(o, k))
         /\ Cardinality(Layer(o, k)) = o.testers[k + 1] * Multiplier(o.caches)[k + 1]
<1> DEFINE m == Multiplier(o.caches)[k + 1]
           t == o.testers[k + 1]
           A == 0 .. m - 1
           B == 1 .. t
           S == A \X B
           f == [x \in S |-> At("tester", Len(o.caches) - k, x[1], x[2])]
<1>1. m \in Nat \ {0} /\ t \in Nat
  <2>1. k + 1 \in 1 .. Len(o.caches) + 1
    BY DEF SpecOK
  <2> QED
    BY <2>1, Multipliers DEF SpecOK
<1> HIDE DEF m, t
<1>2. IsFiniteSet(A) /\ Cardinality(A) = m /\ IsFiniteSet(B) /\ Cardinality(B) = t
  <2>1. 0 \in Int /\ m - 1 \in Int /\ 1 \in Int /\ t \in Int
    BY <1>1
  <2> QED
    BY <1>1, <2>1, FS_Interval
<1>3. IsFiniteSet(S) /\ Cardinality(S) = m * t
  <2> HIDE DEF A, B
  <2> QED
    BY <1>2, FS_Product
<1>4. f \in Bijection(S, Layer(o, k))
  <2>1. f \in [S -> Layer(o, k)]
    <3> SUFFICES ASSUME NEW x \in S
                 PROVE  At("tester", Len(o.caches) - k, x[1], x[2]) \in Layer(o, k)
      OBVIOUS
    <3>1. x[1] \in A /\ x[2] \in B
      OBVIOUS
    <3> QED
      BY <3>1 DEF Layer, m, t
  <2>2. ASSUME NEW x \in S, NEW y \in S, f[x] = f[y] PROVE x = y
    <3>1. x[1] = y[1] /\ x[2] = y[2]
      BY <2>2 DEF At
    <3> QED
      BY <3>1
  <2>3. ASSUME NEW y \in Layer(o, k) PROVE \E x \in S : f[x] = y
    <3>1. PICK a \in A, b \in B : y = At("tester", Len(o.caches) - k, a, b)
      BY DEF Layer, m, t
    <3>2. <<a, b>> \in S /\ f[<<a, b>>] = y
      BY <3>1
    <3> QED
      BY <3>2
  <2> HIDE DEF f, S
  <2> QED
    BY <2>1, <2>2, <2>3 DEF Bijection, Injection, Surjection, IsInjective
<1> HIDE DEF f, S
<1>5. IsFiniteSet(Layer(o, k)) /\ Cardinality(Layer(o, k)) = m * t
  BY <1>3, <1>4, FS_Bijection DEF ExistsBijection
<1>6. m * t = t * m
  BY <1>1, SMT
<1> QED
  BY <1>5, <1>6 DEF m, t

\* numtesters is the number of testers.
LEMMA TreeCounted ==
  ASSUME NEW o, SpecOK(o.caches, o.testers)
  PROVE  /\ IsFiniteSet(Testers(TreePorts(o)))
         /\ Cardinality(Testers(TreePorts(o))) = NumTesters(o.caches, o.testers)
<1> DEFINE n == Len(o.caches)
           upTo(k) == {t \in UNION {Layer(o, j) : j \in 0 .. n} :
                         \E j \in 0 .. k - 1 : t \in Layer(o, j)}
<1>1. n \in Nat \ {0}
  BY DEF SpecOK
<1>2. PICK total :
        /\ total[0] = 0
        /\ \A k \in 1 .. n + 1 : total[k] = total[k - 1] + o.testers[k] * Multiplier(o.caches)[k]
        /\ NumTesters(o.caches, o.testers) = total[n + 1]
  BY Totals
<1>3. \A t : \A j \in 0 .. n : t \in Layer(o, j) => t \in UNION {Layer(o, l) : l \in 0 .. n}
  BY Zenon
<1>4. \A t : t \in UNION {Layer(o, l) : l \in 0 .. n} => \E j \in 0 .. n : t \in Layer(o, j)
  BY Zenon
<1> DEFINE all == UNION {Layer(o, j) : j \in 0 .. n}
           Good(k) == IsFiniteSet(upTo(k)) /\ Cardinality(upTo(k)) = total[k]
           T == {k \in 0 .. n + 1 : ~Good(k)}
<1> HIDE DEF n
<1>5. Good(0)
  <2>1. upTo(0) = {}
    OBVIOUS
  <2> QED
    BY <1>2, <2>1, FS_EmptySet
<1>6. ASSUME NEW k \in 0 .. n, Good(k) PROVE Good(k + 1)
  <2>1. upTo(k + 1) = upTo(k) \cup Layer(o, k)
    <3>1. \A j \in 0 .. (k + 1) - 1 : j \in 0 .. k - 1 \/ j = k
      BY <1>1
    <3>2. \A j : j \in 0 .. k - 1 => j \in 0 .. (k + 1) - 1
      BY <1>1
    <3>3. k \in 0 .. (k + 1) - 1
      BY <1>1
    <3> QED
      BY <1>3, <3>1, <3>2, <3>3
  <2>2. upTo(k) \cap Layer(o, k) = {}
    <3> SUFFICES ASSUME NEW j \in 0 .. k - 1, NEW t, t \in Layer(o, j), t \in Layer(o, k)
                 PROVE  FALSE
      OBVIOUS
    <3>1. t[2][1] = n - j
      BY DEF Layer, At, n
    <3>2. t[2][1] = n - k
      BY DEF Layer, At, n
    <3> QED
      BY <1>1, <3>1, <3>2
  <2>3. /\ IsFiniteSet(Layer(o, k))
        /\ Cardinality(Layer(o, k)) = o.testers[k + 1] * Multiplier(o.caches)[k + 1]
    BY LayerCounted DEF n
  <2>4. total[k + 1] = total[k] + o.testers[k + 1] * Multiplier(o.caches)[k + 1]
    <3>1. k + 1 \in 1 .. n + 1 /\ (k + 1) - 1 = k
      BY <1>1
    <3> QED
      BY <1>2, <3>1
  <2> DEFINE U == upTo(k)
             L == Layer(o, k)
             q == o.testers[k + 1] * Multiplier(o.caches)[k + 1]
  <2>5. IsFiniteSet(U) /\ Cardinality(U) = total[k]
    BY <1>6
  <2> HIDE DEF U, L, q
  <2>6. /\ IsFiniteSet(U \cup L)
        /\ Cardinality(U \cup L) = Cardinality(U) + Cardinality(L) - Cardinality(U \cap L)
    BY <2>3, <2>5, FS_Union DEF L
  <2>7. Cardinality(U \cap L) = 0
    BY <2>2, FS_EmptySet DEF U, L
  <2>8. Cardinality(U) \in Nat /\ Cardinality(L) \in Nat /\ Cardinality(L) = q
    BY <2>3, <2>5, FS_CardinalityType DEF L, q
  <2>9. Cardinality(U \cup L) = total[k + 1]
    BY <2>4, <2>5, <2>6, <2>7, <2>8 DEF q
  <2>10. upTo(k + 1) = U \cup L
    BY <2>1 DEF U, L
  <2> HIDE DEF upTo
  <2> QED
    BY <2>6, <2>9, <2>10
<1> HIDE DEF Good
<1>7. T = {}
  <2> SUFFICES ASSUME T # {} PROVE FALSE
    OBVIOUS
  <2>1. PICK k \in T : \A y \in T : k <= y
    <3>1. T \subseteq Nat
      BY <1>1
    <3> HIDE DEF T
    <3> QED
      BY <3>1, LeastNumber
  <2>2. k # 0
    BY <1>5, <2>1
  <2>3. k - 1 \in 0 .. n /\ k - 1 \in 0 .. n + 1 /\ (k - 1) + 1 = k /\ ~(k - 1 \in T)
    BY <1>1, <2>1, <2>2
  <2>4. Good(k)
    BY <1>6, <2>3
  <2> QED
    BY <2>1, <2>4
<1>8. Good(n + 1)
  BY <1>1, <1>7
<1>9. upTo(n + 1) = all
  <2>1. (n + 1) - 1 = n
    BY <1>1
  <2> QED
    BY <1>4, <2>1
<1>10. Testers(TreePorts(o)) = all
  BY TestersOfTree DEF n
<1> QED
  BY <1>2, <1>8, <1>9, <1>10 DEF Good

-----------------------------------------------------------------------------
(* The map of an x86 guest.                                                *)

X86Guest == sys.script = "fs" /\ sys.isa = "x86"
ToBridge == Port(Membus, Node("bridge"), PassThrough)

\* Only trees are drawn anew, and memory is what the command line says; once the
\* system is built, one port of the memory bus leads to the devices.
SystemOK ==
  /\ InTree(sys.script) => sys \in TreeTypes /\ stage \in {"script", "run", "refused"}
  /\ (InTree(sys.script) /\ stage = "run") =>
       /\ ports = TreePorts(sys)
       /\ ~SpecRefused(sys.caches, sys.testers)
       /\ ~TooManyTesters(sys.script, sys)
  /\ X86Guest => sys.mem \in Nat /\ opts.ranges = MemRangesX86(sys.mem)
  /\ (X86Guest /\ stage \in {"memory", "run"}) =>
       /\ ~TooSmallForLinux(sys.mem)
       /\ ToBridge \in ports
       /\ \A p \in ports : p.to = Node("bridge") => p = ToBridge

\* config_cache and the devices lead to caches, busses and interrupt controllers,
\* not to the bridge.
LEMMA OneBridge ==
  ASSUME NEW o, o.isa = "x86"
  PROVE  /\ ToBridge \in FullSystemPorts(o)
         /\ \A p \in FullSystemPorts(o) : p.to = Node("bridge") => p = ToBridge
<1> DEFINE b == Node("bridge")
<1>1. MakeSystem(o) = ConnectX86Classic(o.ncpus)
  BY DEF MakeSystem
<1>2. ToBridge \in ConnectX86Classic(o.ncpus)
  BY DEF ConnectX86Classic, IOBridge, ToBridge
<1>3. \A p \in ConnectX86Classic(o.ncpus) : p.to = b => p = ToBridge
  BY DEF ConnectX86Classic, IOBridge, ToBridge, Port, Link, Default, BadAddr, Node, Membus, Iobus
<1>4. \A p \in DeviceMemory(o, MemRangesOf(o.isa, o.mem)) : p.to # b
  BY DEF DeviceMemory, Port, Link, Node, Membus, Iobus
<1>5. ASSUME NEW p \in ConfigCache(o) PROVE p.to # b
  <2>1. CASE p \in {Link(Node("tol2bus"), Node("l2")), Link(Node("l2"), Membus)}
    BY <2>1 DEF Link, Port, Node, Membus
  <2>2. ASSUME NEW port \in CpuPorts(o.isa), NEW n \in 0 .. o.ncpus - 1,
               p \in CpuToBus(o, port, n)
        PROVE  p.to # b
    <3>1. OwnCache(port, n) # b
      BY DEF OwnCache, CpuPorts, HasWalkers, Node
    <3>2. Bus(o) # b
      BY DEF Bus, Node, Membus
    <3>3. <<"external_cache", n>> # b /\ <<"dcache_mon", n>> # b
      BY DEF Node
    <3>4. p.to \in {<<"external_cache", n>>, Bus(o), <<"dcache_mon", n>>, OwnCache(port, n)}
      BY <2>2 DEF CpuToBus, Link, Port
    <3> QED
      BY <3>1, <3>2, <3>3, <3>4
  <2>3. ASSUME NEW n \in 0 .. o.ncpus - 1, p \in Interrupts(o, n)
        PROVE  p.to # b
    BY <2>3 DEF Interrupts, Link, Port, Node, Membus
  <2> DEFINE l2   == {Link(Node("tol2bus"), Node("l2")), Link(Node("l2"), Membus)}
             cpus == UNION {CpuToBus(o, port, n) :
                              port \in CpuPorts(o.isa), n \in 0 .. o.ncpus - 1}
             ints == UNION {Interrupts(o, n) : n \in 0 .. o.ncpus - 1}
  <2>4. ConfigCache(o) = (IF o.l2cache THEN l2 ELSE {}) \cup cpus \cup ints
    BY DEF ConfigCache
  <2>5. p \in cpus => \E port \in CpuPorts(o.isa), n \in 0 .. o.ncpus - 1 :
                         p \in CpuToBus(o, port, n)
    OBVIOUS
  <2>6. p \in ints => \E n \in 0 .. o.ncpus - 1 : p \in Interrupts(o, n)
    OBVIOUS
  <2>7. p \in l2 => p.to # b
    BY <2>1
  <2> HIDE DEF b, l2, cpus, ints
  <2> QED
    BY <2>2, <2>3, <2>4, <2>5, <2>6, <2>7
<1> QED
  BY <1>1, <1>2, <1>3, <1>4, <1>5 DEF FullSystemPorts

LEMMA SystemBuilt == SystemSpec => []SystemOK
<1>1. SystemInit => SystemOK
  <2> SUFFICES ASSUME SystemInit PROVE SystemOK
    OBVIOUS
  <2>1. InTree(sys.script) => sys \in TreeTypes /\ stage = "script"
    BY SystemAssumption DEF SystemInit, InTree
  <2>2. ASSUME X86Guest PROVE sys.mem \in Nat /\ opts.ranges = MemRangesX86(sys.mem)
    <3>1. sys.mem \in Nat
      BY <2>2, SystemAssumption DEF SystemInit, X86Guest
    <3>2. MemRanges(sys) = MemRangesX86(sys.mem)
      BY <2>2 DEF X86Guest, MemRanges, MemRangesOf
    <3>3. opts = [sys.memory EXCEPT !.ranges = MemRanges(sys)] /\ opts \in OptionTypes
      BY SystemAssumption, MemAssumption DEF SystemInit, MemoryOptions
    <3>4. "ranges" \in DOMAIN opts
      BY <3>3 DEF OptionTypes
    <3>5. opts.ranges = MemRanges(sys)
      BY <3>3, <3>4
    <3> QED
      BY <3>1, <3>2, <3>5
  <2>3. stage \notin {"run"} /\ (X86Guest => stage = "script")
    BY DEF SystemInit, X86Guest
  <2> QED
    BY <2>1, <2>2, <2>3 DEF SystemOK
<1>2. SystemOK /\ [SystemNext]_allvars => SystemOK'
  <2> SUFFICES ASSUME SystemOK, [SystemNext]_allvars PROVE SystemOK'
    OBVIOUS
  <2>1. CASE DrawTree
    <3>1. sys \in TreeTypes /\ InTree(sys.script)
      BY <2>1 DEF DrawTree, SystemOK
    <3>2. PICK tree \in RandomTrees :
            sys' = [sys EXCEPT !.random = FALSE, !.caches = tree.caches,
                               !.testers = tree.testers]
      BY <2>1 DEF DrawTree
    <3>3. tree.caches \in Seq(Int) /\ tree.testers \in Seq(Int)
      BY SystemAssumption
    <3>4. sys' \in TreeTypes
      BY <3>1, <3>2, <3>3 DEF TreeTypes
    <3>5. sys'.script \in {"memtest", "memcheck"}
      BY <3>4 DEF TreeTypes
    <3>6. stage' = "script"
      BY <2>1 DEF DrawTree
    <3> QED
      BY <3>4, <3>5, <3>6 DEF SystemOK, X86Guest
  <2>2. CASE BuildSystem
    <3>1. UNCHANGED <<sys, opts>>
      BY <2>2 DEF BuildSystem, memvars
    <3>2. ASSUME X86Guest, stage' \in {"memory", "run"}
          PROVE  /\ ~TooSmallForLinux(sys.mem)
                 /\ ToBridge \in ports'
                 /\ \A p \in ports' : p.to = Node("bridge") => p = ToBridge
      <4>1. ~Refuses /\ ports' = Built \cup
              IF External
              THEN {Port(Membus, Node("external_memory"), Spans(opts.ranges))}
              ELSE {}
        BY <2>2, <3>2 DEF BuildSystem
      <4>2. MachineRefused(sys) => Refuses
        BY <3>2 DEF Refuses, X86Guest, InTree
      <4>3. ~TooSmallForLinux(sys.mem)
        BY <3>2, <4>1, <4>2 DEF MachineRefused, X86Guest
      <4>4. Built = FullSystemPorts(sys)
        BY <3>2 DEF Built, X86Guest, InTree
      <4>5. \A s : Port(Membus, Node("external_memory"), s).to # Node("bridge")
        BY DEF Port, Node
      <4> QED
        BY <3>2, <4>1, <4>3, <4>4, <4>5, OneBridge DEF X86Guest
    <3>3. ASSUME InTree(sys.script)
          PROVE  /\ stage' \in {"script", "run", "refused"}
                 /\ stage' = "run" => /\ ports' = TreePorts(sys)
                                     /\ ~SpecRefused(sys.caches, sys.testers)
                                     /\ ~TooManyTesters(sys.script, sys)
      <4>1. ~CallsConfigMem /\ ~External
        BY <3>3 DEF CallsConfigMem, External, InTree
      <4>2. Refuses <=> SpecRefused(sys.caches, sys.testers) \/ TooManyTesters(sys.script, sys)
        BY <3>3 DEF Refuses, InTree
      <4>3. Built = TreePorts(sys)
        BY <3>3 DEF Built, InTree
      <4> QED
        BY <2>2, <4>1, <4>2, <4>3 DEF BuildSystem
    <3>4. InTree(sys.script) => sys \in TreeTypes
      BY DEF SystemOK
    <3> QED
      BY <3>1, <3>2, <3>3, <3>4 DEF SystemOK, X86Guest
  <2>3. CASE ConfigMem
    <3>1. UNCHANGED <<sys, stage, ports>>
      BY <2>3 DEF ConfigMem
    <3>2. opts' = opts
      BY <2>3 DEF ConfigMem, Next, Check, CreateDRAM, CreateNVM, HookUp, Share, Connect,
                  CreateDirectoryRange, CreateHomeRange, Fail
    <3> QED
      BY <3>1, <3>2 DEF SystemOK, X86Guest
  <2>4. CASE MemoryConfigured
    <3>1. UNCHANGED <<sys, opts>> /\ stage = "memory"
      BY <2>4 DEF MemoryConfigured
    <3>2. ports \subseteq ports'
          /\ \A p \in ports' \ ports : \E n, k : p = Port(n, <<"ctrl", k>>, {})
      BY <2>4 DEF MemoryConfigured
    <3>3. \A p \in ports' \ ports : p.to # Node("bridge")
      BY <3>2 DEF Port, Node
    <3> QED
      BY <3>1, <3>2, <3>3 DEF SystemOK, X86Guest
  <2>5. CASE Send \/ Forward \/ UNCHANGED allvars
    <3>1. UNCHANGED <<sys, opts, stage, ports>>
      BY <2>5 DEF Send, Forward, allvars, memvars
    <3> QED
      BY <3>1 DEF SystemOK, X86Guest
  <2> QED
    BY <2>1, <2>2, <2>3, <2>4, <2>5 DEF SystemNext
<1> QED
  BY <1>1, <1>2, PTL DEF SystemSpec

Has(e, a) == e.addr <= a /\ a < e.end

\* The table, address by address.
LEMMA GuestTable ==
  ASSUME NEW mem \in Nat, ~TooSmallForLinux(mem), NEW a \in Nat
  PROVE  /\ (\E e \in E820Table(mem) : e.type = 1 /\ Has(e, a))
              <=> (AnswersIn(Spans(MemRangesX86(mem)), a) /\ a \notin KB639 .. MB1 - 1)
         /\ \A d, e \in E820Table(mem) : Has(d, a) /\ Has(e, a) => d = e
         /\ a < GB4 => ((\E e \in E820Table(mem) : Has(e, a)) <=> ~AnswersIn(PassThrough, a))
<1>1. mem >= 4
  BY DEF TooSmallForLinux, MB1
<1>2. CASE mem <= GB3
  <2> DEFINE table == {E820(0, KB639, 1), E820(KB639, MB1, 2), E820(MB1, mem, 1),
                       E820(M5OpsBase, GB4, 2), E820(mem, GB3, 2)}
  <2>1. MemRangesX86(mem) = <<[start |-> 0, size |-> mem]>>
    BY <1>2 DEF MemRangesX86
  <2>2. E820Table(mem) = table
    BY <2>1 DEF E820Table
  <2>3. AnswersIn(Spans(MemRangesX86(mem)), a) <=> a < mem
    <3>1. Spans(MemRangesX86(mem)) = {<<0, mem>>}
      BY <2>1 DEF Spans
    <3> QED
      BY <3>1 DEF AnswersIn
  <2>4. AnswersIn(PassThrough, a) <=> \/ 48 <= a /\ a < 63
                                      \/ 128 <= a /\ a < 159
                                      \/ 192 <= a /\ a < 255
    BY DEF AnswersIn, PassThrough, GB3, M5OpsBase, IOBase, InterruptsBase, PciConfigBase, AddrMax
  <2>5. (\E e \in table : e.type = 1 /\ Has(e, a)) <=> (a < mem /\ a \notin 1 .. 1)
    BY <1>1, <1>2 DEF Has, E820, KB639, MB1, M5OpsBase, GB3, GB4
  <2>6. \A d, e \in table : Has(d, a) /\ Has(e, a) => d = e
    BY <1>1, <1>2 DEF Has, E820, KB639, MB1, M5OpsBase, GB3, GB4
  <2>7. (\E e \in table : Has(e, a)) <=> a < 48 \/ a = 63
    BY <1>1, <1>2 DEF Has, E820, KB639, MB1, M5OpsBase, GB3, GB4
  <2> HIDE DEF table
  <2>8. a < GB4 => ((\E e \in table : Has(e, a)) <=> ~AnswersIn(PassThrough, a))
    BY <2>4, <2>7 DEF GB4
  <2> QED
    BY <2>2, <2>3, <2>5, <2>6, <2>8 DEF KB639, MB1
<1>3. CASE mem > GB3
  <2> DEFINE n == mem - GB3
             table == {E820(0, KB639, 1), E820(KB639, MB1, 2), E820(MB1, GB3, 1),
                       E820(M5OpsBase, GB4, 2), E820(GB4, GB4 + n, 1)}
  <2>0. n \in Nat \ {0}
    BY <1>3 DEF GB3
  <2>1. MemRangesX86(mem) = <<[start |-> 0, size |-> GB3], [start |-> GB4, size |-> n]>>
    BY <1>3 DEF MemRangesX86, GB3
  <2> HIDE DEF n
  <2>2. E820Table(mem) = table
    BY <2>1 DEF E820Table
  <2>3. AnswersIn(Spans(MemRangesX86(mem)), a) <=> a < 48 \/ (64 <= a /\ a < 64 + n)
    <3>1. Spans(MemRangesX86(mem)) = {<<0, 48>>, <<64, 64 + n>>}
      BY <2>0, <2>1 DEF Spans, GB3, GB4
    <3> QED
      BY <2>0, <3>1 DEF AnswersIn
  <2>4. AnswersIn(PassThrough, a) <=> \/ 48 <= a /\ a < 63
                                      \/ 128 <= a /\ a < 159
                                      \/ 192 <= a /\ a < 255
    BY DEF AnswersIn, PassThrough, GB3, M5OpsBase, IOBase, InterruptsBase, PciConfigBase, AddrMax
  <2>5. (\E e \in table : e.type = 1 /\ Has(e, a))
          <=> (a < 48 \/ (64 <= a /\ a < 64 + n)) /\ a \notin 1 .. 1
    BY <2>0 DEF Has, E820, KB639, MB1, M5OpsBase, GB3, GB4
  <2>6. \A d, e \in table : Has(d, a) /\ Has(e, a) => d = e
    BY <2>0 DEF Has, E820, KB639, MB1, M5OpsBase, GB3, GB4
  <2>7. (\E e \in table : Has(e, a)) <=> a < 48 \/ (63 <= a /\ a < 64 + n)
    BY <2>0 DEF Has, E820, KB639, MB1, M5OpsBase, GB3, GB4
  <2> HIDE DEF table
  <2>8. a < GB4 => ((\E e \in table : Has(e, a)) <=> ~AnswersIn(PassThrough, a))
    BY <2>0, <2>4, <2>7 DEF GB4
  <2> QED
    BY <2>2, <2>3, <2>5, <2>6, <2>8 DEF KB639, MB1
<1> QED
  BY <1>2, <1>3 DEF GB3

\* What makeLinuxX86System tells the guest is usable is memory, for every size of
\* memory: its table has no two entries for an address, and below 4 GB it leaves
\* out the addresses the bridge of connectX86ClassicSystem takes, and no others.
THEOREM GuestMap == SystemSpec => []GuestMapIsMemory
<1>1. SystemOK => GuestMapIsMemory
  <2> SUFFICES ASSUME SystemOK, stage = "run", X86Guest PROVE GuestMapIsMemory
    BY DEF GuestMapIsMemory, X86Guest
  <2> DEFINE table == E820Table(sys.mem)
             memory == {a \in 0 .. AddrMax : AnswersIn(Spans(opts.ranges), a)}
  <2>1. /\ sys.mem \in Nat /\ ~TooSmallForLinux(sys.mem)
        /\ opts.ranges = MemRangesX86(sys.mem)
        /\ ToBridge \in ports
        /\ \A p \in ports : p.to = Node("bridge") => p = ToBridge
    BY DEF SystemOK
  <2>2. {a \in 0 .. AddrMax : \E e \in table : e.type = 1 /\ Has(e, a)}
          = memory \ (KB639 .. MB1 - 1)
    <3>1. \A a \in 0 .. AddrMax :
            (\E e \in table : e.type = 1 /\ Has(e, a))
              <=> (AnswersIn(Spans(opts.ranges), a) /\ a \notin KB639 .. MB1 - 1)
      BY <2>1, GuestTable DEF AddrMax
    <3> HIDE DEF table
    <3> QED
      BY <3>1
  <2>3. ASSUME NEW a \in 0 .. AddrMax PROVE Cardinality({e \in table : Has(e, a)}) <= 1
    <3> DEFINE S == {e \in table : Has(e, a)}
    <3>1. \A d, e \in S : d = e
      BY <2>1, GuestTable DEF AddrMax
    <3>2. CASE S = {}
      BY <3>2, FS_EmptySet
    <3>3. CASE S # {}
      <4>1. PICK e \in S : TRUE
        BY <3>3
      <4> HIDE DEF S
      <4>2. S = {e}
        BY <3>1, <4>1
      <4>3. Cardinality(S) = 1
        BY <4>2, FS_Singleton
      <4> QED
        BY <4>3 DEF S
    <3> QED
      BY <3>2, <3>3
  <2>4. ASSUME NEW a \in 0 .. GB4 - 1
        PROVE  (\E e \in table : Has(e, a))
                 <=> ~(\E p \in From(Membus) : p.to = Node("bridge") /\ Answers(p, a))
    <3>1. (\E e \in table : Has(e, a)) <=> ~AnswersIn(PassThrough, a)
      BY <2>1, GuestTable DEF GB4
    <3>2. Answers(ToBridge, a) <=> AnswersIn(PassThrough, a)
      BY DEF Answers, ToBridge, Port, Node
    <3>3. ToBridge \in From(Membus) /\ ToBridge.to = Node("bridge")
      BY <2>1 DEF From, ToBridge, Port
    <3>4. \A p \in From(Membus) : p.to = Node("bridge") => p = ToBridge
      BY <2>1 DEF From
    <3> HIDE DEF table
    <3> QED
      BY <3>1, <3>2, <3>3, <3>4
  <2> HIDE DEF table, memory
  <2>5. GuestMapIsMemory
    BY <2>2, <2>3, <2>4 DEF GuestMapIsMemory, table, memory, Has
  <2> QED
    BY <2>5
<1> QED
  BY <1>1, SystemBuilt, PTL

\* numtesters of memtest.py and memcheck.py is the number of testers that
\* make_cache_level creates, for trees of every depth and fan-out; and memtest
\* starts with no more testers than a block has bytes.
THEOREM NumTestersRight == SystemSpec => []TestersCounted
<1>1. SystemOK => TestersCounted
  <2> SUFFICES ASSUME SystemOK, stage = "run", InTree(sys.script) PROVE TestersCounted
    BY DEF TestersCounted
  <2>1. /\ sys \in TreeTypes /\ ports = TreePorts(sys)
        /\ ~SpecRefused(sys.caches, sys.testers)
        /\ ~TooManyTesters(sys.script, sys)
    BY DEF SystemOK
  <2>2. sys.caches \in Seq(Int) /\ sys.testers \in Seq(Int)
    BY <2>1 DEF TreeTypes
  <2>3. SpecOK(sys.caches, sys.testers)
    BY <2>1, <2>2, Accepted
  <2>4. /\ IsFiniteSet(Testers(ports))
        /\ Cardinality(Testers(ports)) = NumTesters(sys.caches, sys.testers)
    BY <2>1, <2>3, TreeCounted
  <2>5. Cardinality(Testers(ports)) \in Nat /\ BlockSize \in Nat
    BY <2>4, FS_CardinalityType, SystemAssumption
  <2>6. sys.script = "memtest" => ~(NumTesters(sys.caches, sys.testers) > BlockSize)
    BY <2>1 DEF TooManyTesters
  <2> QED
    BY <2>4, <2>5, <2>6 DEF TestersCounted
<1> QED
  BY <1>1, SystemBuilt, PTL
=============================================================================
