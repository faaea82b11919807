----------------------------- MODULE RubyProofs -----------------------------
(***************************************************************************)
(* The Ruby systems that the scripts build, for all commands: any number   *)
(* of CPUs, of caches and of directories, and any mesh.                    *)
(***************************************************************************)
EXTENDS RubySystem, TLAPS, FiniteSetTheorems, FunctionTheorems, SequenceTheorems

-----------------------------------------------------------------------------
(* Numbers.                                                                *)

\* A set of numbers that is not empty has a least one.
LEMMA LeastNumber ==
  ASSUME NEW T, T \subseteq Nat, T # {}
  PROVE  \E x \in T : \A y \in T : x <= y
<1> DEFINE R == OpToRel(<, Nat)
<1>1. IsWellFoundedOn(R, Nat)
  BY NatLessThanWellFounded
<1>2. \A x, y \in Nat : y < x => <<y, x>> \in R
  BY DEF OpToRel
<1> HIDE DEF R
<1>3. PICK x \in T : \A y \in T : ~ (<<y, x>> \in R)
  BY <1>1, WFMin
<1>4. ASSUME NEW y \in T PROVE x <= y
  <2>1. x \in Nat /\ y \in Nat
    OBVIOUS
  <2>2. ~(y < x)
    BY <1>2, <1>3, <2>1
  <2> QED
    BY <2>1, <2>2
<1> QED
  BY <1>4

LEMMA Product ==
  ASSUME NEW a \in Nat, NEW b \in Nat, NEW q \in Nat, a < b, q > 0
  PROVE  a * q + q <= b * q
<1>1. (b - a - 1) * q >= 0
  BY SMT
<1>2. (b - a - 1) * q = b * q - a * q - q
  BY SMT
<1> QED
  BY <1>1, <1>2, SMT

\* A quotient and a remainder are the only ones.
LEMMA Division ==
  ASSUME NEW n \in Nat \ {0}, NEW a \in Nat
  PROVE  /\ a \div n \in Nat /\ a % n \in 0 .. n - 1
         /\ a = (a % n) + (a \div n) * n
BY SMT

LEMMA DivisionUnique ==
  ASSUME NEW n \in Nat \ {0}, NEW c \in 0 .. n - 1, NEW r \in Nat
  PROVE  (c + r * n) % n = c /\ (c + r * n) \div n = r
<1> DEFINE a == c + r * n
<1>1. a \in Nat
  BY SMT
<1> DEFINE q == a \div n
           m == a % n
<1>2. q \in Nat /\ m \in 0 .. n - 1 /\ c + r * n = m + q * n
  BY <1>1, Division
<1> HIDE DEF a, q, m
<1>3. ~(q < r)
  <2> SUFFICES ASSUME q < r PROVE FALSE
    OBVIOUS
  <2>1. q * n + n <= r * n
    BY <1>2, Product
  <2>2. q * n \in Int /\ r * n \in Int
    BY <1>2
  <2> QED
    BY <1>2, <2>1, <2>2
<1>4. ~(r < q)
  <2> SUFFICES ASSUME r < q PROVE FALSE
    OBVIOUS
  <2>1. r * n + n <= q * n
    BY <1>2, Product
  <2>2. q * n \in Int /\ r * n \in Int
    BY <1>2
  <2> QED
    BY <1>2, <2>1, <2>2
<1>5. q = r
  BY <1>2, <1>3, <1>4
<1>6. m = c
  BY <1>2, <1>5
<1> QED
  BY <1>5, <1>6 DEF a, q, m

\* The cells of m rows of n are numbered from 0 to m * n - 1.
LEMMA Cells ==
  ASSUME NEW n \in Nat \ {0}, NEW m \in Nat
  PROVE  /\ \A c \in 0 .. n - 1, r \in 0 .. m - 1 : c + r * n \in 0 .. m * n - 1
         /\ \A a \in 0 .. m * n - 1 : a \div n \in 0 .. m - 1
<1>1. m * n \in Nat
  BY SMT
<1>2. ASSUME NEW c \in 0 .. n - 1, NEW r \in 0 .. m - 1
      PROVE  c + r * n \in 0 .. m * n - 1
  <2>1. r * n + n <= m * n /\ r * n \in Nat
    BY Product, SMT
  <2> QED
    BY <1>1, <2>1
<1>3. ASSUME NEW a \in 0 .. m * n - 1, a \div n >= m PROVE FALSE
  <2>1. a \in Nat
    BY <1>1
  <2> DEFINE q == a \div n
  <2>2. q \in Nat /\ a % n \in 0 .. n - 1 /\ a = (a % n) + q * n
    BY <2>1, Division
  <2> HIDE DEF q
  <2>3. m * n <= q * n
    <3>1. CASE q = m
      BY <3>1, <1>1
    <3>2. CASE q > m
      BY <3>2, <2>2, Product, <1>1
    <3> QED
      BY <3>1, <3>2, <1>3, <2>2 DEF q
  <2> QED
    BY <1>1, <2>2, <2>3
<1>4. \A a \in 0 .. m * n - 1 : a \div n \in Nat
  BY <1>1, Division
<1> QED
  BY <1>2, <1>3, <1>4

-----------------------------------------------------------------------------
(* Sequences.                                                              *)

Sequence(s) == s \in Seq(Range(s))

LEMMA SequenceOf ==
  ASSUME NEW n \in Nat, NEW s, DOMAIN s = 1 .. n, s = [k \in 1 .. n |-> s[k]]
  PROVE  Sequence(s) /\ Len(s) = n
<1>1. \A k \in 1 .. n : s[k] \in Range(s)
  BY DEF Range
<1>2. s \in [1 .. n -> Range(s)]
  BY <1>1
<1>3. s \in Seq(Range(s))
  BY <1>2, SeqDef
<1> QED
  BY <1>3, LenProperties, SMT DEF Sequence

LEMMA SequenceFacts ==
  ASSUME NEW s, Sequence(s)
  PROVE  /\ Len(s) \in Nat /\ DOMAIN s = 1 .. Len(s)
         /\ \A k \in 1 .. Len(s) : s[k] \in Range(s)
         /\ \A x \in Range(s) : \E k \in 1 .. Len(s) : x = s[k]
<1>1. Len(s) \in Nat /\ DOMAIN s = 1 .. Len(s)
  BY LenProperties DEF Sequence
<1> QED
  BY <1>1 DEF Range

LEMMA Concat ==
  ASSUME NEW s, NEW t, Sequence(s), Sequence(t)
  PROVE  /\ Sequence(s \o t)
         /\ Len(s \o t) = Len(s) + Len(t)
         /\ \A k \in 1 .. Len(s) : (s \o t)[k] = s[k]
         /\ \A k \in 1 .. Len(t) : (s \o t)[Len(s) + k] = t[k]
         /\ Range(s \o t) = Range(s) \cup Range(t)
<1> DEFINE S == Range(s) \cup Range(t)
<1>1. s \in Seq(S) /\ t \in Seq(S)
  BY SeqMonotonic DEF Sequence
<1> HIDE DEF S
<1>2. /\ s \o t \in Seq(S)
      /\ Len(s \o t) = Len(s) + Len(t)
      /\ \A k \in 1 .. Len(s) + Len(t) :
           (s \o t)[k] = IF k <= Len(s) THEN s[k] ELSE t[k - Len(s)]
  BY <1>1, ConcatProperties
<1>3. /\ Len(s) \in Nat /\ DOMAIN s = 1 .. Len(s)
      /\ Len(t) \in Nat /\ DOMAIN t = 1 .. Len(t)
  BY SequenceFacts
<1>4. DOMAIN (s \o t) = 1 .. Len(s) + Len(t)
  BY <1>2, LenProperties
<1>5. \A k \in 1 .. Len(s) : (s \o t)[k] = s[k]
  BY <1>2, <1>3
<1>6. \A k \in 1 .. Len(t) : (s \o t)[Len(s) + k] = t[k]
  BY <1>2, <1>3
<1>7. Range(s \o t) = Range(s) \cup Range(t)
  <2>1. ASSUME NEW k \in 1 .. Len(s) + Len(t)
        PROVE  (s \o t)[k] \in Range(s) \cup Range(t)
    <3>1. CASE k <= Len(s)
      BY <1>3, <1>5, <3>1 DEF Range
    <3>2. CASE ~(k <= Len(s))
      <4>1. k - Len(s) \in 1 .. Len(t)
        BY <1>3, <3>2
      <4> QED
        BY <1>2, <1>3, <3>2, <4>1 DEF Range
    <3> QED
      BY <3>1, <3>2
  <2>2. \A k \in 1 .. Len(s) : k \in 1 .. Len(s) + Len(t)
    BY <1>3
  <2>3. \A k \in 1 .. Len(t) : Len(s) + k \in 1 .. Len(s) + Len(t)
    BY <1>3
  <2>4. \A x \in Range(s \o t) : x \in Range(s) \cup Range(t)
    BY <1>4, <2>1 DEF Range
  <2>5. \A x \in Range(s) : x \in Range(s \o t)
    BY <1>3, <1>4, <1>5, <2>2 DEF Range
  <2>6. \A x \in Range(t) : x \in Range(s \o t)
    BY <1>3, <1>4, <1>6, <2>3 DEF Range
  <2> QED
    BY <2>4, <2>5, <2>6
<1>8. s \o t = [k \in 1 .. Len(s) + Len(t) |-> (s \o t)[k]]
  BY <1>2, <1>4, LenProperties
<1>9. Sequence(s \o t)
  BY <1>3, <1>4, <1>8, SequenceOf
<1> QED
  BY <1>2, <1>5, <1>6, <1>7, <1>9

\* Every place of a concatenation is in one of its parts.
LEMMA Places ==
  ASSUME NEW s, NEW t, Sequence(s), Sequence(t)
  PROVE  /\ DOMAIN (s \o t) = 1 .. Len(s) + Len(t)
         /\ \A k \in DOMAIN (s \o t) :
              k \in 1 .. Len(s) \/ \E i \in 1 .. Len(t) : k = Len(s) + i
         /\ \A k \in 1 .. Len(s) : k \in DOMAIN (s \o t)
         /\ \A k \in 1 .. Len(t) : Len(s) + k \in DOMAIN (s \o t)
<1>1. Len(s) \in Nat /\ Len(t) \in Nat
  BY SequenceFacts
<1>2. DOMAIN (s \o t) = 1 .. Len(s) + Len(t)
  BY Concat, SequenceFacts
<1>3. ASSUME NEW k \in 1 .. Len(s) + Len(t), k \notin 1 .. Len(s)
      PROVE  \E i \in 1 .. Len(t) : k = Len(s) + i
  <2>1. k - Len(s) \in 1 .. Len(t) /\ k = Len(s) + (k - Len(s))
    BY <1>1, <1>3
  <2> QED
    BY <2>1
<1> QED
  BY <1>1, <1>2, <1>3

-----------------------------------------------------------------------------
(* How the versions and the sequencers are counted.                        *)

\* The controllers of a type have the m versions from a on, one each.
Counts(s, t, a, m) ==
  /\ \A k \in DOMAIN s : s[k].type = t => s[k].version \in a .. a + m - 1
  /\ \A v \in a .. a + m - 1 : \E k \in DOMAIN s : s[k].type = t /\ s[k].version = v
  /\ \A j, k \in DOMAIN s :
       s[j].type = t /\ s[k].type = t /\ s[j].version = s[k].version => j = k

\* The sequencers are the q ones from a on, of one controller each.
Owns(s, a, q) ==
  /\ \A k \in DOMAIN s : \A x \in Range(s[k].seqs) : x \in a .. a + q - 1
  /\ \A x \in a .. a + q - 1 : \E k \in DOMAIN s : x \in Range(s[k].seqs)
  /\ \A j, k \in DOMAIN s : \A x \in Range(s[j].seqs) : x \in Range(s[k].seqs) => j = k

LEMMA CountsConcat ==
  ASSUME NEW s, NEW b, Sequence(s), Sequence(b), NEW t,
         NEW a \in Nat, NEW n \in Nat, NEW m \in Nat,
         Counts(s, t, a, n), Counts(b, t, a + n, m)
  PROVE  Counts(s \o b, t, a, n + m)
<1> DEFINE c == s \o b
<1>1. /\ DOMAIN s = 1 .. Len(s) /\ DOMAIN b = 1 .. Len(b)
      /\ Len(s) \in Nat /\ Len(b) \in Nat
  BY SequenceFacts
<1>2. /\ \A k \in 1 .. Len(s) : c[k] = s[k]
      /\ \A k \in 1 .. Len(b) : c[Len(s) + k] = b[k]
  BY Concat
<1>3. /\ \A k \in DOMAIN c : k \in 1 .. Len(s) \/ \E i \in 1 .. Len(b) : k = Len(s) + i
      /\ \A k \in 1 .. Len(s) : k \in DOMAIN c
      /\ \A k \in 1 .. Len(b) : Len(s) + k \in DOMAIN c
  BY Places
<1> HIDE DEF c
<1>4. /\ \A k \in 1 .. Len(s) : s[k].type = t => s[k].version \in a .. a + n - 1
      /\ \A k \in 1 .. Len(b) : b[k].type = t => b[k].version \in a + n .. a + n + m - 1
  BY <1>1 DEF Counts
<1>5. \A k \in DOMAIN c : c[k].type = t => c[k].version \in a .. a + (n + m) - 1
  <2>1. \A k \in 1 .. Len(s) : c[k].type = t => c[k].version \in a .. a + (n + m) - 1
    BY <1>2, <1>4
  <2>2. \A i \in 1 .. Len(b) :
          c[Len(s) + i].type = t => c[Len(s) + i].version \in a .. a + (n + m) - 1
    BY <1>2, <1>4
  <2> QED
    BY <1>3, <2>1, <2>2
<1>6. ASSUME NEW v \in a .. a + (n + m) - 1
      PROVE  \E k \in DOMAIN c : c[k].type = t /\ c[k].version = v
  <2>1. CASE v \in a .. a + n - 1
    <3>1. PICK k \in 1 .. Len(s) : s[k].type = t /\ s[k].version = v
      BY <1>1, <2>1 DEF Counts
    <3> QED
      BY <1>2, <1>3, <3>1
  <2>2. CASE v \in a + n .. a + n + m - 1
    <3>1. PICK k \in 1 .. Len(b) : b[k].type = t /\ b[k].version = v
      BY <1>1, <2>2 DEF Counts
    <3> QED
      BY <1>2, <1>3, <3>1
  <2> QED
    BY <2>1, <2>2
<1>7. ASSUME NEW j \in DOMAIN c, NEW k \in DOMAIN c,
             c[j].type = t, c[k].type = t, c[j].version = c[k].version
      PROVE  j = k
  <2>1. CASE j \in 1 .. Len(s) /\ k \in 1 .. Len(s)
    BY <1>1, <1>2, <1>7, <2>1 DEF Counts
  <2>2. ASSUME NEW i \in 1 .. Len(s), NEW h \in 1 .. Len(b),
               c[i].type = t, c[Len(s) + h].type = t
        PROVE  c[i].version # c[Len(s) + h].version
    <3>1. c[i].version \in a .. a + n - 1
      BY <1>2, <1>4, <2>2
    <3>2. c[Len(s) + h].version \in a + n .. a + n + m - 1
      BY <1>2, <1>4, <2>2
    <3> QED
      BY <3>1, <3>2
  <2>3. ASSUME NEW i \in 1 .. Len(b), NEW h \in 1 .. Len(b),
               j = Len(s) + i, k = Len(s) + h
        PROVE  j = k
    <3>1. /\ b[i].type = t /\ b[h].type = t /\ b[i].version = b[h].version
      BY <1>2, <1>7, <2>3
    <3> QED
      BY <1>1, <2>3, <3>1 DEF Counts
  <2> QED
    BY <1>3, <1>7, <2>1, <2>2, <2>3
<1> QED
  BY <1>5, <1>6, <1>7 DEF Counts, c

LEMMA OwnsConcat ==
  ASSUME NEW s, NEW b, Sequence(s), Sequence(b),
         NEW a \in Nat, NEW n \in Nat, NEW m \in Nat,
         Owns(s, a, n), Owns(b, a + n, m)
  PROVE  Owns(s \o b, a, n + m)
<1> DEFINE c == s \o b
<1>1. /\ DOMAIN s = 1 .. Len(s) /\ DOMAIN b = 1 .. Len(b)
      /\ Len(s) \in Nat /\ Len(b) \in Nat
  BY SequenceFacts
<1>2. /\ \A k \in 1 .. Len(s) : c[k] = s[k]
      /\ \A k \in 1 .. Len(b) : c[Len(s) + k] = b[k]
  BY Concat
<1>3. /\ \A k \in DOMAIN c : k \in 1 .. Len(s) \/ \E i \in 1 .. Len(b) : k = Len(s) + i
      /\ \A k \in 1 .. Len(s) : k \in DOMAIN c
      /\ \A k \in 1 .. Len(b) : Len(s) + k \in DOMAIN c
  BY Places
<1> HIDE DEF c
<1>4. /\ \A k \in 1 .. Len(s) : \A x \in Range(c[k].seqs) : x \in a .. a + n - 1
      /\ \A k \in 1 .. Len(b) :
           \A x \in Range(c[Len(s) + k].seqs) : x \in a + n .. a + n + m - 1
  BY <1>1, <1>2 DEF Owns
<1>5. \A k \in DOMAIN c : \A x \in Range(c[k].seqs) : x \in a .. a + (n + m) - 1
  <2>a. /\ \A x \in a .. a + n - 1 : x \in a .. a + (n + m) - 1
        /\ \A x \in a + n .. a + n + m - 1 : x \in a .. a + (n + m) - 1
    OBVIOUS
  <2>1. \A k \in 1 .. Len(s) : \A x \in Range(c[k].seqs) : x \in a .. a + (n + m) - 1
    BY Zenon, <1>4, <2>a
  <2>2. \A i \in 1 .. Len(b) :
          \A x \in Range(c[Len(s) + i].seqs) : x \in a .. a + (n + m) - 1
    BY Zenon, <1>4, <2>a
  <2> QED
    BY <1>3, <2>1, <2>2
<1>6. ASSUME NEW x \in a .. a + (n + m) - 1
      PROVE  \E k \in DOMAIN c : x \in Range(c[k].seqs)
  <2>1. CASE x \in a .. a + n - 1
    <3>1. PICK k \in 1 .. Len(s) : x \in Range(s[k].seqs)
      BY <1>1, <2>1 DEF Owns
    <3> QED
      BY <1>2, <1>3, <3>1
  <2>2. CASE x \in a + n .. a + n + m - 1
    <3>1. PICK k \in 1 .. Len(b) : x \in Range(b[k].seqs)
      BY <1>1, <2>2 DEF Owns
    <3> QED
      BY <1>2, <1>3, <3>1
  <2> QED
    BY <2>1, <2>2
<1>7. ASSUME NEW j \in DOMAIN c, NEW k \in DOMAIN c, NEW x,
             x \in Range(c[j].seqs), x \in Range(c[k].seqs)
      PROVE  j = k
  <2>1. CASE j \in 1 .. Len(s) /\ k \in 1 .. Len(s)
    BY <1>1, <1>2, <1>7, <2>1 DEF Owns
  <2>2. ASSUME NEW i \in 1 .. Len(s), NEW h \in 1 .. Len(b)
        PROVE  ~(x \in Range(c[i].seqs) /\ x \in Range(c[Len(s) + h].seqs))
    <3>1. x \in Range(c[i].seqs) => x \in a .. a + n - 1
      BY <1>4
    <3>2. x \in Range(c[Len(s) + h].seqs) => x \in a + n .. a + n + m - 1
      BY <1>4
    <3> QED
      BY <3>1, <3>2
  <2>3. ASSUME NEW i \in 1 .. Len(b), NEW h \in 1 .. Len(b),
               j = Len(s) + i, k = Len(s) + h
        PROVE  j = k
    <3>1. x \in Range(b[i].seqs) /\ x \in Range(b[h].seqs)
      BY <1>2, <1>7, <2>3
    <3> QED
      BY <1>1, <2>3, <3>1 DEF Owns
  <2> QED
    BY <1>3, <1>7, <2>1, <2>2, <2>3
<1> QED
  BY <1>5, <1>6, <1>7 DEF Owns, c

\* A set that maps one to one onto the numbers below m has m members.
LEMMA OneToOne ==
  ASSUME NEW S, NEW m \in Nat, NEW f \in [S -> 0 .. m - 1],
         \A x, y \in S : f[x] = f[y] => x = y,
         \A v \in 0 .. m - 1 : \E x \in S : f[x] = v
  PROVE  IsFiniteSet(S) /\ Cardinality(S) = m
<1>1. f \in Bijection(S, 0 .. m - 1)
  BY Fun_IsBij
<1>2. ExistsBijection(0 .. m - 1, S)
  BY <1>1, Fun_ExistsBijSymmetric DEF ExistsBijection
<1>3. IsFiniteSet(0 .. m - 1) /\ Cardinality(0 .. m - 1) = m
  BY FS_Interval
<1> QED
  BY <1>2, <1>3, FS_Bijection

LEMMA CountsCardinality ==
  ASSUME NEW s, NEW t, NEW m \in Nat, Counts(s, t, 0, m)
  PROVE  IsFiniteSet(OfType(s, t)) /\ Cardinality(OfType(s, t)) = m
<1> DEFINE f == [k \in OfType(s, t) |-> s[k].version]
<1>1. f \in [OfType(s, t) -> 0 .. m - 1]
  BY DEF Counts, OfType
<1>2. \A x, y \in OfType(s, t) : f[x] = f[y] => x = y
  BY DEF Counts, OfType
<1>3. \A v \in 0 .. m - 1 : \E x \in OfType(s, t) : f[x] = v
  BY DEF Counts, OfType
<1> QED
  BY <1>1, <1>2, <1>3, OneToOne

LEMMA OwnsCardinality ==
  ASSUME NEW s, NEW q \in Nat, Owns(s, 0, q)
  PROVE  Sequencers(s) = 0 .. q - 1 /\ Cardinality(Sequencers(s)) = q
<1>1. Sequencers(s) = 0 .. q - 1
  BY DEF Owns, Sequencers
<1> QED
  BY <1>1, FS_Interval

\* What has been made so far: the types and the sequencers are numbered.
Made(s) ==
  /\ Sequence(s)
  /\ \A t : Counts(s, t, 0, Cardinality(OfType(s, t)))
  /\ \A t : Cardinality(OfType(s, t)) \in Nat
  /\ Owns(s, 0, Cardinality(Sequencers(s)))
  /\ Cardinality(Sequencers(s)) \in Nat

LEMMA NothingMade ==
  /\ Made(<<>>)
  /\ \A t : Cardinality(OfType(<<>>, t)) = 0
  /\ Cardinality(Sequencers(<<>>)) = 0
<1>1. Sequence(<<>>) /\ Len(<<>>) = 0
  BY EmptySeq DEF Sequence
<1>2. DOMAIN <<>> = {}
  BY <1>1, SequenceFacts
<1>3. \A t : Counts(<<>>, t, 0, 0)
  BY <1>2 DEF Counts
<1>4. Owns(<<>>, 0, 0)
  BY <1>2 DEF Owns
<1>5. \A t : Cardinality(OfType(<<>>, t)) = 0
  BY <1>3, CountsCardinality
<1>6. Cardinality(Sequencers(<<>>)) = 0
  BY <1>4, OwnsCardinality
<1> QED
  BY <1>1, <1>3, <1>4, <1>5, <1>6 DEF Made

\* What is made next goes on with the numbers of its types and sequencers.
LEMMA MadeConcat ==
  ASSUME NEW s, NEW b, Made(s), Sequence(b), NEW q \in Nat,
         \A t : \E m \in Nat : Counts(b, t, Cardinality(OfType(s, t)), m),
         Owns(b, Cardinality(Sequencers(s)), q)
  PROVE  /\ Made(s \o b)
         /\ \A t : \A m \in Nat : Counts(b, t, Cardinality(OfType(s, t)), m) =>
              Cardinality(OfType(s \o b, t)) = Cardinality(OfType(s, t)) + m
         /\ Cardinality(Sequencers(s \o b)) = Cardinality(Sequencers(s)) + q
<1>1. ASSUME NEW t, NEW m \in Nat, Counts(b, t, Cardinality(OfType(s, t)), m)
      PROVE  /\ Cardinality(OfType(s \o b, t)) = Cardinality(OfType(s, t)) + m
             /\ Counts(s \o b, t, 0, Cardinality(OfType(s, t)) + m)
             /\ Cardinality(OfType(s, t)) + m \in Nat
  <2> DEFINE n == Cardinality(OfType(s, t))
  <2>1. n \in Nat /\ Counts(s, t, 0, n)
    BY DEF Made
  <2>2. Counts(b, t, 0 + n, m)
    BY <1>1, <2>1
  <2> HIDE DEF n
  <2>3. Counts(s \o b, t, 0, n + m)
    BY <2>1, <2>2, CountsConcat DEF Made
  <2>4. Cardinality(OfType(s \o b, t)) = n + m
    BY <2>1, <2>3, CountsCardinality
  <2> QED
    BY <2>1, <2>3, <2>4 DEF n
<1>2. \A t : /\ Counts(s \o b, t, 0, Cardinality(OfType(s \o b, t)))
             /\ Cardinality(OfType(s \o b, t)) \in Nat
  <2> TAKE t
  <2>1. PICK m \in Nat : Counts(b, t, Cardinality(OfType(s, t)), m)
    OBVIOUS
  <2> QED
    BY <1>1, <2>1
<1> DEFINE p == Cardinality(Sequencers(s))
<1>3. p \in Nat /\ Owns(s, 0, p) /\ Sequence(s)
  BY DEF Made
<1>4. Owns(b, 0 + p, q)
  BY <1>3
<1> HIDE DEF p
<1>5. Owns(s \o b, 0, p + q)
  BY <1>3, <1>4, OwnsConcat
<1>6. Cardinality(Sequencers(s \o b)) = p + q /\ p + q \in Nat
  BY <1>3, <1>5, OwnsCardinality
<1>7. Sequence(s \o b)
  BY <1>3, Concat
<1>8. Made(s \o b)
  BY <1>2, <1>5, <1>6, <1>7 DEF Made
<1> QED
  BY <1>1, <1>6, <1>8 DEF p

\* A block of m controllers of one type, with versions from v on and w
\* sequencers each, from q on.
Block(b, m, u, v, q, w) ==
  /\ Sequence(b) /\ Len(b) = m
  /\ \A k \in 1 .. m :
       /\ b[k].type = u /\ b[k].version = v + (k - 1)
       /\ Range(b[k].seqs) = q + (k - 1) * w .. q + (k - 1) * w + w - 1

LEMMA BlockCounts ==
  ASSUME NEW b, NEW m \in Nat, NEW u, NEW v \in Nat, NEW q, NEW w,
         Block(b, m, u, v, q, w)
  PROVE  /\ Counts(b, u, v, m)
         /\ \A t : t # u => \A a \in Nat : Counts(b, t, a, 0)
<1>1. DOMAIN b = 1 .. m
  BY SequenceFacts DEF Block
<1>2. \A k \in 1 .. m : b[k].type = u /\ b[k].version = v + (k - 1)
  BY DEF Block
<1>3. Counts(b, u, v, m)
  <2>1. \A k \in 1 .. m : b[k].version \in v .. v + m - 1
    BY <1>2
  <2>2. ASSUME NEW x \in v .. v + m - 1
        PROVE  \E k \in 1 .. m : b[k].type = u /\ b[k].version = x
    <3>1. x - v + 1 \in 1 .. m /\ b[x - v + 1].version = x
      BY <1>2
    <3> QED
      BY <1>2, <3>1
  <2>3. \A j, k \in 1 .. m : b[j].version = b[k].version => j = k
    BY <1>2
  <2> QED
    BY <1>1, <2>1, <2>2, <2>3 DEF Counts
<1>4. ASSUME NEW t, t # u, NEW a \in Nat PROVE Counts(b, t, a, 0)
  BY <1>1, <1>2, <1>4 DEF Counts
<1> QED
  BY <1>3, <1>4

LEMMA BlockOwns ==
  ASSUME NEW b, NEW m \in Nat, NEW u, NEW v, NEW q \in Nat, NEW w \in Nat,
         Block(b, m, u, v, q, w)
  PROVE  Owns(b, q, m * w) /\ m * w \in Nat
<1>1. DOMAIN b = 1 .. m
  BY SequenceFacts DEF Block
<1>2. \A k \in 1 .. m : Range(b[k].seqs) = q + (k - 1) * w .. q + (k - 1) * w + w - 1
  BY DEF Block
<1>3. m * w \in Nat
  BY SMT
<1>4. CASE w = 0
  <2>1. \A k \in 1 .. m : Range(b[k].seqs) = {}
    BY <1>2, <1>4
  <2>2. q .. q + m * w - 1 = {}
    BY <1>4
  <2> QED
    BY <1>1, <1>3, <2>1, <2>2 DEF Owns
<1>5. CASE w # 0
  <2>1. ASSUME NEW k \in 1 .. m, NEW x \in Range(b[k].seqs)
        PROVE  /\ x \in q .. q + m * w - 1
               /\ x - q \in Nat /\ (x - q) \div w = k - 1
    <3>1. x \in q + (k - 1) * w .. q + (k - 1) * w + w - 1
      BY <1>2
    <3>2. (k - 1) * w + w <= m * w /\ (k - 1) * w \in Nat
      <4>1. k - 1 \in Nat /\ k - 1 < m
        OBVIOUS
      <4> HIDE <3>1
      <4> QED
        BY <1>5, <4>1, Product, SMT
    <3> DEFINE c == x - q - (k - 1) * w
    <3>3. c \in 0 .. w - 1
      BY <3>1, <3>2
    <3>4. k - 1 \in Nat /\ x - q = c + (k - 1) * w
      BY <3>1, <3>2
    <3> HIDE DEF c
    <3>5. (x - q) \div w = k - 1
      BY <1>5, <3>3, <3>4, DivisionUnique
    <3> QED
      BY <1>3, <3>1, <3>2, <3>5
  <2>2. ASSUME NEW x \in q .. q + m * w - 1
        PROVE  \E k \in 1 .. m : x \in Range(b[k].seqs)
    <3> DEFINE d == (x - q) \div w
               c == (x - q) % w
    <3>1. x - q \in 0 .. m * w - 1 /\ x - q \in Nat
      BY <1>3
    <3>2. d \in 0 .. m - 1
      BY <1>5, <3>1, Cells
    <3>3. c \in 0 .. w - 1 /\ x - q = c + d * w /\ d \in Nat
      BY <1>5, <3>1, Division
    <3> HIDE DEF c, d
    <3>4. d * w \in Nat
      BY <3>3, SMT
    <3>5. x \in q + d * w .. q + d * w + w - 1
      BY <3>1, <3>3, <3>4
    <3>6. d + 1 \in 1 .. m /\ (d + 1) - 1 = d
      BY <3>2
    <3> QED
      BY <1>2, <3>5, <3>6
  <2>3. ASSUME NEW j \in 1 .. m, NEW k \in 1 .. m, NEW x \in Range(b[j].seqs),
               x \in Range(b[k].seqs)
        PROVE  j = k
    <3>1. (x - q) \div w = j - 1 /\ (x - q) \div w = k - 1
      BY <2>1, <2>3
    <3> QED
      BY <3>1
  <2> QED
    BY <1>1, <1>3, <2>1, <2>2, <2>3 DEF Owns
<1> QED
  BY <1>4, <1>5

\* A block that goes on with the numbers of what has been made.
LEMMA MadeBlock ==
  ASSUME NEW s, Made(s), NEW b, NEW m \in Nat, NEW u, NEW w \in Nat,
         Block(b, m, u, Cardinality(OfType(s, u)), Cardinality(Sequencers(s)), w)
  PROVE  /\ Made(s \o b)
         /\ Cardinality(OfType(s \o b, u)) = Cardinality(OfType(s, u)) + m
         /\ \A t : t # u => Cardinality(OfType(s \o b, t)) = Cardinality(OfType(s, t))
         /\ Cardinality(Sequencers(s \o b)) = Cardinality(Sequencers(s)) + m * w
<1> DEFINE v == Cardinality(OfType(s, u))
           q == Cardinality(Sequencers(s))
<1>1. v \in Nat /\ q \in Nat
  BY DEF Made
<1>2. Block(b, m, u, v, q, w)
  OBVIOUS
<1>3. Counts(b, u, v, m) /\ \A t : t # u => \A a \in Nat : Counts(b, t, a, 0)
  <2> HIDE DEF v, q
  <2> QED
    BY <1>1, <1>2, BlockCounts
<1>4. Owns(b, q, m * w) /\ m * w \in Nat
  <2> HIDE DEF v, q
  <2> QED
    BY <1>1, <1>2, BlockOwns
<1>5. \A t : Cardinality(OfType(s, t)) \in Nat
  BY DEF Made
<1>6. \A t : t # u => Counts(b, t, Cardinality(OfType(s, t)), 0)
  BY <1>3, <1>5
<1>7. \A t : \E n \in Nat : Counts(b, t, Cardinality(OfType(s, t)), n)
  BY <1>3, <1>6
<1>8. Sequence(b)
  BY DEF Block
<1>9. /\ Made(s \o b)
      /\ \A t : \A n \in Nat : Counts(b, t, Cardinality(OfType(s, t)), n) =>
           Cardinality(OfType(s \o b, t)) = Cardinality(OfType(s, t)) + n
      /\ Cardinality(Sequencers(s \o b)) = Cardinality(Sequencers(s)) + m * w
  BY <1>4, <1>7, <1>8, MadeConcat
<1>10. \A t : t # u => Cardinality(OfType(s \o b, t)) = Cardinality(OfType(s, t)) + 0
  BY <1>6, <1>9
<1> QED
  BY <1>3, <1>5, <1>9, <1>10

\* The numbers from a on, one after the other.
LEMMA RangeOfNumbers ==
  ASSUME NEW w \in Nat, NEW a \in Nat, NEW f, f = [j \in 1 .. w |-> a + (j - 1)]
  PROVE  Range(f) = a .. a + w - 1
<1>1. ASSUME NEW x \in a .. a + w - 1 PROVE x \in Range(f)
  <2>1. (x - a) + 1 \in 1 .. w /\ f[(x - a) + 1] = x
    OBVIOUS
  <2> QED
    BY <2>1 DEF Range
<1>2. ASSUME NEW x \in Range(f) PROVE x \in a .. a + w - 1
  BY DEF Range
<1> QED
  BY <1>1, <1>2

LEMMA CntrlFacts ==
  ASSUME NEW t, NEW v
  PROVE  LET c == Cntrl(t, v)
         IN  /\ c.type = t /\ c.version = v /\ c.seqs = <<>> /\ c.clock = None
             /\ c.cluster = 0 /\ c.l2_select = None /\ c.downstream = {}
BY DEF Cntrl

LEMMA NoneInRange == Range(<<>>) = {}
<1>1. DOMAIN <<>> = {}
  BY EmptySeq, LenProperties
<1> QED
  BY <1>1 DEF Range

CntrlFields == {"type", "version", "seqs", "clock", "cluster", "l2_select", "downstream"}

\* Created() as a block.
CreatedAs(b, m, u, v, q, w) ==
  /\ Block(b, m, u, v, q, w)
  /\ \A k \in 1 .. m :
       /\ b[k].clock = None /\ b[k].cluster = 0
       /\ b[k].l2_select = None /\ b[k].downstream = {}
       /\ \A j \in 1 .. w : b[k].seqs[j] = (q + (k - 1) * w) + (j - 1)
       /\ Sequence(b[k].seqs) /\ Len(b[k].seqs) = w
       /\ DOMAIN b[k] = CntrlFields

LEMMA CreatedBlock ==
  ASSUME NEW s, NEW m \in Nat, NEW u, NEW w \in Nat,
         Cardinality(OfType(s, u)) \in Nat, Cardinality(Sequencers(s)) \in Nat
  PROVE  CreatedAs(Created(s, m, u, w), m, u, Cardinality(OfType(s, u)),
                   Cardinality(Sequencers(s)), w)
<1> DEFINE v == Cardinality(OfType(s, u))
           q == Cardinality(Sequencers(s))
<1> DEFINE b == Created(s, m, u, w)
           seqs(k) == [j \in 1 .. w |-> (q + (k - 1) * w) + (j - 1)]
<1>1. b = [k \in 1 .. m |-> [Cntrl(u, v + (k - 1)) EXCEPT !.seqs = seqs(k)]]
  BY DEF Created, Each
<1>0. v \in Nat /\ q \in Nat
  OBVIOUS
<1> HIDE DEF b, v, q
<1>2. \A k \in 1 .. m : b[k] = [Cntrl(u, v + (k - 1)) EXCEPT !.seqs = seqs(k)]
  BY <1>1
<1>3. \A k \in 1 .. m :
        /\ b[k].type = u /\ b[k].version = v + (k - 1) /\ b[k].seqs = seqs(k)
        /\ b[k].clock = None /\ b[k].cluster = 0
        /\ b[k].l2_select = None /\ b[k].downstream = {}
        /\ DOMAIN b[k] = CntrlFields
  <2> HIDE DEF seqs
  <2> QED
    BY <1>2 DEF Cntrl, CntrlFields
<1>4. ASSUME NEW k \in 1 .. m
      PROVE  Range(seqs(k)) = q + (k - 1) * w .. q + (k - 1) * w + w - 1
  <2>1. k - 1 \in Nat
    OBVIOUS
  <2>2. (k - 1) * w \in Nat
    BY <2>1, SMT
  <2>3. q + (k - 1) * w \in Nat
    BY <1>0, <2>2
  <2> QED
    BY <2>3, RangeOfNumbers
<1>5. ASSUME NEW k \in 1 .. m
      PROVE  /\ Sequence(seqs(k)) /\ Len(seqs(k)) = w
             /\ \A j \in 1 .. w : seqs(k)[j] = (q + (k - 1) * w) + (j - 1)
  BY SequenceOf
<1>6. DOMAIN b = 1 .. m /\ b = [k \in 1 .. m |-> b[k]]
  BY <1>1
<1>7. Sequence(b) /\ Len(b) = m
  BY <1>6, SequenceOf
<1>8. Block(b, m, u, v, q, w)
  BY <1>3, <1>4, <1>7 DEF Block
<1> HIDE DEF seqs
<1>9. CreatedAs(b, m, u, v, q, w)
  BY <1>3, <1>5, <1>8 DEF CreatedAs
<1> QED
  BY <1>9 DEF b, v, q

-----------------------------------------------------------------------------
(* The options.                                                            *)

Typed(o) ==
  /\ o.script \in Scripts /\ o.protocol \in Protocols
  /\ o.topology \in {"Crossbar", "CrossbarGarnet", "Pt2Pt", "CustomMesh"}
  /\ o.mem_size \in Nat /\ o.num_cpus \in Nat /\ o.num_l2caches \in Nat
  /\ o.num_l3caches \in Nat /\ o.num_clusters \in Nat \ {0}
  /\ o.num_dirs \in Nat /\ o.dmas \in Nat
  /\ o.rom \in BOOLEAN /\ o.full_system \in BOOLEAN /\ o.one_tester \in BOOLEAN
  /\ o.num_compute_units \in Nat /\ o.num_sqc \in Nat /\ o.num_scalar_cache \in Nat
  /\ o.num_cp \in Nat /\ o.num_tccs \in Nat
  /\ o.TLB_config \in {"perLane", "mono", "perCU", "2CU"}
  /\ o.cu_per_sqc \in Nat \ {0} /\ o.cu_per_scalar_cache \in Nat \ {0}
  /\ o.script \in Tutorials <=> o.protocol = "MSI"
  /\ o.script \in GpuScripts <=> o.protocol = "GPU_VIPER"

\* The options of a script that goes on.
Prepared(o) ==
  /\ Typed(o)
  /\ o.full_system <=> o.script \in {"fs", "runfs"}
  /\ o.one_tester <=> o.script \in OneTester
  /\ o.script \in {"apu_se", "runfs"} =>
       /\ o.num_sqc = CeilDiv(o.num_compute_units, o.cu_per_sqc)
       /\ o.num_scalar_cache = CeilDiv(o.num_compute_units, o.cu_per_scalar_cache)
  /\ o.script = "apu_se" => o.num_compute_units # 0
  /\ o.script = "ruby_gpu_random_test" => o.num_cpus = 0 /\ o.num_cp = 0

LEMMA CommandTyped ==
  ASSUME NEW o \in Commands
  PROVE  Typed(o) /\ o \in CommandOptions
<1>1. /\ o \in CommandOptions
      /\ o.script \in Tutorials <=> o.protocol = "MSI"
      /\ o.script \in GpuScripts <=> o.protocol = "GPU_VIPER"
  BY CommandsAssumption
<1> QED
  BY <1>1 DEF Typed, CommandOptions

LEMMA QuotientNat ==
  ASSUME NEW a \in Nat, NEW b \in Nat \ {0}
  PROVE  a \div b \in Nat /\ CeilDiv(a, b) \in Nat
<1>1. a + b - 1 \in Nat
  OBVIOUS
<1> QED
  BY <1>1, Division DEF CeilDiv

\* An update of options keeps the other ones.
Fields ==
  {"script", "protocol", "topology", "network", "fault_model", "smt", "mem_size", "cpu_type",
   "fast_forward", "fast_forward_pseudo_op", "num_cpus", "num_l2caches", "num_l3caches",
   "num_clusters", "num_dirs", "dmas", "rom", "full_system", "one_tester", "chi_config",
   "pairing", "numa_high_bit", "num_compute_units", "num_sqc", "num_scalar_cache", "num_cp",
   "num_tccs", "TLB_config", "cu_per_sqc", "cu_per_scalar_cache"}

LEMMA OptionFields == \A o \in CommandOptions : DOMAIN o = Fields
BY DEF CommandOptions, Fields

LEMMA OptionsPrepared ==
  ASSUME NEW c \in Commands, ~ScriptRefuses(c)
  PROVE  Prepared(Options(c)) /\ Options(c).script = c.script
<1>1. Typed(c) /\ DOMAIN c = Fields
  BY CommandTyped, OptionFields
<1> DEFINE g == IF c.script \in GpuScripts THEN GpuOptions(c) ELSE c
           o == Options(c)
<1>2. o = [g EXCEPT !.one_tester = c.script \in OneTester,
                    !.full_system = c.script \in {"fs", "runfs"}]
  BY DEF Options
<1>3. /\ DOMAIN g = Fields /\ Typed(g) /\ g.script = c.script
      /\ g.cu_per_sqc = c.cu_per_sqc /\ g.cu_per_scalar_cache = c.cu_per_scalar_cache
      /\ g.num_compute_units = c.num_compute_units
      /\ c.script \in {"apu_se", "runfs"} =>
           /\ g.num_sqc = CeilDiv(c.num_compute_units, c.cu_per_sqc)
           /\ g.num_scalar_cache = CeilDiv(c.num_compute_units, c.cu_per_scalar_cache)
      /\ c.script = "ruby_gpu_random_test" => g.num_cpus = 0 /\ g.num_cp = 0
  <2>1. CASE c.script \notin GpuScripts
    BY <1>1, <2>1 DEF GpuScripts
  <2>2. CASE c.script = "ruby_gpu_random_test"
    <3> DEFINE sqc    == c.num_compute_units \div c.cu_per_sqc
               scalar == c.num_compute_units \div c.cu_per_scalar_cache
    <3>1. sqc \in Nat /\ scalar \in Nat
      BY <1>1, QuotientNat DEF Typed
    <3>2. g = [c EXCEPT !.num_cpus = 0, !.num_cp = 0, !.num_sqc = sqc,
                        !.num_scalar_cache = scalar]
      BY <2>2 DEF GpuOptions, GpuScripts
    <3> HIDE DEF g, sqc, scalar
    <3>3. DOMAIN g = Fields
      BY <1>1, <3>2
    <3>4. /\ g.num_cpus = 0 /\ g.num_cp = 0 /\ g.num_sqc = sqc /\ g.num_scalar_cache = scalar
          /\ \A f \in Fields \ {"num_cpus", "num_cp", "num_sqc", "num_scalar_cache"} : g[f] = c[f]
      BY <1>1, <3>2 DEF Fields
    <3> QED
      BY <1>1, <2>2, <3>1, <3>3, <3>4 DEF Typed, Fields
  <2>3. CASE c.script \in {"apu_se", "runfs"}
    <3> DEFINE sqc    == CeilDiv(c.num_compute_units, c.cu_per_sqc)
               scalar == CeilDiv(c.num_compute_units, c.cu_per_scalar_cache)
               dmas   == IF c.script = "apu_se" THEN 2 ELSE c.dmas + 3
    <3>1. sqc \in Nat /\ scalar \in Nat /\ dmas \in Nat
      <4>1. c.dmas \in Nat
        BY <1>1 DEF Typed
      <4>2. dmas \in Nat
        BY <4>1
      <4> HIDE DEF dmas
      <4> QED
        BY <1>1, <4>2, QuotientNat DEF Typed
    <3>2. g = [c EXCEPT !.num_sqc = sqc, !.num_scalar_cache = scalar, !.dmas = dmas]
      BY <2>3 DEF GpuOptions, GpuScripts
    <3> HIDE DEF g, sqc, scalar, dmas
    <3>3. DOMAIN g = Fields
      BY <1>1, <3>2
    <3>4. /\ g.dmas = dmas /\ g.num_sqc = sqc /\ g.num_scalar_cache = scalar
          /\ \A f \in Fields \ {"dmas", "num_sqc", "num_scalar_cache"} : g[f] = c[f]
      BY <1>1, <3>2 DEF Fields
    <3> QED
      BY <1>1, <2>3, <3>1, <3>3, <3>4 DEF Typed, Fields, sqc, scalar
  <2> QED
    BY <2>1, <2>2, <2>3 DEF GpuScripts
<1>4. c.script = "apu_se" => c.num_compute_units # 0
  BY DEF ScriptRefuses
<1> HIDE DEF g, o
<1>5. /\ o.full_system = (c.script \in {"fs", "runfs"})
      /\ o.one_tester = (c.script \in OneTester)
      /\ \A f \in Fields \ {"full_system", "one_tester"} : o[f] = g[f]
  BY <1>2, <1>3 DEF Fields
<1>6. Typed(o)
  BY <1>3, <1>5 DEF Typed, Fields
<1>7. /\ o.script = c.script /\ o.num_compute_units = c.num_compute_units
      /\ o.cu_per_sqc = c.cu_per_sqc /\ o.cu_per_scalar_cache = c.cu_per_scalar_cache
      /\ o.num_sqc = g.num_sqc /\ o.num_scalar_cache = g.num_scalar_cache
      /\ o.num_cpus = g.num_cpus /\ o.num_cp = g.num_cp
  BY <1>3, <1>5 DEF Fields
<1>8. Prepared(o)
  BY <1>3, <1>4, <1>5, <1>6, <1>7 DEF Prepared
<1> QED
  BY <1>7, <1>8 DEF o

-----------------------------------------------------------------------------
(* Controllers without sequencers.                                         *)

Plain(c, t) == c.type = t /\ c.l2_select = None /\ c.seqs = <<>>

LEMMA PlainBlock ==
  ASSUME NEW b, Sequence(b), NEW t, \A k \in 1 .. Len(b) : b[k] = Cntrl(t, k - 1)
  PROVE  /\ \A q \in Nat : Block(b, Len(b), t, 0, q, 0)
         /\ \A c \in Range(b) : Plain(c, t)
<1>1. Len(b) \in Nat /\ DOMAIN b = 1 .. Len(b)
  BY SequenceFacts
<1>2. \A k \in 1 .. Len(b) : b[k].type = t /\ b[k].version = k - 1 /\ b[k].seqs = <<>>
                             /\ b[k].l2_select = None
  BY CntrlFacts
<1>3. \A q \in Nat : Block(b, Len(b), t, 0, q, 0)
  <2> TAKE q \in Nat
  <2>1. \A k \in 1 .. Len(b) :
          Range(b[k].seqs) = q + (k - 1) * 0 .. q + (k - 1) * 0 + 0 - 1
    <3> TAKE k \in 1 .. Len(b)
    <3>1. Range(b[k].seqs) = {}
      BY <1>2, NoneInRange
    <3>2. (k - 1) * 0 = 0
      BY <1>1
    <3>3. q + (k - 1) * 0 .. q + (k - 1) * 0 + 0 - 1 = {}
      BY <3>2
    <3> QED
      BY <3>1, <3>3
  <2> QED
    BY <1>1, <1>2, <2>1 DEF Block
<1>4. \A c \in Range(b) : Plain(c, t)
  BY <1>1, <1>2 DEF Range, Plain
<1> QED
  BY <1>3, <1>4

LEMMA EachCntrl ==
  ASSUME NEW n \in Nat, NEW t, NEW b, b = [k \in 1 .. n |-> Cntrl(t, k - 1)]
  PROVE  /\ Sequence(b) /\ Len(b) = n
         /\ \A k \in 1 .. Len(b) : b[k] = Cntrl(t, k - 1)
<1>1. DOMAIN b = 1 .. n /\ b = [k \in 1 .. n |-> b[k]]
  OBVIOUS
<1>2. Sequence(b) /\ Len(b) = n
  BY <1>1, SequenceOf
<1> QED
  BY <1>2

LEMMA OneCntrl ==
  ASSUME NEW x
  PROVE  /\ Sequence(<<x>>) /\ Len(<<x>>) = 1 /\ <<x>>[1] = x
         /\ Sequence(<<>>) /\ Len(<<>>) = 0
<1>1. DOMAIN <<x>> = 1 .. 1 /\ <<x>> = [k \in 1 .. 1 |-> <<x>>[k]]
  OBVIOUS
<1>2. Sequence(<<x>>) /\ Len(<<x>>) = 1
  BY <1>1, SequenceOf
<1>3. Sequence(<<>>) /\ Len(<<>>) = 0
  BY EmptySeq DEF Sequence
<1> QED
  BY <1>2, <1>3

LEMMA DirectoriesBlock ==
  ASSUME NEW o, Typed(o)
  PROVE  /\ Sequence(Directories(o))
         /\ \A q \in Nat : Block(Directories(o), Len(Directories(o)), "Directory", 0, q, 0)
         /\ \A c \in Range(Directories(o)) : Plain(c, "Directory")
<1> DEFINE b == [k \in 1 .. o.num_dirs |-> Cntrl("Directory", k - 1)]
           r == IF o.rom THEN <<Cntrl("Directory", o.num_dirs)>> ELSE <<>>
<1>1. o.num_dirs \in Nat
  BY DEF Typed
<1>2. /\ Sequence(b) /\ Len(b) = o.num_dirs
      /\ \A k \in 1 .. Len(b) : b[k] = Cntrl("Directory", k - 1)
  BY <1>1, EachCntrl
<1>3. /\ Sequence(r)
      /\ \A k \in 1 .. Len(r) : k = 1 /\ r[k] = Cntrl("Directory", o.num_dirs)
  <2>1. CASE o.rom
    BY <2>1, OneCntrl
  <2>2. CASE ~o.rom
    <3>1. r = <<>>
      BY <2>2
    <3>2. 1 .. Len(r) = {}
      BY <3>1, OneCntrl
    <3> QED
      BY <3>1, <3>2, OneCntrl
  <2> QED
    BY <2>1, <2>2
<1>4. Directories(o) = b \o r
  BY DEF Directories, Each
<1> HIDE DEF b, r
<1>5. \A k \in 1 .. Len(b \o r) : (b \o r)[k] = Cntrl("Directory", k - 1)
  <2>1. Len(r) \in Nat /\ Len(b \o r) = Len(b) + Len(r)
    BY <1>2, <1>3, Concat, SequenceFacts
  <2>2. \A k \in 1 .. Len(b) : (b \o r)[k] = b[k]
    BY <1>2, <1>3, Concat
  <2>3. \A k \in 1 .. Len(r) : (b \o r)[Len(b) + k] = r[k]
    BY <1>2, <1>3, Concat
  <2>4. ASSUME NEW k \in 1 .. Len(b \o r), k \notin 1 .. Len(b)
        PROVE  (b \o r)[k] = Cntrl("Directory", k - 1)
    <3>1. k - Len(b) \in 1 .. Len(r) /\ Len(b) + (k - Len(b)) = k
      BY <1>1, <1>2, <2>1, <2>4
    <3>2. k - 1 = o.num_dirs /\ (b \o r)[k] = r[k - Len(b)]
      BY <1>1, <1>2, <1>3, <2>3, <3>1
    <3> QED
      BY <1>3, <3>1, <3>2
  <2> QED
    BY <1>2, <2>2, <2>4
<1>6. Sequence(b \o r)
  BY <1>2, <1>3, Concat
<1> QED
  BY <1>4, <1>5, <1>6, PlainBlock

LEMMA DMAsBlock ==
  ASSUME NEW o, Typed(o)
  PROVE  /\ Sequence(DMAs(o))
         /\ \A q \in Nat : Block(DMAs(o), Len(DMAs(o)), "DMA", 0, q, 0)
         /\ \A c \in Range(DMAs(o)) : Plain(c, "DMA")
<1> DEFINE n == o.dmas + (IF o.full_system THEN 1 ELSE 0)
<1>1. n \in Nat
  BY DEF Typed
<1>2. DMAs(o) = [k \in 1 .. n |-> Cntrl("DMA", k - 1)]
  BY DEF DMAs, Each
<1> HIDE DEF n
<1>3. /\ Sequence(DMAs(o)) /\ Len(DMAs(o)) = n
      /\ \A k \in 1 .. Len(DMAs(o)) : DMAs(o)[k] = Cntrl("DMA", k - 1)
  BY <1>1, <1>2, EachCntrl
<1> QED
  BY <1>3, PlainBlock

-----------------------------------------------------------------------------
(* The CPUs' first controllers, and what comes after them.                 *)

LEMMA FirstBlock ==
  ASSUME NEW b, NEW m \in Nat, NEW u, NEW w \in Nat, Block(b, m, u, 0, 0, w)
  PROVE  /\ Made(b)
         /\ Cardinality(OfType(b, u)) = m
         /\ \A t : t # u => Cardinality(OfType(b, t)) = 0
         /\ Cardinality(Sequencers(b)) = m * w
<1> DEFINE e == <<>>
<1>1. e \o b = b
  BY ConcatEmptySeq DEF Block, Sequence
<1>2. /\ Made(e) /\ \A t : Cardinality(OfType(e, t)) = 0
      /\ Cardinality(Sequencers(e)) = 0
  BY NothingMade
<1> HIDE DEF e
<1>3. Block(b, m, u, Cardinality(OfType(e, u)), Cardinality(Sequencers(e)), w)
  BY <1>2, Zenon
<1>4. /\ Made(e \o b)
      /\ Cardinality(OfType(e \o b, u)) = Cardinality(OfType(e, u)) + m
      /\ \A t : t # u => Cardinality(OfType(e \o b, t)) = Cardinality(OfType(e, t))
      /\ Cardinality(Sequencers(e \o b)) = Cardinality(Sequencers(e)) + m * w
  BY <1>2, <1>3, MadeBlock
<1>5. m * w \in Nat
  BY SMT
<1> QED
  BY <1>1, <1>2, <1>4, <1>5

\* A first block without sequencers leaves every other kind, and the sequencers, at none.
LEMMA FirstQuietBlock ==
  ASSUME NEW b, NEW m \in Nat, NEW u, Block(b, m, u, 0, 0, 0)
  PROVE  /\ Made(b)
         /\ \A t : t # u => Cardinality(OfType(b, t)) = 0
         /\ Cardinality(Sequencers(b)) = 0
<1>1. 0 \in Nat /\ m * 0 = 0
  OBVIOUS
<1> DEFINE w == 0
<1>2. w \in Nat /\ Block(b, m, u, 0, 0, w) /\ m * w = 0
  BY <1>1
<1> HIDE DEF w
<1>3. /\ Made(b)
      /\ \A t : t # u => Cardinality(OfType(b, t)) = 0
      /\ Cardinality(Sequencers(b)) = m * w
  BY <1>2, FirstBlock
<1> QED
  BY <1>2, <1>3, Zenon

LEMMA RangeOfOne == \A x : Range(<<x>>) = {x}
BY DEF Range

\* The controllers of n CPUs, with a sequencer each.
Front(b, n, t) ==
  /\ Sequence(b) /\ Len(b) = n
  /\ \A k \in 1 .. n :
       b[k].type = t /\ b[k].version = k - 1 /\ Range(b[k].seqs) = {k - 1}

LEMMA FrontBlock ==
  ASSUME NEW n \in Nat, NEW t, NEW b, Front(b, n, t)
  PROVE  /\ Made(b)
         /\ Cardinality(OfType(b, t)) = n
         /\ \A u : u # t => Cardinality(OfType(b, u)) = 0
         /\ Cardinality(Sequencers(b)) = n
<1>1. ASSUME NEW k \in 1 .. n
      PROVE  Range(b[k].seqs) = 0 + (k - 1) * 1 .. 0 + (k - 1) * 1 + 1 - 1
  <2>1. 0 + (k - 1) * 1 .. 0 + (k - 1) * 1 + 1 - 1 = {k - 1}
    OBVIOUS
  <2> QED
    BY <2>1 DEF Front
<1>2. Block(b, n, t, 0, 0, 1)
  <2>1. \A k \in 1 .. n : b[k].type = t /\ b[k].version = 0 + (k - 1)
    BY DEF Front
  <2> QED
    BY <1>1, <2>1, Zenon DEF Block, Front
<1>3. n * 1 = n
  OBVIOUS
<1> QED
  BY <1>2, <1>3, FirstBlock

LEMMA AddPlain ==
  ASSUME NEW s, Made(s), NEW b, NEW m \in Nat, NEW u, \A q \in Nat : Block(b, m, u, 0, q, 0),
         Cardinality(OfType(s, u)) = 0
  PROVE  /\ Made(s \o b)
         /\ Cardinality(OfType(s \o b, u)) = m
         /\ \A t : t # u => Cardinality(OfType(s \o b, t)) = Cardinality(OfType(s, t))
         /\ Cardinality(Sequencers(s \o b)) = Cardinality(Sequencers(s))
         /\ Range(s \o b) = Range(s) \cup Range(b)
<1>1. Block(b, m, u, Cardinality(OfType(s, u)), Cardinality(Sequencers(s)), 0)
  BY DEF Made
<1>2. /\ Made(s \o b)
      /\ Cardinality(OfType(s \o b, u)) = Cardinality(OfType(s, u)) + m
      /\ \A t : t # u => Cardinality(OfType(s \o b, t)) = Cardinality(OfType(s, t))
      /\ Cardinality(Sequencers(s \o b)) = Cardinality(Sequencers(s)) + m * 0
  BY <1>1, MadeBlock
<1>3. Cardinality(Sequencers(s)) \in Nat
  BY DEF Made
<1>4. Range(s \o b) = Range(s) \cup Range(b)
  BY <1>1, Concat DEF Made, Block
<1> QED
  BY <1>2, <1>3, <1>4

\* The memory's directories and the DMA controllers close most systems.
LEMMA AddDirectories ==
  ASSUME NEW o, Typed(o), NEW s, Made(s), Cardinality(OfType(s, "Directory")) = 0
  PROVE  /\ Made(s \o Directories(o))
         /\ \A t : t # "Directory" =>
              Cardinality(OfType(s \o Directories(o), t)) = Cardinality(OfType(s, t))
         /\ Cardinality(Sequencers(s \o Directories(o))) = Cardinality(Sequencers(s))
         /\ Range(s \o Directories(o)) = Range(s) \cup Range(Directories(o))
<1>1. Len(Directories(o)) \in Nat
  BY DirectoriesBlock, SequenceFacts
<1>2. \A q \in Nat : Block(Directories(o), Len(Directories(o)), "Directory", 0, q, 0)
  BY DirectoriesBlock
<1> QED
  BY <1>1, <1>2, AddPlain

LEMMA AddDMAs ==
  ASSUME NEW o, Typed(o), NEW s, Made(s), Cardinality(OfType(s, "DMA")) = 0
  PROVE  /\ Made(s \o DMAs(o))
         /\ \A t : t # "DMA" => Cardinality(OfType(s \o DMAs(o), t)) = Cardinality(OfType(s, t))
         /\ Cardinality(Sequencers(s \o DMAs(o))) = Cardinality(Sequencers(s))
         /\ Range(s \o DMAs(o)) = Range(s) \cup Range(DMAs(o))
<1>1. Len(DMAs(o)) \in Nat
  BY DMAsBlock, SequenceFacts
<1>2. \A q \in Nat : Block(DMAs(o), Len(DMAs(o)), "DMA", 0, q, 0)
  BY DMAsBlock
<1> QED
  BY <1>1, <1>2, AddPlain

LEMMA AddBoth ==
  ASSUME NEW o, Typed(o), NEW s, Made(s), Cardinality(OfType(s, "Directory")) = 0,
         Cardinality(OfType(s, "DMA")) = 0
  PROVE  LET all == s \o Directories(o) \o DMAs(o)
         IN  /\ Made(all)
             /\ \A t : t \notin {"Directory", "DMA"} =>
                  Cardinality(OfType(all, t)) = Cardinality(OfType(s, t))
             /\ Cardinality(Sequencers(all)) = Cardinality(Sequencers(s))
             /\ \A c \in Range(s) : c \in Range(all)
             /\ \A c \in Range(all) :
                  c \in Range(s) \/ Plain(c, "Directory") \/ Plain(c, "DMA")
<1>1. /\ Made(s \o Directories(o))
      /\ \A t : t # "Directory" =>
           Cardinality(OfType(s \o Directories(o), t)) = Cardinality(OfType(s, t))
      /\ Cardinality(OfType(s \o Directories(o), "DMA")) = 0
      /\ Cardinality(Sequencers(s \o Directories(o))) = Cardinality(Sequencers(s))
      /\ Range(s \o Directories(o)) = Range(s) \cup Range(Directories(o))
  BY AddDirectories
<1> DEFINE d == s \o Directories(o)
<1> HIDE DEF d
<1>2. /\ Made(d \o DMAs(o))
      /\ \A t : t # "DMA" => Cardinality(OfType(d \o DMAs(o), t)) = Cardinality(OfType(d, t))
      /\ Cardinality(Sequencers(d \o DMAs(o))) = Cardinality(Sequencers(d))
      /\ Range(d \o DMAs(o)) = Range(d) \cup Range(DMAs(o))
  BY <1>1, AddDMAs DEF d
<1>3. /\ \A c \in Range(Directories(o)) : Plain(c, "Directory")
      /\ \A c \in Range(DMAs(o)) : Plain(c, "DMA")
  BY DirectoriesBlock, DMAsBlock
<1> QED
  BY <1>1, <1>2, <1>3 DEF d

-----------------------------------------------------------------------------
(* The protocols of the CPUs without clusters.                             *)

\* A system that gives each of n CPUs one sequencer, of a controller of a type.
OwnSequencers(s, n, t) ==
  /\ Made(s) /\ Cardinality(Sequencers(s)) = n
  /\ \A i \in 0 .. n - 1 : \E c \in Range(s) :
       Range(c.seqs) = {i} /\ c.type = t /\ (t = "L0Cache" \/ c.clock \in {None, i})

\* BanksOfOwnCluster, of a sequence of controllers.
BanksFill(s) ==
  \A c \in Range(s) : c.l2_select # None =>
    LET banks    == {b \in Range(s) : b.type \in {"L2Cache", "TCC"} /\ b.cluster = c.cluster}
        selected == {(c.cluster * 2^c.l2_select) + v : v \in 0 .. (2^c.l2_select) - 1}
    IN  IsPowerOfTwo(Cardinality(banks)) => selected = {b.version : b \in banks}

\* A set of banks with the m versions from a on.
LEMMA BankVersions ==
  ASSUME NEW S, NEW a \in Nat, NEW m \in Nat,
         \A b \in S : b.version \in a .. a + m - 1,
         \A v \in a .. a + m - 1 : \E b \in S : b.version = v,
         \A b, c \in S : b.version = c.version => b = c
  PROVE  Cardinality(S) = m
<1> DEFINE f == [b \in S |-> b.version - a]
<1>1. f \in [S -> 0 .. m - 1]
  OBVIOUS
<1>2. \A x, y \in S : f[x] = f[y] => x = y
  OBVIOUS
<1>3. \A v \in 0 .. m - 1 : \E x \in S : f[x] = v
  <2> TAKE v \in 0 .. m - 1
  <2>1. PICK b \in S : b.version = a + v
    OBVIOUS
  <2> QED
    BY <2>1
<1> HIDE DEF f
<1> QED
  BY <1>1, <1>2, <1>3, OneToOne

\* The controllers of a type, by version.
LEMMA VersionsOfType ==
  ASSUME NEW s, NEW t, NEW a, NEW m, Sequence(s), Counts(s, t, a, m)
  PROVE  /\ \A c \in Range(s) : c.type = t => c.version \in a .. a + m - 1
         /\ \A v \in a .. a + m - 1 : \E c \in Range(s) : c.type = t /\ c.version = v
         /\ \A b, c \in Range(s) :
              b.type = t /\ c.type = t /\ b.version = c.version => b = c
<1>1. DOMAIN s = 1 .. Len(s)
  BY SequenceFacts
<1> QED
  BY <1>1, SequenceFacts, SMT DEF Counts

LEMMA SameName ==
  ASSUME NEW s, Made(s), NEW b \in Range(s), NEW c \in Range(s), b.type = c.type,
         b.version = c.version
  PROVE  b = c
BY VersionsOfType DEF Made

LEMMA PowerOfTwo == \A n \in Nat : IsPowerOfTwo(n) => n = 2^Log2(n)
BY DEF IsPowerOfTwo

\* The banks of one cluster, selected by the bits of their number.
LEMMA OneClusterOfBanks ==
  ASSUME NEW s, NEW type \in {"L2Cache", "TCC"}, Made(s),
         \A c \in Range(s) : c.l2_select # None =>
           c.cluster = 0 /\ c.l2_select = Log2(Cardinality(OfType(s, type))),
         \A c \in Range(s) : c.type \in {"L2Cache", "TCC"} => c.type = type /\ c.cluster = 0
  PROVE  BanksFill(s)
<1> DEFINE n == Cardinality(OfType(s, type))
<1> DEFINE a == 0
<1>0. a \in Nat
  OBVIOUS
<1>1. n \in Nat /\ Counts(s, type, a, n) /\ Sequence(s)
  BY DEF Made
<1> HIDE DEF a, n
<1> SUFFICES ASSUME NEW c \in Range(s), c.l2_select # None
             PROVE  LET banks    == {b \in Range(s) : b.type \in {"L2Cache", "TCC"}
                                                      /\ b.cluster = c.cluster}
                        selected == {(c.cluster * 2^c.l2_select) + v :
                                       v \in 0 .. (2^c.l2_select) - 1}
                    IN  IsPowerOfTwo(Cardinality(banks)) => selected = {b.version : b \in banks}
  BY DEF BanksFill
<1> DEFINE banks == {b \in Range(s) : b.type \in {"L2Cache", "TCC"} /\ b.cluster = c.cluster}
<1>2. c.cluster = 0 /\ c.l2_select = Log2(n)
  BY DEF n
<1>3. \A b \in banks : b \in Range(s) /\ b.type = type
  OBVIOUS
<1>4. \A b \in Range(s) : b.type = type => b \in banks
  BY <1>2
<1> HIDE DEF banks
<1>5. Cardinality(banks) = n /\ {b.version : b \in banks} = 0 .. n - 1
  <2>0. /\ \A b \in Range(s) : b.type = type => b.version \in a .. a + n - 1
        /\ \A v \in a .. a + n - 1 : \E b \in Range(s) : b.type = type /\ b.version = v
        /\ \A b, d \in Range(s) :
             b.type = type /\ d.type = type /\ b.version = d.version => b = d
    BY <1>1, VersionsOfType
  <2>1. \A b \in banks : b.version \in a .. a + n - 1
    BY <1>3, <2>0
  <2>2. \A v \in a .. a + n - 1 : \E b \in banks : b.version = v
    BY <1>4, <2>0
  <2>3. \A b, d \in banks : b.version = d.version => b = d
    BY <1>3, <2>0
  <2>4. Cardinality(banks) = n
    BY <1>0, <1>1, <2>1, <2>2, <2>3, BankVersions
  <2>5. {b.version : b \in banks} = a .. a + n - 1
    BY <2>1, <2>2
  <2> QED
    BY <1>1, <2>4, <2>5 DEF a
<1>6. ASSUME IsPowerOfTwo(n)
      PROVE  {(c.cluster * 2^c.l2_select) + v : v \in 0 .. (2^c.l2_select) - 1} = 0 .. n - 1
  <2>1. 2^c.l2_select = n
    BY <1>1, <1>2, <1>6, PowerOfTwo
  <2>2. \A v \in 0 .. n - 1 : (c.cluster * n) + v = v
    BY <1>1, <1>2
  <2> QED
    BY <1>1, <2>1, <2>2
<1> QED
  BY <1>5, <1>6 DEF banks

LEMMA SharedL2sMade ==
  ASSUME NEW o, Typed(o)
  PROVE  LET s == SharedL2s(o)
         IN  /\ OwnSequencers(s, o.num_cpus, "L1Cache")
             /\ \A t : t \notin {"L1Cache", "L2Cache"} => Cardinality(OfType(s, t)) = 0
             /\ Cardinality(OfType(s, "L2Cache")) = o.num_l2caches
             /\ \A c \in Range(s) :
                  \/ c.type = "L1Cache" /\ c.cluster = 0 /\ c.l2_select = Log2(o.num_l2caches)
                  \/ c.type = "L2Cache" /\ c.cluster = 0 /\ c.l2_select = None
<1> DEFINE n  == o.num_cpus
           m  == o.num_l2caches
           L1 == [k \in 1 .. n |-> [OfCpu("L1Cache", k - 1) EXCEPT !.l2_select = Log2(m)]]
           L2 == [k \in 1 .. m |-> Cntrl("L2Cache", k - 1)]
<1>1. n \in Nat /\ m \in Nat
  BY DEF Typed
<1>2. SharedL2s(o) = L1 \o L2
  BY DEF SharedL2s, Each
<1> HIDE DEF n, m
<1>3. DOMAIN L1 = 1 .. n /\ L1 = [k \in 1 .. n |-> L1[k]]
  OBVIOUS
<1>4. \A k \in 1 .. n :
        /\ L1[k].type = "L1Cache" /\ L1[k].version = k - 1 /\ L1[k].seqs = <<k - 1>>
        /\ L1[k].clock = k - 1 /\ L1[k].cluster = 0 /\ L1[k].l2_select = Log2(m)
  BY DEF OfCpu, Cntrl
<1>5. /\ Sequence(L2) /\ Len(L2) = m
      /\ \A k \in 1 .. Len(L2) : L2[k] = Cntrl("L2Cache", k - 1)
  BY <1>1, EachCntrl
<1> HIDE DEF L1, L2
<1>6. Sequence(L1) /\ Len(L1) = n
  BY <1>1, <1>3, SequenceOf
<1>7. /\ Made(L1)
      /\ \A t : t # "L1Cache" => Cardinality(OfType(L1, t)) = 0
      /\ Cardinality(Sequencers(L1)) = n
  <2>1. \A k \in 1 .. n : L1[k].type = "L1Cache" /\ L1[k].version = k - 1
    BY <1>4
  <2>2. \A k \in 1 .. n : Range(L1[k].seqs) = {k - 1}
    BY <1>4, RangeOfOne
  <2>3. Front(L1, n, "L1Cache")
    BY <1>6, <2>1, <2>2 DEF Front
  <2> QED
    BY <1>1, <2>3, FrontBlock
<1>8. /\ \A q \in Nat : Block(L2, m, "L2Cache", 0, q, 0)
      /\ \A c \in Range(L2) : Plain(c, "L2Cache")
  BY <1>5, PlainBlock
<1>9. /\ Made(L1 \o L2)
      /\ Cardinality(OfType(L1 \o L2, "L2Cache")) = m
      /\ \A t : t # "L2Cache" =>
           Cardinality(OfType(L1 \o L2, t)) = Cardinality(OfType(L1, t))
      /\ Cardinality(Sequencers(L1 \o L2)) = Cardinality(Sequencers(L1))
      /\ Range(L1 \o L2) = Range(L1) \cup Range(L2)
  BY <1>1, <1>7, <1>8, AddPlain
<1>10. ASSUME NEW i \in 0 .. n - 1
       PROVE  \E c \in Range(L1 \o L2) :
                Range(c.seqs) = {i} /\ c.type = "L1Cache" /\ c.clock \in {None, i}
  <2>1. i + 1 \in 1 .. n /\ (i + 1) - 1 = i
    BY <1>1
  <2>2. L1[i + 1] \in Range(L1 \o L2)
    BY <1>6, <1>9, <2>1, SequenceFacts
  <2> QED
    BY <1>4, <2>1, <2>2, RangeOfOne
<1>11. \A c \in Range(L1) :
         c.type = "L1Cache" /\ c.cluster = 0 /\ c.l2_select = Log2(m)
  BY <1>3, <1>4 DEF Range
<1>12. \A c \in Range(L2) : c.type = "L2Cache" /\ c.cluster = 0 /\ c.l2_select = None
  <2>1. \A c \in Range(L2) : \E k \in 1 .. Len(L2) : c = Cntrl("L2Cache", k - 1)
    BY <1>5, SequenceFacts
  <2> QED
    BY <2>1, CntrlFacts
<1> QED
  BY <1>2, <1>7, <1>9, <1>10, <1>11, <1>12 DEF OwnSequencers, n, m

LEMMA SharedSystem ==
  ASSUME NEW o, Typed(o)
  PROVE  LET s == SharedL2s(o) \o Directories(o) \o DMAs(o)
         IN  OwnSequencers(s, o.num_cpus, "L1Cache") /\ BanksFill(s)
<1> DEFINE f == SharedL2s(o)
           s == f \o Directories(o) \o DMAs(o)
<1>1. /\ OwnSequencers(f, o.num_cpus, "L1Cache")
      /\ Cardinality(OfType(f, "Directory")) = 0 /\ Cardinality(OfType(f, "DMA")) = 0
      /\ Cardinality(OfType(f, "L2Cache")) = o.num_l2caches
      /\ \A c \in Range(f) :
           \/ c.type = "L1Cache" /\ c.cluster = 0 /\ c.l2_select = Log2(o.num_l2caches)
           \/ c.type = "L2Cache" /\ c.cluster = 0 /\ c.l2_select = None
  BY SharedL2sMade
<1> HIDE DEF f
<1>2. /\ Made(s)
      /\ \A t : t \notin {"Directory", "DMA"} =>
           Cardinality(OfType(s, t)) = Cardinality(OfType(f, t))
      /\ Cardinality(Sequencers(s)) = Cardinality(Sequencers(f))
      /\ \A c \in Range(f) : c \in Range(s)
      /\ \A c \in Range(s) : c \in Range(f) \/ Plain(c, "Directory") \/ Plain(c, "DMA")
  BY <1>1, AddBoth DEF OwnSequencers
<1> HIDE DEF s
<1>3. OwnSequencers(s, o.num_cpus, "L1Cache")
  BY <1>1, <1>2 DEF OwnSequencers
<1>4. Cardinality(OfType(s, "L2Cache")) = o.num_l2caches
  BY <1>1, <1>2
<1>5. \A c \in Range(s) : c.l2_select # None =>
        c.cluster = 0 /\ c.l2_select = Log2(Cardinality(OfType(s, "L2Cache")))
  BY <1>1, <1>2, <1>4 DEF Plain
<1>6. \A c \in Range(s) : c.type \in {"L2Cache", "TCC"} => c.type = "L2Cache" /\ c.cluster = 0
  BY <1>1, <1>2 DEF Plain
<1>7. BanksFill(s)
  BY <1>2, <1>5, <1>6, OneClusterOfBanks
<1> QED
  BY <1>3, <1>7 DEF f, s

\* A system without banks: the CPUs' controllers and what has no sequencers.
LEMMA NoBanks ==
  ASSUME NEW s, \A c \in Range(s) : c.l2_select = None
  PROVE  BanksFill(s)
BY DEF BanksFill

\* Controllers of the CPUs that no L2 is selected for.
Private(b, n) ==
  /\ Front(b, n, "L1Cache")
  /\ \A k \in 1 .. n :
       b[k].clock \in {None, k - 1} /\ b[k].l2_select = None

LEMMA PrivateMade ==
  ASSUME NEW n \in Nat, NEW b, Private(b, n)
  PROVE  /\ OwnSequencers(b, n, "L1Cache")
         /\ Cardinality(OfType(b, "Directory")) = 0 /\ Cardinality(OfType(b, "DMA")) = 0
         /\ \A c \in Range(b) : c.l2_select = None
<1>1. Front(b, n, "L1Cache") /\ Sequence(b) /\ Len(b) = n
  BY DEF Private, Front
<1>2. /\ Made(b) /\ \A u : u # "L1Cache" => Cardinality(OfType(b, u)) = 0
      /\ Cardinality(Sequencers(b)) = n
  BY <1>1, FrontBlock
<1>3. ASSUME NEW i \in 0 .. n - 1
      PROVE  \E c \in Range(b) : Range(c.seqs) = {i} /\ c.type = "L1Cache" /\ c.clock \in {None, i}
  <2>1. i + 1 \in 1 .. n /\ (i + 1) - 1 = i
    OBVIOUS
  <2>2. b[i + 1] \in Range(b) /\ b[i + 1].type = "L1Cache"
    BY <1>1, <2>1, SequenceFacts DEF Front
  <2> QED
    BY <2>1, <2>2 DEF Private, Front
<1>4. \A c \in Range(b) : c.l2_select = None
  <2>1. \A c \in Range(b) : \E k \in 1 .. n : c = b[k]
    BY <1>1, SequenceFacts
  <2> QED
    BY <2>1 DEF Private
<1> QED
  BY <1>2, <1>3, <1>4 DEF OwnSequencers

LEMMA PrivateSystem ==
  ASSUME NEW o, Typed(o), NEW b, Private(b, o.num_cpus)
  PROVE  LET s == b \o Directories(o) \o DMAs(o)
         IN  /\ OwnSequencers(s, o.num_cpus, "L1Cache")
             /\ \A c \in Range(s) : c.l2_select = None
<1> DEFINE s == b \o Directories(o) \o DMAs(o)
<1>1. /\ OwnSequencers(b, o.num_cpus, "L1Cache")
      /\ Cardinality(OfType(b, "Directory")) = 0 /\ Cardinality(OfType(b, "DMA")) = 0
      /\ \A c \in Range(b) : c.l2_select = None
  BY PrivateMade DEF Typed
<1>2. /\ Made(s) /\ Cardinality(Sequencers(s)) = Cardinality(Sequencers(b))
      /\ \A c \in Range(b) : c \in Range(s)
      /\ \A c \in Range(s) : c \in Range(b) \/ Plain(c, "Directory") \/ Plain(c, "DMA")
  BY <1>1, AddBoth DEF OwnSequencers
<1> HIDE DEF s
<1>3. OwnSequencers(s, o.num_cpus, "L1Cache")
  BY <1>1, <1>2 DEF OwnSequencers
<1> QED
  BY <1>1, <1>2, <1>3 DEF Plain, s

LEMMA PrivateWithDirectories ==
  ASSUME NEW o, Typed(o), NEW b, Private(b, o.num_cpus)
  PROVE  LET s == b \o Directories(o)
         IN  /\ OwnSequencers(s, o.num_cpus, "L1Cache")
             /\ \A c \in Range(s) : c.l2_select = None
<1> DEFINE s == b \o Directories(o)
<1>1. /\ OwnSequencers(b, o.num_cpus, "L1Cache")
      /\ Cardinality(OfType(b, "Directory")) = 0
      /\ \A c \in Range(b) : c.l2_select = None
  BY PrivateMade DEF Typed
<1>2. /\ Made(s) /\ Cardinality(Sequencers(s)) = Cardinality(Sequencers(b))
      /\ Range(s) = Range(b) \cup Range(Directories(o))
  BY <1>1, AddDirectories DEF OwnSequencers
<1>3. \A c \in Range(Directories(o)) : c.l2_select = None
  BY DirectoriesBlock DEF Plain
<1> HIDE DEF s
<1>4. OwnSequencers(s, o.num_cpus, "L1Cache")
  BY <1>1, <1>2 DEF OwnSequencers
<1> QED
  BY <1>1, <1>2, <1>3, <1>4 DEF s

LEMMA PrivateL1sOK ==
  ASSUME NEW o, Typed(o)
  PROVE  Private(PrivateL1s(o), o.num_cpus)
<1> DEFINE n == o.num_cpus
           b == [k \in 1 .. n |-> OfCpu("L1Cache", k - 1)]
<1>1. n \in Nat
  BY DEF Typed
<1>2. PrivateL1s(o) = b
  BY DEF PrivateL1s, Each
<1> HIDE DEF n
<1>3. DOMAIN b = 1 .. n /\ b = [k \in 1 .. n |-> b[k]]
  OBVIOUS
<1>4. \A k \in 1 .. n :
        /\ b[k].type = "L1Cache" /\ b[k].version = k - 1 /\ b[k].seqs = <<k - 1>>
        /\ b[k].clock = k - 1 /\ b[k].l2_select = None
  BY DEF OfCpu, Cntrl
<1> HIDE DEF b
<1>5. Sequence(b) /\ Len(b) = n
  BY <1>1, <1>3, SequenceOf
<1> QED
  BY <1>2, <1>4, <1>5, RangeOfOne DEF Private, Front, n

LEMMA GarnetL1sOK ==
  ASSUME NEW o, Typed(o)
  PROVE  Private(Each(o.num_cpus, LAMBDA i : [Cntrl("L1Cache", i) EXCEPT !.seqs = <<i>>]),
                 o.num_cpus)
<1> DEFINE n == o.num_cpus
           b == [k \in 1 .. n |-> [Cntrl("L1Cache", k - 1) EXCEPT !.seqs = <<k - 1>>]]
<1>1. n \in Nat
  BY DEF Typed
<1>2. Each(o.num_cpus, LAMBDA i : [Cntrl("L1Cache", i) EXCEPT !.seqs = <<i>>]) = b
  BY DEF Each
<1> HIDE DEF n
<1>3. DOMAIN b = 1 .. n /\ b = [k \in 1 .. n |-> b[k]]
  OBVIOUS
<1>4. \A k \in 1 .. n :
        /\ b[k].type = "L1Cache" /\ b[k].version = k - 1 /\ b[k].seqs = <<k - 1>>
        /\ b[k].clock = None /\ b[k].l2_select = None
  BY DEF Cntrl
<1> HIDE DEF b
<1>5. Sequence(b) /\ Len(b) = n
  BY <1>1, <1>3, SequenceOf
<1>6. Private(b, n)
  BY <1>4, <1>5, RangeOfOne DEF Private, Front
<1> QED
  BY <1>2, <1>6 DEF n

\* The tutorials' L1s.
LEMMA TestL1sOK ==
  ASSUME NEW n \in Nat
  PROVE  /\ Private(Created(<<>>, n, "L1Cache", 1), n)
         /\ Private([k \in DOMAIN Created(<<>>, n, "L1Cache", 1) |->
                       [Created(<<>>, n, "L1Cache", 1)[k] EXCEPT !.clock = k - 1]], n)
<1> DEFINE b == Created(<<>>, n, "L1Cache", 1)
           c == [k \in DOMAIN b |-> [b[k] EXCEPT !.clock = k - 1]]
           e == <<>>
           seqs(k) == [j \in 1 .. 1 |-> 0 + (k - 1) * 1 + (j - 1)]
<1>1. Cardinality(OfType(e, "L1Cache")) = 0 /\ Cardinality(Sequencers(e)) = 0
  BY NothingMade
<1>2. /\ Block(b, n, "L1Cache", 0, 0, 1)
      /\ \A k \in 1 .. n : b[k].clock = None /\ b[k].l2_select = None
  <2> HIDE DEF e
  <2>1. CreatedAs(Created(e, n, "L1Cache", 1), n, "L1Cache", Cardinality(OfType(e, "L1Cache")),
                  Cardinality(Sequencers(e)), 1)
    BY <1>1, CreatedBlock
  <2>2. CreatedAs(Created(e, n, "L1Cache", 1), n, "L1Cache", 0, 0, 1)
    BY <1>1, <2>1
  <2> QED
    BY <2>2 DEF e, CreatedAs
<1>3. b = [k \in 1 .. n |-> [Cntrl("L1Cache", Cardinality(OfType(e, "L1Cache")) + (k - 1)) EXCEPT
             !.seqs = Each(1, LAMBDA s : Cardinality(Sequencers(e)) + ((k - 1) * 1) + s)]]
  BY DEF Created, Each
<1> HIDE DEF b, e
<1>4. Sequence(b) /\ Len(b) = n /\ DOMAIN b = 1 .. n
  BY <1>2, SequenceFacts DEF Block
<1>5. \A k \in 1 .. n :
        b[k].type = "L1Cache" /\ b[k].version = k - 1 /\ Range(b[k].seqs) = {k - 1}
  <2> TAKE k \in 1 .. n
  <2>1. b[k].type = "L1Cache" /\ b[k].version = 0 + (k - 1)
        /\ Range(b[k].seqs) = 0 + (k - 1) * 1 .. 0 + (k - 1) * 1 + 1 - 1
    BY <1>2 DEF Block
  <2>2. 0 + (k - 1) * 1 .. 0 + (k - 1) * 1 + 1 - 1 = {k - 1}
    OBVIOUS
  <2> QED
    BY <2>1, <2>2
<1>6. Private(b, n)
  BY <1>2, <1>4, <1>5 DEF Private, Front
<1>7. \A k \in 1 .. n :
        /\ c[k].type = b[k].type /\ c[k].version = b[k].version /\ c[k].seqs = b[k].seqs
        /\ c[k].l2_select = b[k].l2_select /\ c[k].clock = k - 1
  BY <1>3, <1>4 DEF Cntrl
<1>8. DOMAIN c = 1 .. n /\ c = [k \in 1 .. n |-> c[k]]
  BY <1>4
<1> HIDE DEF c
<1>9. Sequence(c) /\ Len(c) = n
  BY <1>8, SequenceOf
<1>10. Private(c, n)
  BY <1>2, <1>5, <1>7, <1>9 DEF Private, Front
<1> QED
  BY <1>6, <1>10 DEF b, c

LEMMA TutorialSystem ==
  ASSUME NEW n \in Nat, NEW b, Private(b, n)
  PROVE  LET s == b \o Created(b, 1, "Directory", 0)
         IN  /\ OwnSequencers(s, n, "L1Cache")
             /\ \A c \in Range(s) : c.l2_select = None
<1> DEFINE d == Created(b, 1, "Directory", 0)
           q == Cardinality(Sequencers(b))
<1>1. /\ OwnSequencers(b, n, "L1Cache")
      /\ Cardinality(OfType(b, "Directory")) = 0
      /\ \A c \in Range(b) : c.l2_select = None
  BY PrivateMade
<1>2. q = n /\ Made(b)
  BY <1>1 DEF OwnSequencers
<1>3. CreatedAs(d, 1, "Directory", Cardinality(OfType(b, "Directory")), q, 0)
  BY <1>1, <1>2, CreatedBlock
<1> HIDE DEF d
<1>4. Block(d, 1, "Directory", Cardinality(OfType(b, "Directory")),
            Cardinality(Sequencers(b)), 0)
  BY <1>3 DEF CreatedAs
<1>5. /\ Made(b \o d)
      /\ Cardinality(Sequencers(b \o d)) = Cardinality(Sequencers(b)) + 1 * 0
  BY <1>2, <1>4, MadeBlock
<1>6. Range(b \o d) = Range(b) \cup Range(d)
  BY <1>2, <1>4, Concat DEF Made, Block
<1>7. OwnSequencers(b \o d, n, "L1Cache")
  <2>1. Cardinality(Sequencers(b \o d)) = n
    BY <1>2, <1>5
  <2>2. \A c \in Range(b) : c \in Range(b \o d)
    BY <1>6
  <2> QED
    BY <1>1, <1>5, <2>1, <2>2 DEF OwnSequencers
<1>8. \A c \in Range(d) : c.l2_select = None
  BY <1>3, <1>4, SequenceFacts DEF Block, CreatedAs
<1> QED
  BY <1>1, <1>6, <1>7, <1>8 DEF d

-----------------------------------------------------------------------------
(* Clusters of CPUs that share L2s.                                        *)

\* Controllers without sequencers, whose versions begin with 0.
Quiet(b, t) ==
  /\ Sequence(b)
  /\ \A k \in 1 .. Len(b) : b[k].type = t /\ b[k].version = k - 1 /\ b[k].seqs = <<>>

LEMMA QuietBlock ==
  ASSUME NEW b, NEW t, Quiet(b, t)
  PROVE  \A q \in Nat : Block(b, Len(b), t, 0, q, 0)
<1> TAKE q \in Nat
<1>1. Len(b) \in Nat /\ DOMAIN b = 1 .. Len(b)
  BY SequenceFacts DEF Quiet
<1>2. \A k \in 1 .. Len(b) :
        Range(b[k].seqs) = q + (k - 1) * 0 .. q + (k - 1) * 0 + 0 - 1
  <2> TAKE k \in 1 .. Len(b)
  <2>1. Range(b[k].seqs) = {}
    BY NoneInRange DEF Quiet
  <2>2. (k - 1) * 0 = 0
    BY <1>1
  <2>3. q + (k - 1) * 0 .. q + (k - 1) * 0 + 0 - 1 = {}
    BY <2>2
  <2> QED
    BY <2>1, <2>3
<1>3. \A k \in 1 .. Len(b) : b[k].type = t /\ b[k].version = 0 + (k - 1)
  BY <1>1 DEF Quiet
<1> QED
  BY <1>1, <1>2, <1>3 DEF Block, Quiet

LEMMA AddQuiet ==
  ASSUME NEW s, Made(s), NEW b, NEW u, Quiet(b, u), Cardinality(OfType(s, u)) = 0
  PROVE  /\ Made(s \o b)
         /\ Cardinality(OfType(s \o b, u)) = Len(b)
         /\ \A t : t # u => Cardinality(OfType(s \o b, t)) = Cardinality(OfType(s, t))
         /\ Cardinality(Sequencers(s \o b)) = Cardinality(Sequencers(s))
         /\ Range(s \o b) = Range(s) \cup Range(b)
<1>1. Len(b) \in Nat
  BY SequenceFacts DEF Quiet
<1>2. \A q \in Nat : Block(b, Len(b), u, 0, q, 0)
  BY QuietBlock
<1> QED
  BY <1>1, <1>2, AddPlain

\* What the three level protocols do not refuse: full clusters.
Clustered(o) ==
  /\ Typed(o)
  /\ o.num_cpus % o.num_clusters = 0 /\ o.num_cpus # 0
  /\ o.num_l2caches % o.num_clusters = 0 /\ o.num_l2caches # 0

LEMMA WholeDivision ==
  ASSUME NEW n \in Nat \ {0}, NEW c \in Nat \ {0}, n % c = 0
  PROVE  n \div c \in Nat \ {0} /\ n = c * (n \div c)
<1> DEFINE q == n \div c
<1>1. q \in Nat /\ n = (n % c) + q * c
  BY Division
<1> HIDE DEF q
<1>2. n = q * c
  BY <1>1
<1>3. q # 0
  BY <1>2
<1>4. q * c = c * q
  BY <1>1, SMT
<1> QED
  BY <1>1, <1>2, <1>3, <1>4 DEF q

LEMMA ClusterSizes ==
  ASSUME NEW o, Clustered(o)
  PROVE  /\ CpusPerCluster(o) \in Nat \ {0} /\ o.num_cpus = o.num_clusters * CpusPerCluster(o)
         /\ L2sPerCluster(o) \in Nat \ {0}
         /\ o.num_l2caches = o.num_clusters * L2sPerCluster(o)
<1>1. /\ o.num_cpus \in Nat \ {0} /\ o.num_l2caches \in Nat \ {0}
      /\ o.num_clusters \in Nat \ {0}
  BY DEF Clustered, Typed
<1> QED
  BY <1>1, WholeDivision DEF Clustered, CpusPerCluster, L2sPerCluster

\* The caches of the three levels.
ThreeLevels(o) ==
  Each(o.num_cpus, LAMBDA i :
      [OfCpu("L0Cache", i) EXCEPT !.clock = i \div CpusPerCluster(o),
                                  !.cluster = i \div CpusPerCluster(o)])
  \o Each(o.num_cpus, LAMBDA i :
      [Cntrl("L1Cache", i) EXCEPT !.cluster = i \div CpusPerCluster(o), !.l2_select = L2Bits(o)])
  \o Each(o.num_l2caches, LAMBDA i :
      [Cntrl("L2Cache", i) EXCEPT !.cluster = i \div L2sPerCluster(o)])

LEMMA ThreeLevelsMade ==
  ASSUME NEW o, Clustered(o)
  PROVE  LET s == ThreeLevels(o)
         IN  /\ Made(s) /\ Cardinality(Sequencers(s)) = o.num_cpus
             /\ Cardinality(OfType(s, "Directory")) = 0 /\ Cardinality(OfType(s, "DMA")) = 0
             /\ Cardinality(OfType(s, "L2Cache")) = o.num_l2caches
             /\ \A i \in 0 .. o.num_cpus - 1 : \E c \in Range(s) :
                  /\ Range(c.seqs) = {i} /\ c.type = "L0Cache"
                  /\ c.cluster = i \div CpusPerCluster(o)
             /\ \A c \in Range(s) :
                  \/ c.type = "L0Cache" /\ c.l2_select = None
                  \/ /\ c.type = "L1Cache" /\ c.l2_select = L2Bits(o)
                     /\ \E i \in 0 .. o.num_cpus - 1 : c.cluster = i \div CpusPerCluster(o)
                  \/ /\ c.type = "L2Cache" /\ c.l2_select = None
                     /\ c.cluster = c.version \div L2sPerCluster(o)
<1> DEFINE n  == o.num_cpus
           m  == o.num_l2caches
           of(i) == i \div CpusPerCluster(o)
           L0 == [k \in 1 .. n |-> [OfCpu("L0Cache", k - 1) EXCEPT !.clock = of(k - 1),
                                                                   !.cluster = of(k - 1)]]
           L1 == [k \in 1 .. n |-> [Cntrl("L1Cache", k - 1) EXCEPT !.cluster = of(k - 1),
                                                                   !.l2_select = L2Bits(o)]]
           L2 == [k \in 1 .. m |-> [Cntrl("L2Cache", k - 1) EXCEPT
                                      !.cluster = (k - 1) \div L2sPerCluster(o)]]
<1>1. n \in Nat /\ m \in Nat
  BY DEF Clustered, Typed
<1>2. ThreeLevels(o) = L0 \o L1 \o L2
  BY DEF ThreeLevels, Each
<1> HIDE DEF n, m, of
<1>3. /\ DOMAIN L0 = 1 .. n /\ L0 = [k \in 1 .. n |-> L0[k]]
      /\ DOMAIN L1 = 1 .. n /\ L1 = [k \in 1 .. n |-> L1[k]]
      /\ DOMAIN L2 = 1 .. m /\ L2 = [k \in 1 .. m |-> L2[k]]
  OBVIOUS
<1>4. \A k \in 1 .. n :
        /\ L0[k].type = "L0Cache" /\ L0[k].version = k - 1 /\ L0[k].seqs = <<k - 1>>
        /\ L0[k].cluster = of(k - 1) /\ L0[k].l2_select = None
  BY DEF OfCpu, Cntrl
<1>5. \A k \in 1 .. n :
        /\ L1[k].type = "L1Cache" /\ L1[k].version = k - 1 /\ L1[k].seqs = <<>>
        /\ L1[k].cluster = of(k - 1) /\ L1[k].l2_select = L2Bits(o)
  BY DEF Cntrl
<1>6. \A k \in 1 .. m :
        /\ L2[k].type = "L2Cache" /\ L2[k].version = k - 1 /\ L2[k].seqs = <<>>
        /\ L2[k].cluster = (k - 1) \div L2sPerCluster(o) /\ L2[k].l2_select = None
  BY DEF Cntrl
<1> HIDE DEF L0, L1, L2
<1>7. /\ Sequence(L0) /\ Len(L0) = n /\ Sequence(L1) /\ Len(L1) = n
      /\ Sequence(L2) /\ Len(L2) = m
  BY <1>1, <1>3, SequenceOf
<1>8. Front(L0, n, "L0Cache")
  BY <1>4, <1>7, RangeOfOne DEF Front
<1>9. Quiet(L1, "L1Cache") /\ Quiet(L2, "L2Cache")
  BY <1>5, <1>6, <1>7 DEF Quiet
<1>10. /\ Made(L0) /\ \A t : t # "L0Cache" => Cardinality(OfType(L0, t)) = 0
       /\ Cardinality(Sequencers(L0)) = n
  BY <1>1, <1>8, FrontBlock
<1> DEFINE s1 == L0 \o L1
<1>11. /\ Made(s1)
       /\ \A t : t # "L1Cache" => Cardinality(OfType(s1, t)) = Cardinality(OfType(L0, t))
       /\ Cardinality(Sequencers(s1)) = Cardinality(Sequencers(L0))
       /\ Range(s1) = Range(L0) \cup Range(L1)
  BY <1>9, <1>10, AddQuiet
<1> HIDE DEF s1
<1>12. /\ Made(s1 \o L2)
       /\ Cardinality(OfType(s1 \o L2, "L2Cache")) = Len(L2)
       /\ \A t : t # "L2Cache" => Cardinality(OfType(s1 \o L2, t)) = Cardinality(OfType(s1, t))
       /\ Cardinality(Sequencers(s1 \o L2)) = Cardinality(Sequencers(s1))
       /\ Range(s1 \o L2) = Range(s1) \cup Range(L2)
  BY <1>9, <1>10, <1>11, AddQuiet
<1> DEFINE s == s1 \o L2
<1>13. s = ThreeLevels(o)
  BY <1>2 DEF s1
<1>14. Range(s) = Range(L0) \cup Range(L1) \cup Range(L2)
  BY <1>11, <1>12
<1>15. ASSUME NEW i \in 0 .. n - 1
       PROVE  \E c \in Range(s) :
                Range(c.seqs) = {i} /\ c.type = "L0Cache" /\ c.cluster = of(i)
  <2>1. i + 1 \in 1 .. n /\ (i + 1) - 1 = i
    BY <1>1
  <2>2. L0[i + 1] \in Range(s)
    BY <1>7, <1>14, <2>1, SequenceFacts
  <2> QED
    BY <1>4, <2>1, <2>2, RangeOfOne
<1>16. ASSUME NEW c \in Range(s)
       PROVE  \/ c.type = "L0Cache" /\ c.l2_select = None
              \/ /\ c.type = "L1Cache" /\ c.l2_select = L2Bits(o)
                 /\ \E i \in 0 .. n - 1 : c.cluster = of(i)
              \/ /\ c.type = "L2Cache" /\ c.l2_select = None
                 /\ c.cluster = c.version \div L2sPerCluster(o)
  <2>1. CASE c \in Range(L0)
    BY <1>4, <1>7, <2>1, SequenceFacts
  <2>2. CASE c \in Range(L1)
    <3>1. PICK k \in 1 .. n : c = L1[k]
      BY <1>7, <2>2, SequenceFacts
    <3>2. k - 1 \in 0 .. n - 1
      BY <1>1
    <3> QED
      BY <1>5, <3>1, <3>2
  <2>3. CASE c \in Range(L2)
    <3>1. PICK k \in 1 .. m : c = L2[k]
      BY <1>7, <2>3, SequenceFacts
    <3>2. /\ c.type = "L2Cache" /\ c.version = k - 1 /\ c.l2_select = None
          /\ c.cluster = (k - 1) \div L2sPerCluster(o)
      BY <1>6, <3>1
    <3> QED
      BY <3>2
  <2> QED
    BY <1>14, <2>1, <2>2, <2>3
<1>17. /\ Made(s) /\ Cardinality(Sequencers(s)) = n
       /\ Cardinality(OfType(s, "Directory")) = 0 /\ Cardinality(OfType(s, "DMA")) = 0
       /\ Cardinality(OfType(s, "L2Cache")) = m
  BY <1>7, <1>10, <1>11, <1>12
<1> HIDE DEF s
<1> QED
  BY <1>13, <1>15, <1>16, <1>17 DEF n, m, of

\* The numbers of a cluster's members: b for each cluster.
LEMMA ClusterMembers ==
  ASSUME NEW b \in Nat \ {0}, NEW v \in Nat, NEW c \in Nat
  PROVE  /\ c * b \in Nat
         /\ v \div b = c <=> v \in c * b .. c * b + b - 1
<1> DEFINE q == v \div b
<1>1. q \in Nat /\ v % b \in 0 .. b - 1 /\ v = (v % b) + q * b
  BY Division
<1>2. c * b \in Nat
  BY SMT
<1>3. ASSUME v \in c * b .. c * b + b - 1 PROVE q = c
  <2> DEFINE r == v - c * b
  <2>1. r \in 0 .. b - 1 /\ v = r + c * b
    BY <1>2, <1>3
  <2> HIDE DEF r
  <2> QED
    BY <2>1, DivisionUnique
<1>4. q = c => v \in c * b .. c * b + b - 1
  BY <1>1, <1>2
<1> QED
  BY <1>2, <1>3, <1>4

\* The banks of the CPUs' clusters, selected by the bits of their number.
LEMMA ClusterBanks ==
  ASSUME NEW s, NEW B \in Nat \ {0}, NEW n \in Nat, Made(s),
         Cardinality(OfType(s, "L2Cache")) = n * B,
         \A c \in Range(s) : c.l2_select # None => c.cluster \in 0 .. n - 1 /\ c.l2_select = Log2(B),
         \A c \in Range(s) : c.type = "L2Cache" => c.cluster = c.version \div B,
         \A c \in Range(s) : c.type # "TCC"
  PROVE  BanksFill(s)
<1> SUFFICES ASSUME NEW c \in Range(s), c.l2_select # None
             PROVE  LET banks    == {b \in Range(s) : b.type \in {"L2Cache", "TCC"}
                                                      /\ b.cluster = c.cluster}
                        selected == {(c.cluster * 2^c.l2_select) + v :
                                       v \in 0 .. (2^c.l2_select) - 1}
                    IN  IsPowerOfTwo(Cardinality(banks)) => selected = {b.version : b \in banks}
  BY DEF BanksFill
<1> DEFINE banks == {b \in Range(s) : b.type \in {"L2Cache", "TCC"} /\ b.cluster = c.cluster}
           i == c.cluster
           a == i * B
           z == 0
<1>1. i \in 0 .. n - 1 /\ i \in Nat /\ c.l2_select = Log2(B)
  OBVIOUS
<1>2. n * B \in Nat /\ z \in Nat
  BY SMT
<1>3. Sequence(s) /\ Counts(s, "L2Cache", z, n * B)
  BY DEF Made
<1> HIDE DEF z
<1>4. /\ \A b \in Range(s) : b.type = "L2Cache" => b.version \in z .. z + n * B - 1
      /\ \A v \in z .. z + n * B - 1 : \E b \in Range(s) : b.type = "L2Cache" /\ b.version = v
      /\ \A b, d \in Range(s) :
           b.type = "L2Cache" /\ d.type = "L2Cache" /\ b.version = d.version => b = d
  BY <1>3, VersionsOfType
<1>5. \A b \in Range(s) : b.type = "L2Cache" => b.version \in 0 .. n * B - 1
  BY <1>2, <1>4 DEF z
<1>6. \A v \in 0 .. n * B - 1 : \E b \in Range(s) : b.type = "L2Cache" /\ b.version = v
  BY <1>2, <1>4 DEF z
<1>7. \A b \in banks : b \in Range(s) /\ b.type = "L2Cache" /\ b.version \div B = i
  OBVIOUS
<1>8. \A b \in Range(s) : b.type = "L2Cache" /\ b.version \div B = i => b \in banks
  OBVIOUS
<1> HIDE DEF banks, i
<1>9. a \in Nat /\ \A v \in Nat : v \div B = i <=> v \in a .. a + B - 1
  BY <1>1, ClusterMembers
<1>10. a + B <= n * B
  BY <1>1, Product
<1>11. \A b \in banks : b.version \in a .. a + B - 1
  BY <1>2, <1>5, <1>7, <1>9
<1>12. \A v \in a .. a + B - 1 : \E b \in banks : b.version = v
  <2> TAKE v \in a .. a + B - 1
  <2>1. v \in Nat /\ v \in 0 .. n * B - 1 /\ v \div B = i
    <3>1. v \in Nat /\ v <= a + B - 1 /\ a + B \in Int
      <4> HIDE DEF a
      <4> QED
        BY <1>9
    <3>2. v \div B = i
      BY <1>9, <3>1
    <3> HIDE DEF a
    <3>3. v <= n * B - 1
      BY <1>2, <1>9, <1>10, <3>1
    <3> QED
      BY <1>2, <3>1, <3>2, <3>3
  <2> QED
    BY <1>6, <1>8, <2>1
<1>13. \A b, d \in banks : b.version = d.version => b = d
  BY <1>4, <1>7
<1>14. Cardinality(banks) = B
  <2> HIDE DEF a
  <2> QED
    BY <1>9, <1>11, <1>12, <1>13, BankVersions
<1>15. {b.version : b \in banks} = a .. a + B - 1
  BY <1>11, <1>12
<1>16. ASSUME IsPowerOfTwo(B)
       PROVE  {(i * 2^c.l2_select) + v : v \in 0 .. (2^c.l2_select) - 1} = a .. a + B - 1
  <2>1. 2^c.l2_select = B
    BY <1>1, <1>16, PowerOfTwo
  <2>2. \A v \in 0 .. B - 1 : a + v \in a .. a + B - 1
    BY <1>9
  <2>3. \A v \in a .. a + B - 1 : v - a \in 0 .. B - 1 /\ a + (v - a) = v
    BY <1>9
  <2>4. {a + v : v \in 0 .. B - 1} = a .. a + B - 1
    <3> HIDE DEF a
    <3> QED
      BY <2>2, <2>3
  <2> QED
    BY <2>1, <2>4
<1> QED
  BY <1>14, <1>15, <1>16 DEF banks, i

LEMMA ThreeLevelSystem ==
  ASSUME NEW o, Clustered(o)
  PROVE  LET s == ThreeLevelCntrls(o)
         IN  /\ OwnSequencers(s, o.num_cpus, "L0Cache") /\ BanksFill(s)
             /\ \A i \in 0 .. o.num_cpus - 1 : \E c \in Range(s) :
                  /\ Range(c.seqs) = {i} /\ c.type = "L0Cache"
                  /\ c.cluster = i \div CpusPerCluster(o)
<1> DEFINE f == ThreeLevels(o)
           n == o.num_cpus
           B == L2sPerCluster(o)
           P == CpusPerCluster(o)
           s == f \o Directories(o) \o DMAs(o)
<1>1. ThreeLevelCntrls(o) = s
  BY DEF ThreeLevelCntrls, ThreeLevels
<1>2. /\ Made(f) /\ Cardinality(Sequencers(f)) = n
      /\ Cardinality(OfType(f, "Directory")) = 0 /\ Cardinality(OfType(f, "DMA")) = 0
      /\ Cardinality(OfType(f, "L2Cache")) = o.num_l2caches
      /\ \A i \in 0 .. n - 1 : \E c \in Range(f) :
           Range(c.seqs) = {i} /\ c.type = "L0Cache" /\ c.cluster = i \div P
      /\ \A c \in Range(f) :
           \/ c.type = "L0Cache" /\ c.l2_select = None
           \/ /\ c.type = "L1Cache" /\ c.l2_select = L2Bits(o)
              /\ \E i \in 0 .. n - 1 : c.cluster = i \div P
           \/ /\ c.type = "L2Cache" /\ c.l2_select = None
              /\ c.cluster = c.version \div B
  BY ThreeLevelsMade
<1>3. /\ P \in Nat \ {0} /\ n = o.num_clusters * P /\ B \in Nat \ {0}
      /\ o.num_l2caches = o.num_clusters * B
  BY ClusterSizes
<1>4. o.num_clusters \in Nat /\ L2Bits(o) = Log2(B) /\ Typed(o)
  BY DEF Clustered, Typed, L2Bits
<1> HIDE DEF f, n, B, P
<1>5. /\ Made(s) /\ Cardinality(Sequencers(s)) = Cardinality(Sequencers(f))
      /\ \A t : t \notin {"Directory", "DMA"} =>
           Cardinality(OfType(s, t)) = Cardinality(OfType(f, t))
      /\ \A c \in Range(f) : c \in Range(s)
      /\ \A c \in Range(s) : c \in Range(f) \/ Plain(c, "Directory") \/ Plain(c, "DMA")
  BY <1>2, <1>4, AddBoth
<1> HIDE DEF s
<1>6. \A i \in 0 .. n - 1 : \E c \in Range(s) :
        Range(c.seqs) = {i} /\ c.type = "L0Cache" /\ c.cluster = i \div P
  BY <1>2, <1>5
<1>7. OwnSequencers(s, n, "L0Cache")
  BY <1>2, <1>5, <1>6 DEF OwnSequencers
<1>8. \A i \in 0 .. n - 1 : i \div P \in 0 .. o.num_clusters - 1
  BY <1>3, <1>4, Cells
<1>9. \A c \in Range(s) : c.l2_select # None =>
        c.cluster \in 0 .. o.num_clusters - 1 /\ c.l2_select = Log2(B)
  BY <1>2, <1>4, <1>5, <1>8 DEF Plain
<1>10. \A c \in Range(s) : c.type = "L2Cache" => c.cluster = c.version \div B
  BY <1>2, <1>5 DEF Plain
<1>11. \A c \in Range(s) : c.type # "TCC"
  BY <1>2, <1>5 DEF Plain
<1>12. Cardinality(OfType(s, "L2Cache")) = o.num_clusters * B
  BY <1>2, <1>3, <1>5
<1>13. BanksFill(s)
  BY <1>3, <1>4, <1>5, <1>9, <1>10, <1>11, <1>12, ClusterBanks
<1> QED
  BY <1>1, <1>6, <1>7, <1>13 DEF n, P

-----------------------------------------------------------------------------
(* CHI: the controllers of the caches, in the order they are created.      *)

RNIs(o) == o.dmas + (IF o.full_system THEN 1 ELSE 0)
Memories(o) == o.num_dirs + (IF o.rom THEN 1 ELSE 0)

\* The L1s of n CPUs, two each.
ClockedL1s(b, n) ==
  /\ Front(b, 2 * n, "Cache")
  /\ \A k \in 1 .. 2 * n :
       /\ b[k].clock = (k - 1) \div 2 /\ b[k].cluster = 0
       /\ b[k].l2_select = None /\ b[k].downstream = {}
       /\ Sequence(b[k].seqs) /\ Len(b[k].seqs) = 1
       /\ DOMAIN b[k] = CntrlFields

LEMMA L1sOfMade ==
  ASSUME NEW o, Typed(o)
  PROVE  ClockedL1s(L1sOf(o), o.num_cpus)
<1> DEFINE n == 2 * o.num_cpus
           b == Created(<<>>, n, "Cache", 1)
           c == [k \in DOMAIN b |-> [b[k] EXCEPT !.clock = (k - 1) \div 2]]
           e == <<>>
<1>1. n \in Nat
  BY DEF Typed
<1>2. L1sOf(o) = c
  BY DEF L1sOf
<1> HIDE DEF n
<1>3. Cardinality(OfType(e, "Cache")) = 0 /\ Cardinality(Sequencers(e)) = 0
  BY NothingMade
<1>4. CreatedAs(b, n, "Cache", 0, 0, 1)
  <2> HIDE DEF e
  <2>1. CreatedAs(Created(e, n, "Cache", 1), n, "Cache", Cardinality(OfType(e, "Cache")),
                  Cardinality(Sequencers(e)), 1)
    BY <1>1, <1>3, CreatedBlock
  <2> QED
    BY <1>3, <2>1 DEF e
<1>5. b = [k \in 1 .. n |-> [Cntrl("Cache", Cardinality(OfType(e, "Cache")) + (k - 1)) EXCEPT
             !.seqs = Each(1, LAMBDA s : Cardinality(Sequencers(e)) + ((k - 1) * 1) + s)]]
  BY DEF Created, Each
<1> HIDE DEF b, e
<1>6. Sequence(b) /\ Len(b) = n /\ DOMAIN b = 1 .. n
  BY <1>4, SequenceFacts DEF Block, CreatedAs
<1>7. \A k \in 1 .. n :
        /\ b[k].type = "Cache" /\ b[k].version = k - 1 /\ Range(b[k].seqs) = {k - 1}
        /\ b[k].cluster = 0 /\ b[k].l2_select = None /\ b[k].downstream = {}
        /\ Sequence(b[k].seqs) /\ Len(b[k].seqs) = 1
  <2> TAKE k \in 1 .. n
  <2>1. b[k].type = "Cache" /\ b[k].version = 0 + (k - 1)
        /\ Range(b[k].seqs) = 0 + (k - 1) * 1 .. 0 + (k - 1) * 1 + 1 - 1
    BY <1>4 DEF Block, CreatedAs
  <2>2. 0 + (k - 1) * 1 .. 0 + (k - 1) * 1 + 1 - 1 = {k - 1}
    OBVIOUS
  <2> QED
    BY <1>4, <2>1, <2>2 DEF CreatedAs
<1>8. \A k \in 1 .. n :
        /\ c[k].type = b[k].type /\ c[k].version = b[k].version /\ c[k].seqs = b[k].seqs
        /\ c[k].l2_select = b[k].l2_select /\ c[k].cluster = b[k].cluster
        /\ c[k].downstream = b[k].downstream /\ c[k].clock = (k - 1) \div 2
        /\ DOMAIN c[k] = CntrlFields
  BY <1>5, <1>6 DEF Cntrl, CntrlFields
<1>9. DOMAIN c = 1 .. n /\ c = [k \in 1 .. n |-> c[k]]
  BY <1>6
<1> HIDE DEF c
<1>10. Sequence(c) /\ Len(c) = n
  BY <1>1, <1>9, SequenceOf
<1>11. ClockedL1s(c, o.num_cpus)
  BY <1>7, <1>8, <1>10 DEF ClockedL1s, Front, n
<1> QED
  BY <1>2, <1>11

\* Those that come after them.
LEMMA CHICaches ==
  ASSUME NEW o, Typed(o)
  PROVE  LET n == o.num_cpus
             h == o.num_l3caches
         IN  /\ CreatedAs(L2sOf(o), n, "Cache", 2 * n, 2 * n, 0)
             /\ CreatedAs(HNFsOf(o), h, "Cache", 3 * n, 2 * n, 0)
             /\ CreatedAs(RNIsOf(o), RNIs(o), "Cache", 3 * n + h, 2 * n, 1)
             /\ CreatedAs(Memory_Controllers(o), Memories(o), "Memory", 0, 0, 0)
<1> DEFINE n == o.num_cpus
           h == o.num_l3caches
           r == RNIs(o)
           L1 == L1sOf(o)
           L2 == L2sOf(o)
           L3 == HNFsOf(o)
           e == <<>>
<1>1. n \in Nat /\ h \in Nat /\ r \in Nat /\ Memories(o) \in Nat /\ 2 * n \in Nat
  BY DEF Typed, RNIs, Memories
<1>2. /\ L2 = Created(L1, n, "Cache", 0)
      /\ L3 = Created(L1 \o L2, h, "Cache", 0)
      /\ RNIsOf(o) = Created(L1 \o L2 \o L3, r, "Cache", 1)
  BY DEF L2sOf, HNFsOf, RNIsOf, RNIs
<1>3. Memory_Controllers(o) = Created(e, Memories(o), "Memory", 0)
  BY DEF Memory_Controllers, Memories
<1>4. Front(L1, 2 * n, "Cache")
  BY L1sOfMade DEF ClockedL1s
<1> HIDE DEF n, h, r, L1, L2, L3, e
<1> DEFINE m == 2 * n
<1>5. /\ Made(L1) /\ Cardinality(OfType(L1, "Cache")) = m
      /\ Cardinality(Sequencers(L1)) = m /\ m \in Nat
  <2> HIDE DEF m
  <2> QED
    BY <1>1, <1>4, FrontBlock DEF m
<1> HIDE DEF m
<1>6. CreatedAs(L2, n, "Cache", m, m, 0)
  BY <1>1, <1>2, <1>5, CreatedBlock
<1> DEFINE s2 == L1 \o L2
<1>7. Made(s2) /\ Cardinality(OfType(s2, "Cache")) = m + n /\ Cardinality(Sequencers(s2)) = m
  <2>1. Block(L2, n, "Cache", Cardinality(OfType(L1, "Cache")), Cardinality(Sequencers(L1)), 0)
    BY <1>5, <1>6 DEF CreatedAs
  <2>2. /\ Made(s2) /\ Cardinality(OfType(s2, "Cache")) = Cardinality(OfType(L1, "Cache")) + n
        /\ Cardinality(Sequencers(s2)) = Cardinality(Sequencers(L1)) + n * 0
    BY <1>1, <1>5, <2>1, MadeBlock
  <2> HIDE DEF s2
  <2> QED
    BY <1>1, <1>5, <2>2
<1> DEFINE p == m + n
<1>8. p \in Nat
  BY <1>1, <1>5
<1> HIDE DEF s2, p
<1>9. CreatedAs(L3, h, "Cache", p, m, 0)
  <2>1. L3 = Created(s2, h, "Cache", 0) /\ Cardinality(OfType(s2, "Cache")) = p
    BY <1>2, <1>7 DEF s2, p
  <2> QED
    BY <1>1, <1>5, <1>7, <1>8, <2>1, CreatedBlock
<1> DEFINE s3 == s2 \o L3
<1>10. Cardinality(OfType(s3, "Cache")) = p + h /\ Cardinality(Sequencers(s3)) = m
  <2>1. Block(L3, h, "Cache", Cardinality(OfType(s2, "Cache")), Cardinality(Sequencers(s2)), 0)
    BY <1>7, <1>9 DEF CreatedAs, p
  <2>2. /\ Cardinality(OfType(s3, "Cache")) = Cardinality(OfType(s2, "Cache")) + h
        /\ Cardinality(Sequencers(s3)) = Cardinality(Sequencers(s2)) + h * 0
    BY <1>1, <1>7, <2>1, MadeBlock
  <2> HIDE DEF s3
  <2> QED
    BY <1>1, <1>5, <1>7, <2>2 DEF p
<1> HIDE DEF s3
<1>11. CreatedAs(RNIsOf(o), r, "Cache", p + h, m, 1)
  <2>1. RNIsOf(o) = Created(s3, r, "Cache", 1)
    BY <1>2 DEF s2, s3
  <2>2. p + h \in Nat
    BY <1>1, <1>8
  <2>3. Cardinality(OfType(s3, "Cache")) \in Nat /\ Cardinality(Sequencers(s3)) \in Nat
    BY <1>5, <1>10, <2>2
  <2>4. CreatedAs(RNIsOf(o), r, "Cache", Cardinality(OfType(s3, "Cache")),
                  Cardinality(Sequencers(s3)), 1)
    BY <1>1, <2>1, <2>3, CreatedBlock
  <2> QED
    BY <1>10, <2>4
<1>12. CreatedAs(Memory_Controllers(o), Memories(o), "Memory", 0, 0, 0)
  <2>1. Cardinality(OfType(e, "Memory")) = 0 /\ Cardinality(Sequencers(e)) = 0
    BY NothingMade DEF e
  <2>2. CreatedAs(Memory_Controllers(o), Memories(o), "Memory",
                  Cardinality(OfType(e, "Memory")), Cardinality(Sequencers(e)), 0)
    BY <1>1, <1>3, <2>1, CreatedBlock
  <2> QED
    BY <2>1, <2>2
<1>13. p = 3 * n /\ m = 2 * n
  BY <1>1 DEF p, m
<1> QED
  BY <1>6, <1>9, <1>11, <1>12, <1>13 DEF n, h, r, L2, L3

\* A request node's controllers: two L1s with a sequencer each, and an L2.
RequestL1(c, o, i, j) ==
  /\ c.type = "Cache" /\ c.version = j + i * 2 /\ Range(c.seqs) = {j + i * 2}
  /\ c.seqs # <<>> /\ c.clock = i /\ c.l2_select = None
  /\ c.downstream = Names(PrivateL2s(o, L1sOf(o)[2 * i + (j + 1)]))

RequestL2(c, o, i) ==
  /\ c.type = "Cache" /\ c.version = 2 * o.num_cpus + i /\ c.seqs = <<>>
  /\ c.clock = None /\ c.l2_select = None
  /\ c.downstream = Names(Range(HNFsOf(o)))

RequestPart(b, o) ==
  LET n == o.num_cpus
  IN  /\ Sequence(b) /\ Len(b) = n * 3
      /\ \A i \in 0 .. n - 1 :
           /\ \A j \in 0 .. 1 : RequestL1(b[(j + i * 3) + 1], o, i, j)
           /\ RequestL2(b[(2 + i * 3) + 1], o, i)
      /\ \A k \in 1 .. n * 3 : \E i \in 0 .. n - 1, j \in 0 .. 2 : k = (j + i * 3) + 1

LEMMA NoSequencers ==
  ASSUME NEW s, Sequence(s), Len(s) = 0
  PROVE  s = <<>>
BY EmptySeq DEF Sequence

LEMMA ToFacts ==
  ASSUME NEW c, NEW S, DOMAIN c = CntrlFields
  PROVE  /\ To(c, S).type = c.type /\ To(c, S).version = c.version /\ To(c, S).seqs = c.seqs
         /\ To(c, S).clock = c.clock /\ To(c, S).l2_select = c.l2_select
         /\ To(c, S).downstream = Names(Range(S))
BY DEF To, CntrlFields

LEMMA RequestNodes ==
  ASSUME NEW o, Typed(o)
  PROVE  RequestPart(EachOf(o.num_cpus, 3, LAMBDA i, j : CHI_RNF(o, i).cntrls[j + 1]), o)
<1> DEFINE n == o.num_cpus
           b == [k \in 1 .. n * 3 |-> CHI_RNF(o, (k - 1) \div 3).cntrls[((k - 1) % 3) + 1]]
           of(i, j) == CHI_RNF(o, i).cntrls[j + 1]
           L1(i, k) == [L1sOf(o)[2 * i + k] EXCEPT
                          !.downstream = Names(PrivateL2s(o, L1sOf(o)[2 * i + k]))]
<1>1. n \in Nat
  BY DEF Typed
<1>2. EachOf(o.num_cpus, 3, LAMBDA i, j : CHI_RNF(o, i).cntrls[j + 1]) = b
  BY DEF EachOf
<1>3. n * 3 \in Nat
  BY <1>1
<1>4. DOMAIN b = 1 .. n * 3 /\ b = [k \in 1 .. n * 3 |-> b[k]]
  OBVIOUS
<1>5. Sequence(b) /\ Len(b) = n * 3
  <2> HIDE DEF b, n
  <2> QED
    BY <1>3, <1>4, SequenceOf
<1>6. ASSUME NEW i \in 0 .. n - 1, NEW j \in 0 .. 2
      PROVE  (j + i * 3) + 1 \in 1 .. n * 3 /\ b[(j + i * 3) + 1] = of(i, j)
  <2> DEFINE a == j + i * 3
  <2>1. a \in 0 .. n * 3 - 1
    BY <1>1
  <2>2. a % 3 = j /\ a \div 3 = i
    BY <1>1
  <2> HIDE DEF a
  <2>3. a + 1 \in 1 .. n * 3 /\ (a + 1) - 1 = a
    BY <1>1, <2>1
  <2> QED
    BY <2>2, <2>3 DEF a
<1>7. ASSUME NEW k \in 1 .. n * 3
      PROVE  \E i \in 0 .. n - 1, j \in 0 .. 2 : k = (j + i * 3) + 1
  <2>1. (k - 1) \div 3 \in 0 .. n - 1 /\ (k - 1) % 3 \in 0 .. 2
        /\ k = (((k - 1) % 3) + ((k - 1) \div 3) * 3) + 1
    BY <1>1
  <2> QED
    BY <2>1
<1>8. \A i : /\ of(i, 0) = L1(i, 1) /\ of(i, 1) = L1(i, 2)
             /\ of(i, 2) = To(L2sOf(o)[i + 1], HNFsOf(o))
  BY DEF CHI_RNF, Node
<1> HIDE DEF b, of
<1>9. ASSUME NEW i \in 0 .. n - 1, NEW j \in 0 .. 1
      PROVE  RequestL1(b[(j + i * 3) + 1], o, i, j)
  <2> DEFINE k == 2 * i + (j + 1)
             c == L1sOf(o)[k]
  <2>1. k \in 1 .. 2 * n /\ k - 1 = j + i * 2 /\ (k - 1) \div 2 = i
    BY <1>1
  <2>2. /\ c.type = "Cache" /\ c.version = j + i * 2 /\ Range(c.seqs) = {j + i * 2}
        /\ c.clock = i /\ c.l2_select = None /\ DOMAIN c = CntrlFields
        /\ Sequence(c.seqs) /\ Len(c.seqs) = 1
    <3> HIDE DEF k
    <3> QED
      BY <2>1, L1sOfMade DEF ClockedL1s, Front
  <2>3. c.seqs # <<>>
    BY <2>2, NoneInRange
  <2>4. of(i, j) = L1(i, j + 1)
    BY <1>8
  <2>5. of(i, j) = [c EXCEPT !.downstream = Names(PrivateL2s(o, c))]
    BY <2>4
  <2>6. b[(j + i * 3) + 1] = of(i, j)
    BY <1>6
  <2> DEFINE N == Names(PrivateL2s(o, c))
             d == b[(j + i * 3) + 1]
  <2>7. d = [c EXCEPT !.downstream = N]
    BY <2>5, <2>6
  <2>8. N = Names(PrivateL2s(o, L1sOf(o)[2 * i + (j + 1)]))
    OBVIOUS
  <2> HIDE DEF c, N, d
  <2>9. /\ d.type = "Cache" /\ d.version = j + i * 2 /\ Range(d.seqs) = {j + i * 2}
        /\ d.seqs # <<>> /\ d.clock = i /\ d.l2_select = None /\ d.downstream = N
    BY <2>2, <2>3, <2>7 DEF CntrlFields
  <2> QED
    BY <2>8, <2>9 DEF RequestL1, d
<1>10. ASSUME NEW i \in 0 .. n - 1
       PROVE  RequestL2(b[(2 + i * 3) + 1], o, i)
  <2> DEFINE c == L2sOf(o)[i + 1]
             d == b[(2 + i * 3) + 1]
  <2>1. i + 1 \in 1 .. n /\ (i + 1) - 1 = i
    BY <1>1
  <2>2. /\ c.type = "Cache" /\ c.version = 2 * n + i /\ c.clock = None /\ c.l2_select = None
        /\ Sequence(c.seqs) /\ Len(c.seqs) = 0 /\ DOMAIN c = CntrlFields
    BY <2>1, CHICaches DEF CreatedAs, Block
  <2>3. d = To(c, HNFsOf(o))
    BY <1>6, <1>8
  <2> HIDE DEF c, d
  <2>4. c.seqs = <<>>
    BY <2>2, NoSequencers
  <2>5. /\ d.type = "Cache" /\ d.version = 2 * n + i /\ d.seqs = <<>> /\ d.clock = None
        /\ d.l2_select = None /\ d.downstream = Names(Range(HNFsOf(o)))
    BY <2>2, <2>3, <2>4, ToFacts
  <2> QED
    BY <2>5 DEF RequestL2, d, n
<1>11. RequestPart(b, o)
  BY <1>5, <1>7, <1>9, <1>10 DEF RequestPart, n
<1> QED
  BY <1>2, <1>11

LEMMA RequestMade ==
  ASSUME NEW o, Typed(o), NEW b, RequestPart(b, o)
  PROVE  LET n == o.num_cpus
         IN  /\ Made(b)
             /\ Cardinality(OfType(b, "Cache")) = 3 * n
             /\ \A t : t # "Cache" => Cardinality(OfType(b, t)) = 0
             /\ Cardinality(Sequencers(b)) = 2 * n
<1> DEFINE n == o.num_cpus
           at(i, j) == (j + i * 3) + 1
           version(i, j) == IF j = 2 THEN 2 * n + i ELSE j + i * 2
           z == 0
<1>1. n \in Nat
  BY DEF Typed
<1>2. DOMAIN b = 1 .. n * 3 /\ Sequence(b)
  BY SequenceFacts DEF RequestPart
<1>3. \A k \in DOMAIN b : \E i \in 0 .. n - 1, j \in 0 .. 2 : k = at(i, j)
  BY <1>2 DEF RequestPart
<1>4. \A i \in 0 .. n - 1, j \in 0 .. 2 : at(i, j) \in DOMAIN b
  <2> TAKE i \in 0 .. n - 1, j \in 0 .. 2
  <2> QED
    BY <1>1, <1>2
<1>5. ASSUME NEW i \in 0 .. n - 1, NEW j \in 0 .. 2
      PROVE  /\ b[at(i, j)].type = "Cache" /\ b[at(i, j)].version = version(i, j)
             /\ Range(b[at(i, j)].seqs) = IF j = 2 THEN {} ELSE {version(i, j)}
  <2>1. CASE j = 2
    <3>1. RequestL2(b[at(i, j)], o, i)
      BY <2>1 DEF RequestPart
    <3> QED
      BY <2>1, <3>1, NoneInRange DEF RequestL2
  <2>2. CASE j # 2
    <3>1. j \in 0 .. 1
      BY <2>2
    <3>2. RequestL1(b[at(i, j)], o, i, j)
      BY <3>1 DEF RequestPart
    <3> QED
      BY <2>2, <3>2 DEF RequestL1
  <2> QED
    BY <2>1, <2>2
<1> HIDE DEF at, n
<1>6. \A i \in 0 .. n - 1, j \in 0 .. 2 : version(i, j) \in 0 .. 3 * n - 1
  BY <1>1
<1>7. \A v \in 0 .. 3 * n - 1 : \E i \in 0 .. n - 1, j \in 0 .. 2 : v = version(i, j)
  <2> TAKE v \in 0 .. 3 * n - 1
  <2>1. CASE v < 2 * n
    <3>1. v \div 2 \in 0 .. n - 1 /\ v % 2 \in 0 .. 1 /\ v = (v % 2) + (v \div 2) * 2
      BY <1>1, <2>1
    <3>2. v = version(v \div 2, v % 2) /\ v % 2 \in 0 .. 2
      BY <3>1
    <3> QED
      BY <3>1, <3>2
  <2>2. CASE v >= 2 * n
    <3>1. v - 2 * n \in 0 .. n - 1 /\ v = version(v - 2 * n, 2)
      BY <1>1, <2>2
    <3> QED
      BY <3>1
  <2> QED
    BY <1>1, <2>1, <2>2
<1>8. \A i, g \in 0 .. n - 1, j, h \in 0 .. 2 :
        version(i, j) = version(g, h) => i = g /\ j = h
  BY <1>1
<1>9. \A x \in 0 .. 2 * n - 1 : \E i \in 0 .. n - 1, j \in 0 .. 1 : x = version(i, j)
  <2> TAKE x \in 0 .. 2 * n - 1
  <2>1. x \div 2 \in 0 .. n - 1 /\ x % 2 \in 0 .. 1 /\ x = (x % 2) + (x \div 2) * 2
    BY <1>1
  <2>2. x = version(x \div 2, x % 2)
    BY <2>1
  <2> QED
    BY <2>1, <2>2
<1>10. \A i \in 0 .. n - 1, j \in 0 .. 1 : version(i, j) \in 0 .. 2 * n - 1
  BY <1>1
<1> HIDE DEF version
<1>11. Counts(b, "Cache", 0, 3 * n)
  <2>1. \A k \in DOMAIN b : b[k].version \in 0 .. 3 * n - 1
    BY <1>3, <1>5, <1>6
  <2>2. \A v \in 0 .. 3 * n - 1 : \E k \in DOMAIN b : b[k].type = "Cache" /\ b[k].version = v
    BY <1>4, <1>5, <1>7
  <2>3. \A j, k \in DOMAIN b : b[j].version = b[k].version => j = k
    BY <1>3, <1>5, <1>8
  <2>4. 0 + 3 * n - 1 = 3 * n - 1
    BY <1>1
  <2> QED
    BY <2>1, <2>2, <2>3, <2>4 DEF Counts
<1>12. \A t : t # "Cache" => Counts(b, t, 0, 0)
  BY <1>3, <1>5 DEF Counts
<1>13. Owns(b, 0, 2 * n)
  <2>1. ASSUME NEW k \in DOMAIN b, NEW x \in Range(b[k].seqs)
        PROVE  \E i \in 0 .. n - 1, j \in 0 .. 1 : k = at(i, j) /\ x = version(i, j)
    <3>1. PICK i \in 0 .. n - 1, j \in 0 .. 2 : k = at(i, j)
      BY <1>3
    <3>2. j # 2 /\ x = version(i, j)
      BY <1>5, <2>1, <3>1
    <3>3. j \in 0 .. 1
      BY <3>2
    <3> QED
      BY <3>1, <3>2, <3>3
  <2>2. \A k \in DOMAIN b : \A x \in Range(b[k].seqs) : x \in 0 .. 2 * n - 1
    BY <1>10, <2>1
  <2>3. ASSUME NEW x \in 0 .. 2 * n - 1
        PROVE  \E k \in DOMAIN b : x \in Range(b[k].seqs)
    <3>1. PICK i \in 0 .. n - 1, j \in 0 .. 1 : x = version(i, j)
      BY <1>9
    <3>2. j \in 0 .. 2 /\ j # 2
      OBVIOUS
    <3> QED
      BY <1>4, <1>5, <3>1, <3>2
  <2>4. ASSUME NEW j \in DOMAIN b, NEW k \in DOMAIN b, NEW x \in Range(b[j].seqs),
               x \in Range(b[k].seqs)
        PROVE  j = k
    <3>1. PICK f \in 0 .. n - 1, g \in 0 .. 1 : j = at(f, g) /\ x = version(f, g)
      BY <2>1
    <3>2. PICK h \in 0 .. n - 1, i \in 0 .. 1 : k = at(h, i) /\ x = version(h, i)
      BY <2>1, <2>4
    <3>3. g \in 0 .. 2 /\ i \in 0 .. 2
      OBVIOUS
    <3>4. version(f, g) = version(h, i)
      BY <3>1, <3>2
    <3>5. f = h /\ g = i
      BY <1>8, <3>1, <3>2, <3>3, <3>4
    <3> QED
      BY <3>1, <3>2, <3>5
  <2>5. 0 + 2 * n - 1 = 2 * n - 1
    BY <1>1
  <2> QED
    BY <2>2, <2>3, <2>4, <2>5 DEF Owns
<1>14. Cardinality(OfType(b, "Cache")) = 3 * n /\ 3 * n \in Nat
  BY <1>1, <1>11, CountsCardinality
<1>15. \A t : t # "Cache" => Cardinality(OfType(b, t)) = 0
  BY <1>12, CountsCardinality
<1>16. Cardinality(Sequencers(b)) = 2 * n /\ 2 * n \in Nat
  BY <1>1, <1>13, OwnsCardinality
<1>17. /\ \A t : Counts(b, t, 0, Cardinality(OfType(b, t)))
       /\ \A t : Cardinality(OfType(b, t)) \in Nat
  BY <1>11, <1>12, <1>14, <1>15
<1>18. Made(b)
  BY <1>2, <1>13, <1>16, <1>17 DEF Made
<1> QED
  BY <1>14, <1>15, <1>16, <1>18 DEF n

HomeNode(c, o) ==
  /\ c.type = "Cache" /\ c.seqs = <<>> /\ c.l2_select = None
  /\ c.downstream = Names(Range(Memory_Controllers(o)))

MemoryNode(c, o) ==
  /\ c.type = "Memory" /\ c.seqs = <<>> /\ c.l2_select = None
  /\ Name(c) \in Names(Range(Memory_Controllers(o)))

IONode(c, o) ==
  /\ c.type = "Cache" /\ c.seqs # <<>> /\ c.clock = None /\ c.l2_select = None
  /\ c.downstream = Names(Range(HNFsOf(o)))

LEMMA HomeNodes ==
  ASSUME NEW o, Typed(o), NEW b,
         b = Each(o.num_l3caches, LAMBDA h : CHI_HNF(o, h).cntrls[1])
  PROVE  LET n == o.num_cpus
         IN  /\ Block(b, o.num_l3caches, "Cache", 3 * n, 2 * n, 0)
             /\ \A c \in Range(b) : HomeNode(c, o)
             /\ \A x \in Range(HNFsOf(o)) : \E c \in Range(b) : Name(c) = Name(x)
<1> DEFINE n == o.num_cpus
           h == o.num_l3caches
           x == HNFsOf(o)
<1>1. n \in Nat /\ h \in Nat
  BY DEF Typed
<1>2. b = [k \in 1 .. h |-> To(x[(k - 1) + 1], Memory_Controllers(o))]
  BY DEF Each, CHI_HNF, Node
<1>3. CreatedAs(x, h, "Cache", 3 * n, 2 * n, 0)
  BY CHICaches
<1> HIDE DEF n, h, x
<1>4. b = [k \in 1 .. h |-> To(x[k], Memory_Controllers(o))]
  <2>1. \A k \in 1 .. h : (k - 1) + 1 = k
    BY <1>1
  <2> QED
    BY <1>2, <2>1
<1>5. DOMAIN b = 1 .. h /\ b = [k \in 1 .. h |-> b[k]]
  BY <1>4
<1>6. Sequence(b) /\ Len(b) = h
  BY <1>1, <1>5, SequenceOf
<1>7. \A k \in 1 .. h :
        /\ x[k].type = "Cache" /\ x[k].version = 3 * n + (k - 1) /\ x[k].l2_select = None
        /\ Range(x[k].seqs) = 2 * n + (k - 1) * 0 .. 2 * n + (k - 1) * 0 + 0 - 1
        /\ Sequence(x[k].seqs) /\ Len(x[k].seqs) = 0 /\ DOMAIN x[k] = CntrlFields
  BY <1>3 DEF CreatedAs, Block
<1>8. \A k \in 1 .. h :
        /\ b[k].type = "Cache" /\ b[k].version = 3 * n + (k - 1) /\ b[k].l2_select = None
        /\ b[k].seqs = x[k].seqs /\ b[k].seqs = <<>>
        /\ b[k].downstream = Names(Range(Memory_Controllers(o)))
  <2> TAKE k \in 1 .. h
  <2>1. b[k] = To(x[k], Memory_Controllers(o))
    BY <1>4
  <2>2. x[k].seqs = <<>>
    BY <1>7, NoSequencers
  <2> QED
    BY <1>7, <2>1, <2>2, ToFacts
<1>9. Block(b, h, "Cache", 3 * n, 2 * n, 0)
  BY <1>6, <1>7, <1>8, Zenon DEF Block
<1>10. \A c \in Range(b) : HomeNode(c, o)
  <2> TAKE c \in Range(b)
  <2>1. PICK k \in 1 .. h : c = b[k]
    BY <1>6, SequenceFacts
  <2>2. /\ b[k].type = "Cache" /\ b[k].seqs = <<>> /\ b[k].l2_select = None
        /\ b[k].downstream = Names(Range(Memory_Controllers(o)))
    BY <1>8
  <2> QED
    BY <2>1, <2>2, Zenon DEF HomeNode
<1>11. ASSUME NEW y \in Range(x) PROVE \E c \in Range(b) : Name(c) = Name(y)
  <2>1. PICK k \in 1 .. h : y = x[k]
    BY <1>3, SequenceFacts DEF CreatedAs, Block
  <2>2. b[k] \in Range(b) /\ Name(b[k]) = Name(y)
    BY <1>6, <1>7, <1>8, <2>1, SequenceFacts DEF Name
  <2> QED
    BY <2>2
<1> QED
  BY <1>9, <1>10, <1>11 DEF n, h, x

LEMMA MemoryNodes ==
  ASSUME NEW o, Typed(o), NEW b,
         b = Each(Len(Memory_Controllers(o)), LAMBDA m : CHI_SNF(o, m).cntrls[1])
  PROVE  /\ \A q \in Nat : Block(b, Memories(o), "Memory", 0, q, 0)
         /\ \A c \in Range(b) : MemoryNode(c, o)
<1> DEFINE m == Memories(o)
           x == Memory_Controllers(o)
<1>1. m \in Nat
  BY DEF Typed, Memories
<1>2. CreatedAs(x, m, "Memory", 0, 0, 0)
  BY CHICaches
<1>3. Len(x) = m
  BY <1>2 DEF CreatedAs, Block
<1>4. b = [k \in 1 .. Len(x) |-> x[(k - 1) + 1]]
  BY DEF Each, CHI_SNF, Node
<1> HIDE DEF m, x
<1>5. b = [k \in 1 .. m |-> x[k]]
  <2>1. \A k \in 1 .. m : (k - 1) + 1 = k
    BY <1>1
  <2> QED
    BY <1>3, <1>4, <2>1
<1>6. DOMAIN b = 1 .. m /\ b = [k \in 1 .. m |-> b[k]]
  BY <1>5
<1>7. Sequence(b) /\ Len(b) = m
  BY <1>1, <1>6, SequenceOf
<1>8. \A k \in 1 .. m :
        /\ b[k].type = "Memory" /\ b[k].version = k - 1 /\ b[k].l2_select = None
        /\ b[k].seqs = <<>> /\ b[k] = x[k]
  <2> TAKE k \in 1 .. m
  <2>1. b[k] = x[k]
    BY <1>5
  <2>2. /\ x[k].type = "Memory" /\ x[k].version = 0 + (k - 1) /\ x[k].l2_select = None
        /\ Sequence(x[k].seqs) /\ Len(x[k].seqs) = 0
    BY <1>2 DEF CreatedAs, Block
  <2> QED
    BY <2>1, <2>2, NoSequencers
<1>9. Quiet(b, "Memory")
  BY <1>7, <1>8 DEF Quiet
<1>10. \A c \in Range(b) : MemoryNode(c, o)
  <2> TAKE c \in Range(b)
  <2>1. PICK k \in 1 .. m : c = b[k]
    BY <1>7, SequenceFacts
  <2>2. x[k] \in Range(x)
    BY <1>2, SequenceFacts DEF CreatedAs, Block
  <2> QED
    BY <1>8, <2>1, <2>2 DEF MemoryNode, Name, Names, x
<1>11. \A q \in Nat : Block(b, m, "Memory", 0, q, 0)
  BY <1>7, <1>9, QuietBlock
<1> QED
  BY <1>10, <1>11 DEF m

LEMMA IONodes ==
  ASSUME NEW o, Typed(o), NEW b,
         b = Each(Len(RNIsOf(o)), LAMBDA d : CHI_RNI(o, d).cntrls[1])
  PROVE  LET n == o.num_cpus
         IN  /\ Block(b, RNIs(o), "Cache", 3 * n + o.num_l3caches, 2 * n, 1)
             /\ \A c \in Range(b) : IONode(c, o)
<1> DEFINE n == o.num_cpus
           r == RNIs(o)
           v == 3 * n + o.num_l3caches
           x == RNIsOf(o)
<1>1. n \in Nat /\ r \in Nat /\ v \in Nat /\ 2 * n \in Nat
  <2>1. n \in Nat /\ o.num_l3caches \in Nat
    BY DEF Typed
  <2>2. r \in Nat
    BY DEF Typed, RNIs
  <2> HIDE DEF n, r
  <2> QED
    BY <2>1, <2>2
<1>2. CreatedAs(x, r, "Cache", v, 2 * n, 1)
  BY CHICaches
<1>3. Len(x) = r
  BY <1>2 DEF CreatedAs, Block
<1>4. b = [k \in 1 .. Len(x) |-> To(x[(k - 1) + 1], HNFsOf(o))]
  BY DEF Each, CHI_RNI, Node
<1> HIDE DEF n, r, v, x
<1>5. b = [k \in 1 .. r |-> To(x[k], HNFsOf(o))]
  <2>1. \A k \in 1 .. r : (k - 1) + 1 = k
    BY <1>1
  <2> QED
    BY <1>3, <1>4, <2>1
<1>6. DOMAIN b = 1 .. r /\ b = [k \in 1 .. r |-> b[k]]
  BY <1>5
<1>7. Sequence(b) /\ Len(b) = r
  BY <1>1, <1>6, SequenceOf
<1>8. \A k \in 1 .. r :
        /\ x[k].type = "Cache" /\ x[k].version = v + (k - 1) /\ x[k].l2_select = None
        /\ x[k].clock = None
        /\ Range(x[k].seqs) = 2 * n + (k - 1) * 1 .. 2 * n + (k - 1) * 1 + 1 - 1
        /\ Sequence(x[k].seqs) /\ Len(x[k].seqs) = 1 /\ DOMAIN x[k] = CntrlFields
  BY <1>2 DEF CreatedAs, Block
<1>9. \A k \in 1 .. r : x[k].seqs # <<>>
  <2> TAKE k \in 1 .. r
  <2>1. Len(x[k].seqs) = 1 /\ Len(<<>>) = 0
    BY <1>8, EmptySeq
  <2> QED
    BY <2>1
<1>10. \A k \in 1 .. r :
        /\ b[k].type = "Cache" /\ b[k].version = v + (k - 1) /\ b[k].l2_select = None
        /\ b[k].clock = None /\ b[k].seqs = x[k].seqs
        /\ b[k].downstream = Names(Range(HNFsOf(o)))
  <2> TAKE k \in 1 .. r
  <2>1. b[k] = To(x[k], HNFsOf(o))
    BY <1>5
  <2> QED
    BY <1>8, <2>1, ToFacts
<1>11. Block(b, r, "Cache", v, 2 * n, 1)
  BY <1>7, <1>8, <1>10, Zenon DEF Block
<1>12. \A c \in Range(b) : IONode(c, o)
  <2> TAKE c \in Range(b)
  <2>1. PICK k \in 1 .. r : c = b[k]
    BY <1>7, SequenceFacts
  <2>2. /\ b[k].type = "Cache" /\ b[k].seqs # <<>> /\ b[k].clock = None
        /\ b[k].l2_select = None /\ b[k].downstream = Names(Range(HNFsOf(o)))
    BY <1>9, <1>10
  <2> QED
    BY <2>1, <2>2, Zenon DEF IONode
<1> QED
  BY <1>11, <1>12 DEF n, r, v

\* The controllers on CHI's network.
CHIMade(s, o) ==
  LET n == o.num_cpus
  IN  /\ Made(s) /\ Cardinality(Sequencers(s)) = 2 * n + RNIs(o)
      /\ \A i \in 0 .. n - 1 :
           /\ \A j \in 0 .. 1 : \E c \in Range(s) : RequestL1(c, o, i, j)
           /\ \E c \in Range(s) : RequestL2(c, o, i)
      /\ \A x \in Range(HNFsOf(o)) : \E c \in Range(s) : HomeNode(c, o) /\ Name(c) = Name(x)
      /\ \A c \in Range(s) :
           \/ \E i \in 0 .. n - 1, j \in 0 .. 1 : RequestL1(c, o, i, j)
           \/ \E i \in 0 .. n - 1 : RequestL2(c, o, i)
           \/ HomeNode(c, o) \/ MemoryNode(c, o) \/ IONode(c, o)

LEMMA CHISystem ==
  ASSUME NEW o, Typed(o)
  PROVE  CHIMade(network_cntrls(o), o)
<1> DEFINE n == o.num_cpus
           h == o.num_l3caches
           m == Memories(o)
           r == RNIs(o)
           R == EachOf(o.num_cpus, 3, LAMBDA i, j : CHI_RNF(o, i).cntrls[j + 1])
           H == Each(o.num_l3caches, LAMBDA k : CHI_HNF(o, k).cntrls[1])
           M == Each(Len(Memory_Controllers(o)), LAMBDA k : CHI_SNF(o, k).cntrls[1])
           I == Each(Len(RNIsOf(o)), LAMBDA d : CHI_RNI(o, d).cntrls[1])
           s == R \o H \o M \o I
<1>1. network_cntrls(o) = s
  BY DEF network_cntrls
<1>2. n \in Nat /\ h \in Nat /\ m \in Nat /\ r \in Nat
  BY DEF Typed, Memories, RNIs
<1>3. RequestPart(R, o)
  BY RequestNodes
<1>4. /\ Block(H, h, "Cache", 3 * n, 2 * n, 0)
      /\ \A c \in Range(H) : HomeNode(c, o)
      /\ \A x \in Range(HNFsOf(o)) : \E c \in Range(H) : Name(c) = Name(x)
  BY HomeNodes
<1>5. /\ \A q \in Nat : Block(M, m, "Memory", 0, q, 0)
      /\ \A c \in Range(M) : MemoryNode(c, o)
  BY MemoryNodes
<1>6. Block(I, r, "Cache", 3 * n + h, 2 * n, 1) /\ \A c \in Range(I) : IONode(c, o)
  BY IONodes
<1> HIDE DEF n, h, m, r, R, H, M, I
<1>7. /\ Made(R) /\ Cardinality(OfType(R, "Cache")) = 3 * n
      /\ \A t : t # "Cache" => Cardinality(OfType(R, t)) = 0
      /\ Cardinality(Sequencers(R)) = 2 * n
  BY <1>3, RequestMade DEF n
<1> DEFINE s1 == R \o H
           s2 == s1 \o M
           c1 == 3 * n
           q1 == 2 * n
<1>8. c1 \in Nat /\ q1 \in Nat
  BY <1>2
<1> HIDE DEF c1, q1
<1>9. /\ Made(s1) /\ Cardinality(OfType(s1, "Cache")) = c1 + h
      /\ Cardinality(OfType(s1, "Memory")) = 0 /\ Cardinality(Sequencers(s1)) = q1
  <2>1. Block(H, h, "Cache", Cardinality(OfType(R, "Cache")), Cardinality(Sequencers(R)), 0)
    BY <1>4, <1>7
  <2>2. /\ Made(s1)
        /\ Cardinality(OfType(s1, "Cache")) = Cardinality(OfType(R, "Cache")) + h
        /\ \A t : t # "Cache" => Cardinality(OfType(s1, t)) = Cardinality(OfType(R, t))
        /\ Cardinality(Sequencers(s1)) = Cardinality(Sequencers(R)) + h * 0
    BY <1>2, <1>7, <2>1, MadeBlock
  <2>3. Cardinality(OfType(R, "Cache")) = c1 /\ Cardinality(Sequencers(R)) = q1
    BY <1>7 DEF c1, q1
  <2> HIDE DEF s1
  <2> QED
    BY <1>2, <1>7, <1>8, <2>2, <2>3
<1> HIDE DEF s1
<1>10. /\ Made(s2) /\ Cardinality(OfType(s2, "Cache")) = c1 + h
       /\ Cardinality(Sequencers(s2)) = q1 /\ Range(s2) = Range(s1) \cup Range(M)
  BY <1>2, <1>5, <1>9, AddPlain
<1> HIDE DEF s2
<1>11. /\ Made(s2 \o I) /\ Cardinality(Sequencers(s2 \o I)) = q1 + r
       /\ Range(s2 \o I) = Range(s2) \cup Range(I)
  <2>1. Block(I, r, "Cache", c1 + h, q1, 1)
    BY <1>6 DEF c1, q1
  <2>2. Block(I, r, "Cache", Cardinality(OfType(s2, "Cache")), Cardinality(Sequencers(s2)), 1)
    BY <1>10, <2>1
  <2>3. /\ Made(s2 \o I)
        /\ Cardinality(Sequencers(s2 \o I)) = Cardinality(Sequencers(s2)) + r * 1
    BY <1>2, <1>10, <2>2, MadeBlock
  <2>4. Sequence(s2) /\ Sequence(I)
    BY <1>10, <2>2 DEF Made, Block
  <2> QED
    BY <1>2, <1>8, <1>10, <2>3, <2>4, Concat
<1>12. Sequence(R) /\ Sequence(H)
  BY <1>3, <1>4 DEF RequestPart, Block
<1>13. s = s2 \o I
  BY DEF s1, s2
<1>14. Range(s1) = Range(R) \cup Range(H)
  BY <1>12, Concat DEF s1
<1> HIDE DEF s
<1>15. Range(s) = Range(R) \cup Range(H) \cup Range(M) \cup Range(I)
  BY <1>10, <1>11, <1>13, <1>14
<1>16. ASSUME NEW i \in 0 .. n - 1, NEW j \in 0 .. 2
       PROVE  R[(j + i * 3) + 1] \in Range(R)
  <2>1. (j + i * 3) + 1 \in 1 .. n * 3 /\ Len(R) = n * 3
    BY <1>2, <1>3 DEF RequestPart, n
  <2> QED
    BY <1>12, <2>1, SequenceFacts
<1>17. ASSUME NEW i \in 0 .. n - 1
       PROVE  /\ \A j \in 0 .. 1 : \E c \in Range(s) : RequestL1(c, o, i, j)
              /\ \E c \in Range(s) : RequestL2(c, o, i)
  <2>1. \A j \in 0 .. 1 : RequestL1(R[(j + i * 3) + 1], o, i, j)
    BY <1>3 DEF RequestPart, n
  <2>2. RequestL2(R[(2 + i * 3) + 1], o, i)
    BY <1>3 DEF RequestPart, n
  <2>3. \A j \in 0 .. 1 : R[(j + i * 3) + 1] \in Range(s)
    BY <1>15, <1>16
  <2>4. R[(2 + i * 3) + 1] \in Range(s)
    BY <1>15, <1>16
  <2> QED
    BY <2>1, <2>2, <2>3, <2>4
<1>18. ASSUME NEW c \in Range(R)
       PROVE  \/ \E i \in 0 .. n - 1, j \in 0 .. 1 : RequestL1(c, o, i, j)
              \/ \E i \in 0 .. n - 1 : RequestL2(c, o, i)
  <2>1. PICK k \in 1 .. n * 3 : c = R[k]
    BY <1>3, <1>12, SequenceFacts DEF RequestPart, n
  <2>2. PICK i \in 0 .. n - 1, j \in 0 .. 2 : k = (j + i * 3) + 1
    BY <1>3 DEF RequestPart, n
  <2>3. CASE j = 2
    BY <1>3, <2>1, <2>2, <2>3 DEF RequestPart, n
  <2>4. CASE j # 2
    <3>1. j \in 0 .. 1
      BY <2>2, <2>4
    <3> QED
      BY <1>3, <2>1, <2>2, <3>1 DEF RequestPart, n
  <2> QED
    BY <2>3, <2>4
<1>19. \A c \in Range(s) :
         \/ \E i \in 0 .. n - 1, j \in 0 .. 1 : RequestL1(c, o, i, j)
         \/ \E i \in 0 .. n - 1 : RequestL2(c, o, i)
         \/ HomeNode(c, o) \/ MemoryNode(c, o) \/ IONode(c, o)
  BY <1>4, <1>5, <1>6, <1>15, <1>18
<1>20. \A x \in Range(HNFsOf(o)) : \E c \in Range(s) : HomeNode(c, o) /\ Name(c) = Name(x)
  BY <1>4, <1>15
<1>21. CHIMade(s, o)
  BY <1>11, <1>13, <1>17, <1>19, <1>20 DEF CHIMade, n, q1, r
<1> QED
  BY <1>1, <1>21

\* A CPU's L1s send to its own L2.
LEMMA PrivateL2 ==
  ASSUME NEW o, Typed(o), ~o.one_tester, NEW i \in 0 .. o.num_cpus - 1, NEW j \in 0 .. 1
  PROVE  Names(PrivateL2s(o, L1sOf(o)[2 * i + (j + 1)])) = {<<"Cache", 2 * o.num_cpus + i>>}
<1> DEFINE n == o.num_cpus
           L1 == L1sOf(o)
           L2 == L2sOf(o)
<1>1. n \in Nat
  BY DEF Typed
<1>2. \A k \in 1 .. 2 * n : L1[k].version = k - 1
  BY L1sOfMade DEF ClockedL1s, Front
<1>3. \A k \in 1 .. n : L2[k].type = "Cache" /\ L2[k].version = 2 * n + (k - 1)
  BY CHICaches DEF CreatedAs, Block
<1>4. ASSUME NEW g \in 0 .. n - 1
      PROVE  SendToL2(o, g) = {L1[2 * g + 1], L1[2 * g + 2]}
  <2> DEFINE nodes == {k \in 0 .. n - 1 : CpuOf(o, k) = CpuOf(o, g)}
  <2>1. nodes = {g}
    BY DEF CpuOf
  <2>2. ~(\E k \in nodes : k < g)
    BY <1>1, <2>1
  <2>3. {k \in nodes : \A m \in nodes : m <= k} = {g}
    BY <1>1, <2>1
  <2>4. SendToL2(o, g) = UNION {{L1[2 * k + 1], L1[2 * k + 2]} :
                                  k \in {k \in nodes : \A m \in nodes : m <= k}}
    BY <2>2 DEF SendToL2
  <2> HIDE DEF nodes, L1
  <2>5. UNION {{L1[2 * k + 1], L1[2 * k + 2]} : k \in {g}} = {L1[2 * g + 1], L1[2 * g + 2]}
    OBVIOUS
  <2> QED
    BY <2>3, <2>4, <2>5
<1> DEFINE l1 == L1[2 * i + (j + 1)]
<1>5. l1.version = 2 * i + j
  <2>1. 2 * i + (j + 1) \in 1 .. 2 * n /\ (2 * i + (j + 1)) - 1 = 2 * i + j
    BY <1>1
  <2> HIDE DEF L1
  <2> QED
    BY <1>2, <2>1
<1>6. \A g \in 0 .. n - 1 :
        L1[2 * g + 1].version = 2 * g /\ L1[2 * g + 2].version = 2 * g + 1
  <2> TAKE g \in 0 .. n - 1
  <2>1. 2 * g + 1 \in 1 .. 2 * n /\ 2 * g + 2 \in 1 .. 2 * n
        /\ (2 * g + 1) - 1 = 2 * g /\ (2 * g + 2) - 1 = 2 * g + 1
    BY <1>1
  <2> HIDE DEF L1
  <2> QED
    BY <1>2, <2>1
<1>7. l1 \in SendToL2(o, i)
  <2>1. 2 * i + (j + 1) = 2 * i + 1 \/ 2 * i + (j + 1) = 2 * i + 2
    BY <1>1
  <2>2. l1 = L1[2 * i + 1] \/ l1 = L1[2 * i + 2]
    BY <2>1
  <2> QED
    BY <1>4, <2>2
<1>8. ASSUME NEW g \in 0 .. n - 1, l1 \in SendToL2(o, g) PROVE g = i
  <2>1. l1.version = 2 * g \/ l1.version = 2 * g + 1
    <3> HIDE DEF L1
    <3> QED
      BY <1>4, <1>6, <1>8
  <2>2. 2 * i + j = 2 * g \/ 2 * i + j = 2 * g + 1
    BY <1>5, <2>1
  <2> HIDE DEF l1
  <2> QED
    BY <1>1, <2>2
<1>9. {g \in 0 .. n - 1 : l1 \in SendToL2(o, g)} = {i}
  <2> HIDE DEF l1
  <2> QED
    BY <1>7, <1>8
<1>10. PrivateL2s(o, l1) = {L2[i + 1]}
  <2>1. PrivateL2s(o, l1) = {L2[g + 1] : g \in {g \in 0 .. n - 1 : l1 \in SendToL2(o, g)}}
    BY DEF PrivateL2s
  <2> HIDE DEF l1, L2, n
  <2> QED
    BY <1>9, <2>1
<1>11. L2[i + 1].type = "Cache" /\ L2[i + 1].version = 2 * n + i
  <2>1. i + 1 \in 1 .. n /\ 2 * n + ((i + 1) - 1) = 2 * n + i
    BY <1>1
  <2> HIDE DEF L2
  <2> QED
    BY <1>3, <2>1
<1>12. Names({L2[i + 1]}) = {<<"Cache", 2 * n + i>>}
  <2> HIDE DEF L2
  <2> QED
    BY <1>11 DEF Names
<1> QED
  BY <1>10, <1>12

LEMMA CHIReaches ==
  ASSUME Typed(opts), CHIMade(cntrls, opts), opts.num_l3caches # 0
  PROVE  ReachesMemory
<1> DEFINE o  == opts
           n  == o.num_cpus
           HN == Names(Range(HNFsOf(o)))
           MN == Names(Range(Memory_Controllers(o)))
<1>1. n \in Nat /\ o.num_l3caches \in Nat \ {0}
  BY DEF Typed
<1>2. CreatedAs(HNFsOf(o), o.num_l3caches, "Cache", 3 * n, 2 * n, 0)
  BY CHICaches
<1>3. /\ Sequence(HNFsOf(o)) /\ Len(HNFsOf(o)) = o.num_l3caches
      /\ \A k \in 1 .. o.num_l3caches :
           HNFsOf(o)[k].type = "Cache" /\ HNFsOf(o)[k].version = 3 * n + (k - 1)
  BY <1>2 DEF CreatedAs, Block
<1>4. HNFsOf(o)[1] \in Range(HNFsOf(o))
  <2>1. 1 \in 1 .. o.num_l3caches
    BY <1>1
  <2> QED
    BY <1>3, <2>1, SequenceFacts
<1>5. \A x \in HN : x[2] >= 3 * n
  <2> TAKE x \in HN
  <2>1. PICK c \in Range(HNFsOf(o)) : x = <<c.type, c.version>>
    BY DEF Names
  <2>2. PICK k \in 1 .. o.num_l3caches : c = HNFsOf(o)[k]
    BY <1>3, SequenceFacts
  <2> QED
    BY <1>1, <1>3, <2>1, <2>2
<1> SUFFICES ASSUME ~o.one_tester, NEW c \in Range(cntrls), c.seqs # <<>>
             PROVE  /\ Names({d \in Range(cntrls) : d.type = "Memory"})
                         \subseteq Below1(Below1(Below1({Name(c)})))
                    /\ \A d \in Range(cntrls) : d.seqs # <<>> /\ c.clock # d.clock =>
                         {x \in c.downstream \cap d.downstream : x[2] < 3 * n} = {}
  BY DEF ReachesMemory
<1>6. \A S : S \subseteq Below1(S)
  BY DEF Below1
<1>7. \A S : \A d \in Range(cntrls) : Name(d) \in S => d.downstream \subseteq Below1(S)
  BY DEF Below1
<1>8. ASSUME NEW S, HN \subseteq S PROVE MN \subseteq Below1(S)
  <2>1. PICK d \in Range(cntrls) : HomeNode(d, o) /\ Name(d) = Name(HNFsOf(o)[1])
    BY <1>4 DEF CHIMade
  <2>2. Name(d) \in S
    BY <1>4, <1>8, <2>1 DEF Name, Names
  <2> QED
    BY <1>7, <2>1, <2>2 DEF HomeNode
<1>9. Names({d \in Range(cntrls) : d.type = "Memory"}) \subseteq MN
  <2>1. \A d \in Range(cntrls) : d.type = "Memory" => MemoryNode(d, o)
    BY DEF CHIMade, RequestL1, RequestL2, HomeNode, IONode
  <2> QED
    BY <2>1 DEF MemoryNode, Name, Names
<1>10. ASSUME NEW d \in Range(cntrls), d.seqs # <<>>
       PROVE  \/ \E i \in 0 .. n - 1 :
                   d.clock = i /\ d.downstream = {<<"Cache", 2 * n + i>>}
              \/ d.clock = None /\ d.downstream = HN
  <2>1. \/ \E i \in 0 .. n - 1, j \in 0 .. 1 : RequestL1(d, o, i, j)
        \/ IONode(d, o)
    BY <1>10 DEF CHIMade, RequestL2, HomeNode, MemoryNode
  <2>2. CASE IONode(d, o)
    BY <2>2 DEF IONode
  <2>3. ASSUME NEW i \in 0 .. n - 1, NEW j \in 0 .. 1, RequestL1(d, o, i, j)
        PROVE  d.clock = i /\ d.downstream = {<<"Cache", 2 * n + i>>}
    BY <2>3, PrivateL2 DEF RequestL1
  <2> QED
    BY <2>1, <2>2, <2>3
<1> HIDE DEF HN, MN, n
<1>11. MN \subseteq Below1(Below1(Below1({Name(c)})))
  <2>1. c.downstream \subseteq Below1({Name(c)})
    BY <1>7
  <2>2. CASE c.downstream = HN
    <3>1. MN \subseteq Below1(Below1({Name(c)}))
      BY <1>8, <2>1, <2>2
    <3> QED
      BY <1>6, <3>1
  <2>3. ASSUME NEW i \in 0 .. n - 1, c.downstream = {<<"Cache", 2 * n + i>>}
        PROVE  MN \subseteq Below1(Below1(Below1({Name(c)})))
    <3>1. PICK d \in Range(cntrls) : RequestL2(d, o, i)
      BY DEF CHIMade, n
    <3>2. Name(d) = <<"Cache", 2 * n + i>> /\ d.downstream = HN
      BY <3>1 DEF RequestL2, Name, HN, n
    <3>3. HN \subseteq Below1(Below1({Name(c)}))
      BY <1>7, <2>1, <2>3, <3>2
    <3> QED
      BY <1>8, <3>3
  <2> QED
    BY <1>10, <2>2, <2>3
<1>12. ASSUME NEW d \in Range(cntrls), d.seqs # <<>>, c.clock # d.clock,
              NEW x \in c.downstream \cap d.downstream
       PROVE  ~(x[2] < 3 * n)
  <2>1. CASE x \in HN
    <3>1. x[2] >= 3 * n
      BY <1>5, <2>1
    <3>2. x[2] \in Int
      <4>1. PICK y \in Range(HNFsOf(o)) : x = <<y.type, y.version>>
        BY <2>1 DEF HN, Names
      <4>2. PICK k \in 1 .. o.num_l3caches : y = HNFsOf(o)[k]
        BY <1>3, SequenceFacts
      <4> QED
        BY <1>1, <1>3, <4>1, <4>2
    <3> QED
      BY <1>1, <3>1, <3>2
  <2>2. CASE x \notin HN
    <3>1. PICK i \in 0 .. n - 1 : c.clock = i /\ c.downstream = {<<"Cache", 2 * n + i>>}
      BY <1>10, <2>2
    <3>2. PICK g \in 0 .. n - 1 : d.clock = g /\ d.downstream = {<<"Cache", 2 * n + g>>}
      BY <1>10, <1>12, <2>2
    <3>3. 2 * n + i = 2 * n + g
      BY <3>1, <3>2
    <3>4. i = g
      BY <1>1, <3>3
    <3> QED
      BY <1>12, <3>1, <3>2, <3>4
  <2> QED
    BY <2>1, <2>2
<1> QED
  BY <1>9, <1>11, <1>12

-----------------------------------------------------------------------------
(* GPU_VIPER.                                                              *)

\* A block of controllers, with the bits that select a bank for them.
Selecting(b, m, u, v, q, w, bits) ==
  /\ Block(b, m, u, v, q, w)
  /\ \A k \in 1 .. m :
       /\ b[k].clock = None /\ b[k].cluster = 0 /\ b[k].l2_select = bits
       /\ \A j \in 1 .. w : b[k].seqs[j] = (q + (k - 1) * w) + (j - 1)
       /\ Len(b[k].seqs) = w

LEMMA SelectingCreated ==
  ASSUME NEW o, NEW b, NEW m \in Nat, NEW u, NEW v, NEW q, NEW w,
         CreatedAs(b, m, u, v, q, w)
  PROVE  /\ Selecting(b, m, u, v, q, w, None)
         /\ Selecting(SelectTCCs(o, b), m, u, v, q, w, Log2(o.num_tccs))
<1> DEFINE c == SelectTCCs(o, b)
           bits == Log2(o.num_tccs)
<1>1. Sequence(b) /\ Len(b) = m /\ DOMAIN b = 1 .. m
  BY SequenceFacts DEF CreatedAs, Block
<1>2. c = [k \in 1 .. m |-> [b[k] EXCEPT !.l2_select = bits]]
  BY <1>1 DEF SelectTCCs, WithTCC
<1> HIDE DEF c, bits
<1>3. \A k \in 1 .. m :
        /\ b[k].type = u /\ b[k].version = v + (k - 1)
        /\ Range(b[k].seqs) = q + (k - 1) * w .. q + (k - 1) * w + w - 1
        /\ b[k].clock = None /\ b[k].cluster = 0 /\ b[k].l2_select = None
        /\ \A j \in 1 .. w : b[k].seqs[j] = (q + (k - 1) * w) + (j - 1)
        /\ Len(b[k].seqs) = w /\ DOMAIN b[k] = CntrlFields
  BY DEF CreatedAs, Block
<1>4. \A k \in 1 .. m :
        /\ c[k].type = b[k].type /\ c[k].version = b[k].version /\ c[k].seqs = b[k].seqs
        /\ c[k].clock = b[k].clock /\ c[k].cluster = b[k].cluster /\ c[k].l2_select = bits
  BY <1>2, <1>3 DEF CntrlFields
<1>5. DOMAIN c = 1 .. m /\ c = [k \in 1 .. m |-> c[k]]
  BY <1>2
<1>6. Sequence(c) /\ Len(c) = m
  BY <1>5, SequenceOf
<1>7. Block(b, m, u, v, q, w)
  BY DEF CreatedAs
<1>8. Block(c, m, u, v, q, w)
  BY <1>3, <1>4, <1>6, Zenon DEF Block
<1>9. Selecting(b, m, u, v, q, w, None)
  BY <1>3, <1>7, Zenon DEF Selecting
<1>10. Selecting(c, m, u, v, q, w, bits)
  BY <1>3, <1>4, <1>8, Zenon DEF Selecting
<1> QED
  BY <1>9, <1>10 DEF c, bits

\* The next controllers of a kind, which select banks or do not: r is what there
\* is after them.
Added(s, b, r, m, u, w, v, q, bits) ==
  /\ Selecting(b, m, u, v, q, w, bits)
  /\ Made(r)
  /\ Cardinality(OfType(r, u)) = v + m
  /\ \A t : t # u => Cardinality(OfType(r, t)) = Cardinality(OfType(s, t))
  /\ Cardinality(Sequencers(r)) = q + m * w
  /\ Range(r) = Range(s) \cup Range(b)

LEMMA AddCreated ==
  ASSUME NEW o, NEW s, Made(s), NEW m \in Nat, NEW u, NEW w \in Nat, NEW v, NEW q,
         v = Cardinality(OfType(s, u)), q = Cardinality(Sequencers(s)),
         NEW b, NEW r, r = s \o b, NEW bits,
         \/ b = Created(s, m, u, w) /\ bits = None
         \/ b = SelectTCCs(o, Created(s, m, u, w)) /\ bits = Log2(o.num_tccs)
  PROVE  Added(s, b, r, m, u, w, v, q, bits)
<1> DEFINE x == Created(s, m, u, w)
<1>1. v \in Nat /\ q \in Nat
  BY DEF Made
<1>2. CreatedAs(x, m, u, v, q, w)
  BY <1>1, CreatedBlock
<1>3. /\ Selecting(x, m, u, v, q, w, None)
      /\ Selecting(SelectTCCs(o, x), m, u, v, q, w, Log2(o.num_tccs))
  <2> HIDE DEF x
  <2> QED
    BY <1>2, SelectingCreated
<1>4. Selecting(b, m, u, v, q, w, bits)
  BY <1>3
<1>5. Block(b, m, u, v, q, w)
  BY <1>4 DEF Selecting
<1>6. /\ Made(s \o b)
      /\ Cardinality(OfType(s \o b, u)) = v + m
      /\ \A t : t # u => Cardinality(OfType(s \o b, t)) = Cardinality(OfType(s, t))
      /\ Cardinality(Sequencers(s \o b)) = q + m * w
  BY <1>5, MadeBlock
<1>7. Range(s \o b) = Range(s) \cup Range(b)
  BY <1>5, Concat DEF Made, Block
<1> QED
  BY <1>4, <1>6, <1>7 DEF Added

\* The TCP and the SQC of each of n command processors.
CommandTCP(c, v, x, bits) ==
  /\ c.type = "TCP" /\ c.version = v /\ Range(c.seqs) = {x, x + 1}
  /\ Len(c.seqs) = 2 /\ c.seqs[2] = x + 1 /\ c.cluster = 0 /\ c.l2_select = bits

CommandSQC(c, v, x, bits) ==
  /\ c.type = "SQC" /\ c.version = v /\ Range(c.seqs) = {x}
  /\ Len(c.seqs) = 1 /\ c.seqs[1] = x /\ c.cluster = 0 /\ c.l2_select = bits

CommandPart(b, n, TCPs, SQCs, first, bits) ==
  /\ Sequence(b) /\ Len(b) = n * 2
  /\ \A i \in 0 .. n - 1 :
       /\ CommandTCP(b[i * 2 + 1], TCPs + i, first + 3 * i, bits)
       /\ CommandSQC(b[i * 2 + 2], SQCs + i, first + 3 * i + 2, bits)
  /\ \A k \in 1 .. n * 2 : \E i \in 0 .. n - 1 : k = i * 2 + 1 \/ k = i * 2 + 2

LEMMA RangeOfTwo == \A x, y : Range(<<x, y>>) = {x, y}
BY DEF Range

LEMMA CommandProcessors ==
  ASSUME NEW o, o.num_cp \in Nat, NEW s, Made(s)
  PROVE  CommandPart(construct_cmdprocs(o, s), o.num_cp, Cardinality(OfType(s, "TCP")),
                     Cardinality(OfType(s, "SQC")), Cardinality(Sequencers(s)),
                     Log2(o.num_tccs))
<1> DEFINE n == o.num_cp
           TCPs  == Cardinality(OfType(s, "TCP"))
           SQCs  == Cardinality(OfType(s, "SQC"))
           first == Cardinality(Sequencers(s))
           bits  == Log2(o.num_tccs)
           T(i) == [Cntrl("TCP", TCPs + i) EXCEPT !.seqs = <<first + 3 * i, first + 3 * i + 1>>]
           S(i) == [Cntrl("SQC", SQCs + i) EXCEPT !.seqs = <<first + 3 * i + 2>>]
           of(i, j) == IF j = 0 THEN T(i) ELSE S(i)
           e == [k \in 1 .. n * 2 |-> of((k - 1) \div 2, (k - 1) % 2)]
           b == [k \in DOMAIN e |-> [e[k] EXCEPT !.l2_select = bits]]
<1>1. construct_cmdprocs(o, s) = b
  BY DEF construct_cmdprocs, SelectTCCs, WithTCC, EachOf
<1>2. TCPs \in Nat /\ SQCs \in Nat /\ first \in Nat /\ n \in Nat
  BY DEF Made
<1> HIDE DEF n, TCPs, SQCs, first, bits, T, S
<1>3. DOMAIN b = 1 .. n * 2 /\ b = [k \in 1 .. n * 2 |-> b[k]]
  OBVIOUS
<1>4. Sequence(b) /\ Len(b) = n * 2
  <2>1. n * 2 \in Nat
    BY <1>2
  <2> HIDE DEF b
  <2> QED
    BY <1>3, <2>1, SequenceOf
<1>5. ASSUME NEW i \in 0 .. n - 1, NEW j \in 0 .. 1
      PROVE  /\ (i * 2 + j) + 1 \in 1 .. n * 2
             /\ b[(i * 2 + j) + 1] = [of(i, j) EXCEPT !.l2_select = bits]
  <2> DEFINE a == i * 2 + j
  <2>1. a \in 0 .. n * 2 - 1
    BY <1>2
  <2>2. a % 2 = j /\ a \div 2 = i
    BY <1>2
  <2> HIDE DEF a
  <2>3. a + 1 \in 1 .. n * 2 /\ (a + 1) - 1 = a
    BY <1>2, <2>1
  <2> QED
    BY <2>2, <2>3 DEF a
<1>6. ASSUME NEW k \in 1 .. n * 2
      PROVE  \E i \in 0 .. n - 1 : k = i * 2 + 1 \/ k = i * 2 + 2
  <2>1. (k - 1) \div 2 \in 0 .. n - 1
        /\ (k = ((k - 1) \div 2) * 2 + 1 \/ k = ((k - 1) \div 2) * 2 + 2)
    BY <1>2
  <2> QED
    BY <2>1
<1> HIDE DEF b
<1>7. ASSUME NEW i \in 0 .. n - 1
      PROVE  /\ CommandTCP(b[i * 2 + 1], TCPs + i, first + 3 * i, bits)
             /\ CommandSQC(b[i * 2 + 2], SQCs + i, first + 3 * i + 2, bits)
  <2>1. (i * 2 + 0) + 1 = i * 2 + 1 /\ (i * 2 + 1) + 1 = i * 2 + 2
    BY <1>2
  <2>2. 0 \in 0 .. 1 /\ 1 \in 0 .. 1
    OBVIOUS
  <2>3. of(i, 0) = T(i) /\ of(i, 1) = S(i)
    OBVIOUS
  <2> HIDE DEF of
  <2>4. b[(i * 2 + 0) + 1] = [of(i, 0) EXCEPT !.l2_select = bits]
    BY <1>5, <2>2
  <2>5. b[(i * 2 + 1) + 1] = [of(i, 1) EXCEPT !.l2_select = bits]
    BY <1>5, <2>2
  <2>6. b[i * 2 + 1] = [T(i) EXCEPT !.l2_select = bits]
    BY <2>1, <2>3, <2>4, Zenon
  <2>7. b[i * 2 + 2] = [S(i) EXCEPT !.l2_select = bits]
    BY <2>1, <2>3, <2>5, Zenon
  <2> DEFINE x == first + 3 * i
             v == TCPs + i
             y == first + 3 * i + 2
             w == SQCs + i
  <2>8. T(i) = [Cntrl("TCP", v) EXCEPT !.seqs = <<x, x + 1>>]
    BY DEF T
  <2>9. S(i) = [Cntrl("SQC", w) EXCEPT !.seqs = <<y>>]
    BY DEF S
  <2> HIDE DEF x, v, y, w
  <2>10. CommandTCP([T(i) EXCEPT !.l2_select = bits], v, x, bits)
    <3>1. Range(<<x, x + 1>>) = {x, x + 1} /\ Len(<<x, x + 1>>) = 2 /\ <<x, x + 1>>[2] = x + 1
      BY RangeOfTwo
    <3> DEFINE z == <<x, x + 1>>
    <3> HIDE DEF z
    <3>2. [T(i) EXCEPT !.l2_select = bits].seqs = z
      BY <2>8 DEF Cntrl, z
    <3> QED
      BY <2>8, <3>1, <3>2 DEF CommandTCP, Cntrl, z
  <2>11. CommandSQC([S(i) EXCEPT !.l2_select = bits], w, y, bits)
    <3>1. Range(<<y>>) = {y} /\ Len(<<y>>) = 1 /\ <<y>>[1] = y
      BY RangeOfOne
    <3> DEFINE z == <<y>>
    <3> HIDE DEF z
    <3>2. [S(i) EXCEPT !.l2_select = bits].seqs = z
      BY <2>9 DEF Cntrl, z
    <3> QED
      BY <2>9, <3>1, <3>2 DEF CommandSQC, Cntrl, z
  <2> QED
    BY <2>6, <2>7, <2>10, <2>11, Zenon DEF x, v, y, w
<1>8. CommandPart(b, n, TCPs, SQCs, first, bits)
  BY <1>4, <1>6, <1>7 DEF CommandPart
<1> QED
  BY <1>1, <1>8 DEF n, TCPs, SQCs, first, bits

CommandsAdded(s, b, r, n, t0, s0, f) ==
  /\ Made(r)
  /\ Cardinality(OfType(r, "TCP")) = t0 + n
  /\ Cardinality(OfType(r, "SQC")) = s0 + n
  /\ \A t : t \notin {"TCP", "SQC"} => Cardinality(OfType(r, t)) = Cardinality(OfType(s, t))
  /\ Cardinality(Sequencers(r)) = f + 3 * n
  /\ Range(r) = Range(s) \cup Range(b)

CommandsCounted(b, n, t0, s0, f) ==
  /\ Counts(b, "TCP", t0, n) /\ Counts(b, "SQC", s0, n) /\ Owns(b, f, 3 * n)
  /\ \A t : t \notin {"TCP", "SQC"} => \A k \in DOMAIN b : b[k].type # t

LEMMA CommandCounted ==
  ASSUME NEW b, NEW n \in Nat, NEW t0 \in Nat, NEW s0 \in Nat, NEW f \in Nat, NEW bits,
         CommandPart(b, n, t0, s0, f, bits)
  PROVE  CommandsCounted(b, n, t0, s0, f)
<1> DEFINE T(i) == b[i * 2 + 1]
           S(i) == b[i * 2 + 2]
<1>2. Sequence(b) /\ Len(b) = n * 2 /\ DOMAIN b = 1 .. n * 2
  BY SequenceFacts DEF CommandPart
<1>3. \A k \in DOMAIN b : \E i \in 0 .. n - 1 : k = i * 2 + 1 \/ k = i * 2 + 2
  BY <1>2 DEF CommandPart
<1>4. ASSUME NEW i \in 0 .. n - 1
      PROVE  /\ i * 2 + 1 \in DOMAIN b /\ i * 2 + 2 \in DOMAIN b
             /\ T(i).type = "TCP" /\ T(i).version = t0 + i
             /\ Range(T(i).seqs) = {f + 3 * i, f + 3 * i + 1}
             /\ S(i).type = "SQC" /\ S(i).version = s0 + i
             /\ Range(S(i).seqs) = {f + 3 * i + 2}
  <2>1. i * 2 + 1 \in 1 .. n * 2 /\ i * 2 + 2 \in 1 .. n * 2
    OBVIOUS
  <2> QED
    BY <1>2, <2>1 DEF CommandPart, CommandTCP, CommandSQC
<1>5. \A k \in DOMAIN b :
        \E i \in 0 .. n - 1 : (k = i * 2 + 1 /\ b[k] = T(i)) \/ (k = i * 2 + 2 /\ b[k] = S(i))
  BY <1>3
<1> HIDE DEF T, S
<1>6. Counts(b, "TCP", t0, n)
  <2>1. \A k \in DOMAIN b : b[k].type = "TCP" =>
          \E i \in 0 .. n - 1 : k = i * 2 + 1 /\ b[k] = T(i)
    BY <1>4, <1>5
  <2>2. \A k \in DOMAIN b : b[k].type = "TCP" => b[k].version \in t0 .. t0 + n - 1
    <3> TAKE k \in DOMAIN b
    <3> HAVE b[k].type = "TCP"
    <3>1. PICK i \in 0 .. n - 1 : b[k] = T(i)
      BY <2>1
    <3> QED
      BY <1>4, <3>1
  <2>3. ASSUME NEW v \in t0 .. t0 + n - 1
        PROVE  \E k \in DOMAIN b : b[k].type = "TCP" /\ b[k].version = v
    <3>1. v - t0 \in 0 .. n - 1 /\ t0 + (v - t0) = v
      OBVIOUS
    <3>2. b[(v - t0) * 2 + 1] = T(v - t0)
      BY DEF T
    <3> QED
      BY <1>4, <3>1, <3>2
  <2>4. ASSUME NEW j \in DOMAIN b, NEW k \in DOMAIN b, b[j].type = "TCP", b[k].type = "TCP",
               b[j].version = b[k].version
        PROVE  j = k
    <3>1. PICK i \in 0 .. n - 1 : j = i * 2 + 1 /\ b[j] = T(i)
      BY <2>1, <2>4
    <3>2. PICK h \in 0 .. n - 1 : k = h * 2 + 1 /\ b[k] = T(h)
      BY <2>1, <2>4
    <3>3. t0 + i = t0 + h
      BY <1>4, <2>4, <3>1, <3>2
    <3> QED
      BY <3>1, <3>2, <3>3
  <2> QED
    BY <2>2, <2>3, <2>4 DEF Counts
<1>7. Counts(b, "SQC", s0, n)
  <2>1. \A k \in DOMAIN b : b[k].type = "SQC" =>
          \E i \in 0 .. n - 1 : k = i * 2 + 2 /\ b[k] = S(i)
    BY <1>4, <1>5
  <2>2. \A k \in DOMAIN b : b[k].type = "SQC" => b[k].version \in s0 .. s0 + n - 1
    <3> TAKE k \in DOMAIN b
    <3> HAVE b[k].type = "SQC"
    <3>1. PICK i \in 0 .. n - 1 : b[k] = S(i)
      BY <2>1
    <3> QED
      BY <1>4, <3>1
  <2>3. ASSUME NEW v \in s0 .. s0 + n - 1
        PROVE  \E k \in DOMAIN b : b[k].type = "SQC" /\ b[k].version = v
    <3>1. v - s0 \in 0 .. n - 1 /\ s0 + (v - s0) = v
      OBVIOUS
    <3>2. b[(v - s0) * 2 + 2] = S(v - s0)
      BY DEF S
    <3> QED
      BY <1>4, <3>1, <3>2
  <2>4. ASSUME NEW j \in DOMAIN b, NEW k \in DOMAIN b, b[j].type = "SQC", b[k].type = "SQC",
               b[j].version = b[k].version
        PROVE  j = k
    <3>1. PICK i \in 0 .. n - 1 : j = i * 2 + 2 /\ b[j] = S(i)
      BY <2>1, <2>4
    <3>2. PICK h \in 0 .. n - 1 : k = h * 2 + 2 /\ b[k] = S(h)
      BY <2>1, <2>4
    <3>3. s0 + i = s0 + h
      BY <1>4, <2>4, <3>1, <3>2
    <3> QED
      BY <3>1, <3>2, <3>3
  <2> QED
    BY <2>2, <2>3, <2>4 DEF Counts
<1>8. ASSUME NEW t, t \notin {"TCP", "SQC"}
      PROVE  \A k \in DOMAIN b : b[k].type # t
  BY <1>4, <1>5, <1>8
<1>9. Owns(b, f, 3 * n)
  <2> DEFINE own(i, j) == f + 3 * i + j
  <2>1. ASSUME NEW k \in DOMAIN b, NEW x \in Range(b[k].seqs)
        PROVE  \E i \in 0 .. n - 1, j \in 0 .. 2 :
                 x = own(i, j) /\ k = IF j = 2 THEN i * 2 + 2 ELSE i * 2 + 1
    <3>1. PICK i \in 0 .. n - 1 :
            (k = i * 2 + 1 /\ b[k] = T(i)) \/ (k = i * 2 + 2 /\ b[k] = S(i))
      BY <1>5
    <3>2. CASE k = i * 2 + 1 /\ b[k] = T(i)
      <4>1. x = f + 3 * i \/ x = f + 3 * i + 1
        <5>1. x \in Range(T(i).seqs)
          BY <2>1, <3>2
        <5> QED
          BY <1>4, <3>1, <5>1
      <4>2. x = own(i, 0) \/ x = own(i, 1)
        BY <3>1, <4>1
      <4> QED
        BY <3>1, <3>2, <4>2
    <3>3. CASE k = i * 2 + 2 /\ b[k] = S(i)
      <4>1. x = own(i, 2)
        BY <1>4, <2>1, <3>1, <3>3
      <4> QED
        BY <3>1, <3>3, <4>1
    <3> QED
      BY <3>1, <3>2, <3>3
  <2>2. \A i \in 0 .. n - 1, j \in 0 .. 2 : own(i, j) \in f .. f + 3 * n - 1
    OBVIOUS
  <2>3. \A i, g \in 0 .. n - 1, j, h \in 0 .. 2 : own(i, j) = own(g, h) => i = g /\ j = h
    OBVIOUS
  <2>4. ASSUME NEW x \in f .. f + 3 * n - 1
        PROVE  \E k \in DOMAIN b : x \in Range(b[k].seqs)
    <3> DEFINE i == (x - f) \div 3
               j == (x - f) % 3
    <3>1. i \in 0 .. n - 1 /\ j \in 0 .. 2 /\ x = f + 3 * i + j
      OBVIOUS
    <3> HIDE DEF i, j
    <3>2. b[i * 2 + 1] = T(i) /\ b[i * 2 + 2] = S(i)
      BY DEF T, S
    <3>3. x \in Range(T(i).seqs) \/ x \in Range(S(i).seqs)
      <4>1. x = f + 3 * i \/ x = f + 3 * i + 1 \/ x = f + 3 * i + 2
        BY <3>1
      <4> QED
        BY <1>4, <3>1, <4>1
    <3> QED
      BY <1>4, <3>1, <3>2, <3>3
  <2>5. ASSUME NEW j \in DOMAIN b, NEW k \in DOMAIN b, NEW x \in Range(b[j].seqs),
               x \in Range(b[k].seqs)
        PROVE  j = k
    <3>1. PICK i \in 0 .. n - 1, g \in 0 .. 2 :
            x = own(i, g) /\ j = IF g = 2 THEN i * 2 + 2 ELSE i * 2 + 1
      BY <2>1
    <3>2. PICK l \in 0 .. n - 1, h \in 0 .. 2 :
            x = own(l, h) /\ k = IF h = 2 THEN l * 2 + 2 ELSE l * 2 + 1
      BY <2>1, <2>5
    <3>3. own(i, g) = own(l, h)
      BY <3>1, <3>2
    <3> HIDE DEF own
    <3>4. i = l /\ g = h
      BY <2>3, <3>1, <3>2, <3>3
    <3> QED
      BY <3>1, <3>2, <3>4
  <2>6. \A k \in DOMAIN b : \A x \in Range(b[k].seqs) : x \in f .. f + 3 * n - 1
    <3> HIDE DEF own
    <3> QED
      BY <2>1, <2>2
  <2> HIDE DEF own
  <2> QED
    BY <2>4, <2>5, <2>6 DEF Owns
<1> QED
  BY <1>6, <1>7, <1>8, <1>9 DEF CommandsCounted

LEMMA CommandMade ==
  ASSUME NEW s, Made(s), NEW b, NEW n \in Nat, NEW t0, NEW s0, NEW f, NEW bits, NEW r,
         t0 = Cardinality(OfType(s, "TCP")), s0 = Cardinality(OfType(s, "SQC")),
         f = Cardinality(Sequencers(s)), CommandPart(b, n, t0, s0, f, bits), r = s \o b
  PROVE  CommandsAdded(s, b, r, n, t0, s0, f)
<1>1. t0 \in Nat /\ s0 \in Nat /\ f \in Nat /\ Sequence(s) /\ Sequence(b)
  BY DEF Made, CommandPart
<1>2. CommandsCounted(b, n, t0, s0, f)
  BY <1>1, CommandCounted
<1>3. ASSUME NEW t, t \notin {"TCP", "SQC"}
      PROVE  Counts(b, t, Cardinality(OfType(s, t)), 0)
  <2>1. \A k \in DOMAIN b : b[k].type # t
    BY <1>2, <1>3 DEF CommandsCounted
  <2>2. Cardinality(OfType(s, t)) \in Nat
    BY DEF Made
  <2> QED
    BY <2>1, <2>2 DEF Counts
<1>4. Counts(b, "TCP", Cardinality(OfType(s, "TCP")), n)
  BY <1>2 DEF CommandsCounted
<1>5. Counts(b, "SQC", Cardinality(OfType(s, "SQC")), n)
  BY <1>2 DEF CommandsCounted
<1>10. \A t : \E m \in Nat : Counts(b, t, Cardinality(OfType(s, t)), m)
  <2> TAKE t
  <2>1. CASE t = "TCP"
    BY <1>4, <2>1
  <2>2. CASE t = "SQC"
    BY <1>5, <2>2
  <2>3. CASE t \notin {"TCP", "SQC"}
    BY <1>3, <2>3
  <2> QED
    BY <2>1, <2>2, <2>3
<1>11. 3 * n \in Nat
  OBVIOUS
<1>12. /\ Made(s \o b)
       /\ \A t : \A m \in Nat : Counts(b, t, Cardinality(OfType(s, t)), m) =>
            Cardinality(OfType(s \o b, t)) = Cardinality(OfType(s, t)) + m
       /\ Cardinality(Sequencers(s \o b)) = Cardinality(Sequencers(s)) + 3 * n
  <2>1. Owns(b, Cardinality(Sequencers(s)), 3 * n)
    BY <1>2 DEF CommandsCounted
  <2> QED
    BY <1>1, <1>10, <1>11, <2>1, MadeConcat
<1>13. \A t : t \notin {"TCP", "SQC"} =>
         Cardinality(OfType(s \o b, t)) = Cardinality(OfType(s, t))
  <2> TAKE t
  <2> HAVE t \notin {"TCP", "SQC"}
  <2>1. Cardinality(OfType(s \o b, t)) = Cardinality(OfType(s, t)) + 0
    BY <1>3, <1>12
  <2>2. Cardinality(OfType(s, t)) \in Nat
    BY DEF Made
  <2> QED
    BY <2>1, <2>2
<1>14. Cardinality(OfType(s \o b, "TCP")) = t0 + n
  BY <1>4, <1>12
<1>15. Cardinality(OfType(s \o b, "SQC")) = s0 + n
  BY <1>5, <1>12
<1>16. Range(s \o b) = Range(s) \cup Range(b)
  BY <1>1, Concat
<1> QED
  BY <1>12, <1>13, <1>14, <1>15, <1>16 DEF CommandsAdded

Begins(s, u, v, q) ==
  Made(s) /\ v = Cardinality(OfType(s, u)) /\ q = Cardinality(Sequencers(s))

Follows(s, b, r, m, u, w) == b = Created(s, m, u, w) /\ r = s \o b

LEMMA AddUnselected ==
  ASSUME NEW s, NEW m \in Nat, NEW u, NEW w \in Nat, NEW v, NEW q, Begins(s, u, v, q),
         NEW b, NEW r, Follows(s, b, r, m, u, w)
  PROVE  Added(s, b, r, m, u, w, v, q, None)
<1>1. v \in Nat /\ q \in Nat
  BY DEF Made, Begins
<1>2. CreatedAs(Created(s, m, u, w), m, u, v, q, w)
  BY <1>1, CreatedBlock DEF Begins
<1>3. CreatedAs(b, m, u, v, q, w)
  BY <1>2 DEF Follows
<1>4. Selecting(b, m, u, v, q, w, None)
  BY <1>3, SelectingCreated
<1>5. Block(b, m, u, v, q, w)
  BY <1>4 DEF Selecting
<1>6. /\ Made(s \o b)
      /\ Cardinality(OfType(s \o b, u)) = v + m
      /\ \A t : t # u => Cardinality(OfType(s \o b, t)) = Cardinality(OfType(s, t))
      /\ Cardinality(Sequencers(s \o b)) = q + m * w
  <2> HIDE DEF Follows
  <2>1. Made(s) /\ v = Cardinality(OfType(s, u)) /\ q = Cardinality(Sequencers(s))
    BY DEF Begins
  <2> QED
    BY <1>5, <2>1, MadeBlock
<1>7. Range(s \o b) = Range(s) \cup Range(b)
  BY <1>5, Concat DEF Made, Block, Begins
<1>8. r = s \o b
  BY DEF Follows
<1>9. Made(r) /\ Range(r) = Range(s) \cup Range(b)
  BY <1>6, <1>7, <1>8
<1>10. Cardinality(Sequencers(r)) = q + m * w
  BY <1>6, <1>8
<1>11. Cardinality(OfType(r, u)) = v + m
  BY <1>6, <1>8
<1>12. \A t : t # u => Cardinality(OfType(r, t)) = Cardinality(OfType(s, t))
  BY <1>6, <1>8
<1> QED
  BY <1>4, <1>9, <1>10, <1>11, <1>12 DEF Added

\* What the system of a GPU is made of: the numbers of its sequencers.
Bits(o)        == Log2(o.num_tccs)
FirstTCP(o)    == CorePairs(o) * 2
FirstSQC(o)    == FirstTCP(o) + o.num_compute_units * 2
FirstScalar(o) == FirstSQC(o) + o.num_sqc
FirstCP(o)     == FirstScalar(o) + o.num_scalar_cache

MyPairs(o)    == construct_corepairs(o, construct_dirs(o))
MyTCPs(o)     == construct_tcps(o, WithCorePairs(o))
MySQCs(o)     == construct_sqcs(o, WithTCPs(o))
MyScalars(o)  == construct_scalars(o, WithSQCs(o))
MyCmdprocs(o) == construct_cmdprocs(o, WithScalars(o))

ViperParts(o) ==
  /\ Selecting(MyPairs(o), CorePairs(o), "CorePair", 0, 0, 2, None)
  /\ Selecting(MyTCPs(o), o.num_compute_units, "TCP", 0, FirstTCP(o), 2, Bits(o))
  /\ Selecting(MySQCs(o), o.num_sqc, "SQC", 0, FirstSQC(o), 1, Bits(o))
  /\ Selecting(MyScalars(o), o.num_scalar_cache, "SQC", o.num_sqc, FirstScalar(o), 1, Bits(o))
  /\ CommandPart(MyCmdprocs(o), o.num_cp, o.num_compute_units, o.num_sqc + o.num_scalar_cache,
                 FirstCP(o), Bits(o))

ViperNumbers(o) ==
  /\ CorePairs(o) \in Nat /\ o.num_compute_units \in Nat /\ o.num_sqc \in Nat
  /\ o.num_scalar_cache \in Nat /\ o.num_cp \in Nat /\ o.num_tccs \in Nat
  /\ o.num_dirs \in Nat /\ o.dmas \in Nat
  /\ FirstTCP(o) \in Nat /\ FirstSQC(o) \in Nat /\ FirstScalar(o) \in Nat /\ FirstCP(o) \in Nat

LEMMA ViperNumbersOK ==
  ASSUME NEW o, Typed(o)
  PROVE  ViperNumbers(o)
<1>1. /\ o.num_cpus \in Nat /\ o.num_compute_units \in Nat /\ o.num_sqc \in Nat
      /\ o.num_scalar_cache \in Nat /\ o.num_cp \in Nat /\ o.num_tccs \in Nat
      /\ o.num_dirs \in Nat /\ o.dmas \in Nat
  BY DEF Typed
<1>2. CorePairs(o) \in Nat
  BY <1>1 DEF CorePairs
<1>3. FirstTCP(o) \in Nat /\ FirstSQC(o) \in Nat /\ FirstScalar(o) \in Nat /\ FirstCP(o) \in Nat
  BY <1>1, <1>2 DEF FirstTCP, FirstSQC, FirstScalar, FirstCP
<1> QED
  BY <1>1, <1>2, <1>3 DEF ViperNumbers

\* A controller without sequencers, whatever its type.
ViperCntrl(c, o) ==
  /\ c.type # "L2Cache" /\ c.cluster = 0 /\ (c.l2_select # None => c.l2_select = Bits(o))

LEMMA SelectingCntrls ==
  ASSUME NEW o, NEW b, NEW m \in Nat, NEW u, u # "L2Cache", NEW v, NEW q, NEW w,
         NEW bits, bits \in {None, Bits(o)}, Selecting(b, m, u, v, q, w, bits)
  PROVE  \A c \in Range(b) : ViperCntrl(c, o) /\ c.type = u
<1>1. Sequence(b) /\ Len(b) = m
  BY DEF Selecting, Block
<1> TAKE c \in Range(b)
<1>2. PICK k \in 1 .. m : c = b[k]
  BY <1>1, SequenceFacts
<1>3. b[k].type = u /\ b[k].cluster = 0 /\ b[k].l2_select = bits
  BY DEF Selecting, Block
<1> QED
  BY <1>2, <1>3 DEF ViperCntrl

ViperSystemMade(s, o) ==
  /\ Made(s) /\ Cardinality(OfType(s, "TCC")) = o.num_tccs
  /\ Cardinality(OfType(s, "CorePair")) = CorePairs(o)
  /\ Cardinality(Sequencers(s)) = FirstCP(o) + 3 * o.num_cp
  /\ \A c \in Range(s) : ViperCntrl(c, o)
  /\ \A c \in Range(MyPairs(o)) \cup Range(MyTCPs(o)) \cup Range(MySQCs(o))
               \cup Range(MyScalars(o)) \cup Range(MyCmdprocs(o)) : c \in Range(s)

LEMMA ViperMade ==
  ASSUME NEW o, Typed(o)
  PROVE  ViperParts(o) /\ ViperSystemMade(ViperCntrls(o), o)
<1> DEFINE D == construct_dirs(o)
           P == CorePairs(o)
           U == o.num_compute_units
           Q == o.num_sqc
           S == o.num_scalar_cache
           C == o.num_cp
           T == o.num_tccs
           e == <<>>
           sel(x) == SelectTCCs(o, x)
           s1 == WithCorePairs(o)
           s2 == WithTCPs(o)
           s3 == WithSQCs(o)
           s4 == WithScalars(o)
           s5 == WithCmdprocs(o)
           s6 == WithTCCs(o)
           s7 == ViperCntrls(o)
           tccs == Created(s5, T, "TCC", 0)
           dmas == Created(s6, o.dmas, "DMA", 0)
<1>1. /\ P \in Nat /\ U \in Nat /\ Q \in Nat /\ S \in Nat /\ C \in Nat /\ T \in Nat
      /\ o.num_dirs \in Nat /\ o.dmas \in Nat
      /\ FirstTCP(o) \in Nat /\ FirstSQC(o) \in Nat /\ FirstScalar(o) \in Nat /\ FirstCP(o) \in Nat
  BY ViperNumbersOK DEF ViperNumbers
<1>2. /\ D = Created(e, o.num_dirs, "Directory", 0)
      /\ s1 = D \o MyPairs(o) /\ MyPairs(o) = Created(D, P, "CorePair", 2)
      /\ s2 = s1 \o MyTCPs(o) /\ MyTCPs(o) = sel(Created(s1, U, "TCP", 2))
      /\ s3 = s2 \o MySQCs(o) /\ MySQCs(o) = sel(Created(s2, Q, "SQC", 1))
      /\ s4 = s3 \o MyScalars(o) /\ MyScalars(o) = sel(Created(s3, S, "SQC", 1))
      /\ s5 = s4 \o MyCmdprocs(o) /\ MyCmdprocs(o) = construct_cmdprocs(o, s4)
      /\ s6 = s5 \o tccs /\ tccs = Created(s5, T, "TCC", 0)
      /\ s7 = s6 \o dmas /\ dmas = Created(s6, o.dmas, "DMA", 0)
  BY DEF construct_dirs, WithCorePairs, WithTCPs, WithSQCs, WithScalars, WithCmdprocs, WithTCCs,
         ViperCntrls, MyPairs, MyTCPs, MySQCs, MyScalars, MyCmdprocs, construct_corepairs,
         construct_tcps, construct_sqcs, construct_scalars, construct_tccs
<1> HIDE DEF D, P, U, Q, S, C, T, e, sel, s1, s2, s3, s4, s5, s6, s7, tccs, dmas
<1>3. /\ Made(D) /\ \A t : t # "Directory" => Cardinality(OfType(D, t)) = 0
      /\ Cardinality(Sequencers(D)) = 0
      /\ \A c \in Range(D) : ViperCntrl(c, o) /\ c.type = "Directory"
  <2>1. Cardinality(OfType(e, "Directory")) = 0 /\ Cardinality(Sequencers(e)) = 0
    BY NothingMade DEF e
  <2>2. CreatedAs(Created(e, o.num_dirs, "Directory", 0), o.num_dirs, "Directory",
                  Cardinality(OfType(e, "Directory")), Cardinality(Sequencers(e)), 0)
    BY <1>1, <2>1, CreatedBlock
  <2>3. CreatedAs(D, o.num_dirs, "Directory", 0, 0, 0)
    BY <1>2, <2>1, <2>2
  <2>7. Block(D, o.num_dirs, "Directory", 0, 0, 0)
    BY <2>3 DEF CreatedAs
  <2>8. o.num_dirs \in Nat /\ 0 \in Nat
    BY <1>1
  <2>9. /\ Made(D) /\ \A t : t # "Directory" => Cardinality(OfType(D, t)) = 0
        /\ Cardinality(Sequencers(D)) = 0
    BY <2>7, <2>8, FirstQuietBlock
  <2>4. /\ Made(D) /\ \A t : t # "Directory" => Cardinality(OfType(D, t)) = 0
        /\ Cardinality(Sequencers(D)) = 0
    BY <2>9
  <2>5. Selecting(D, o.num_dirs, "Directory", 0, 0, 0, None)
    BY <1>1, <2>3, SelectingCreated
  <2>6. \A c \in Range(D) : ViperCntrl(c, o) /\ c.type = "Directory"
    BY <1>1, <2>5, SelectingCntrls
  <2> QED
    BY <1>1, <2>4, <2>6
<1>4. /\ Selecting(MyPairs(o), P, "CorePair", 0, 0, 2, None)
      /\ Made(s1) /\ Cardinality(OfType(s1, "CorePair")) = P
      /\ \A t : t \notin {"Directory", "CorePair"} => Cardinality(OfType(s1, t)) = 0
      /\ Cardinality(Sequencers(s1)) = FirstTCP(o)
      /\ Range(s1) = Range(D) \cup Range(MyPairs(o))
  <2>1. Added(D, MyPairs(o), s1, P, "CorePair", 2, 0, 0, None)
    BY <1>1, <1>2, <1>3, AddCreated
  <2>2. 0 + P = P /\ 0 + P * 2 = FirstTCP(o)
    BY <1>1 DEF FirstTCP, P
  <2> QED
    BY <1>3, <2>1, <2>2 DEF Added
<1>5. /\ Selecting(MyTCPs(o), U, "TCP", 0, FirstTCP(o), 2, Bits(o))
      /\ Made(s2) /\ Cardinality(OfType(s2, "CorePair")) = P
      /\ Cardinality(OfType(s2, "TCP")) = U
      /\ \A t : t \notin {"Directory", "CorePair", "TCP"} => Cardinality(OfType(s2, t)) = 0
      /\ Cardinality(Sequencers(s2)) = FirstSQC(o)
      /\ Range(s2) = Range(s1) \cup Range(MyTCPs(o))
  <2>1. Added(s1, MyTCPs(o), s2, U, "TCP", 2, 0, FirstTCP(o), Bits(o))
    BY <1>1, <1>2, <1>4, AddCreated DEF sel, Bits
  <2>2. 0 + U = U /\ FirstTCP(o) + U * 2 = FirstSQC(o)
    BY <1>1 DEF FirstSQC, U
  <2> QED
    BY <1>4, <2>1, <2>2 DEF Added
<1>6. /\ Selecting(MySQCs(o), Q, "SQC", 0, FirstSQC(o), 1, Bits(o))
      /\ Made(s3) /\ Cardinality(OfType(s3, "CorePair")) = P
      /\ Cardinality(OfType(s3, "TCP")) = U /\ Cardinality(OfType(s3, "SQC")) = Q
      /\ \A t : t \notin {"Directory", "CorePair", "TCP", "SQC"} =>
           Cardinality(OfType(s3, t)) = 0
      /\ Cardinality(Sequencers(s3)) = FirstScalar(o)
      /\ Range(s3) = Range(s2) \cup Range(MySQCs(o))
  <2>1. Added(s2, MySQCs(o), s3, Q, "SQC", 1, 0, FirstSQC(o), Bits(o))
    BY <1>1, <1>2, <1>5, AddCreated DEF sel, Bits
  <2>2. 0 + Q = Q /\ FirstSQC(o) + Q * 1 = FirstScalar(o)
    BY <1>1 DEF FirstScalar, Q
  <2> QED
    BY <1>5, <2>1, <2>2 DEF Added
<1>7. /\ Selecting(MyScalars(o), S, "SQC", Q, FirstScalar(o), 1, Bits(o))
      /\ Made(s4) /\ Cardinality(OfType(s4, "CorePair")) = P
      /\ Cardinality(OfType(s4, "TCP")) = U /\ Cardinality(OfType(s4, "SQC")) = Q + S
      /\ \A t : t \notin {"Directory", "CorePair", "TCP", "SQC"} =>
           Cardinality(OfType(s4, t)) = 0
      /\ Cardinality(Sequencers(s4)) = FirstCP(o)
      /\ Range(s4) = Range(s3) \cup Range(MyScalars(o))
  <2>1. Added(s3, MyScalars(o), s4, S, "SQC", 1, Q, FirstScalar(o), Bits(o))
    BY <1>1, <1>2, <1>6, AddCreated DEF sel, Bits
  <2>2. FirstScalar(o) + S * 1 = FirstCP(o)
    BY <1>1 DEF FirstCP, S
  <2> QED
    BY <1>6, <2>1, <2>2 DEF Added
<1>8. CommandPart(MyCmdprocs(o), C, U, Q + S, FirstCP(o), Bits(o))
  BY <1>1, <1>2, <1>7, CommandProcessors DEF C, Bits
<1>9. /\ Made(s5) /\ Cardinality(OfType(s5, "CorePair")) = P
      /\ Cardinality(OfType(s5, "TCC")) = 0 /\ Cardinality(OfType(s5, "DMA")) = 0
      /\ Cardinality(Sequencers(s5)) = FirstCP(o) + 3 * C
      /\ Range(s5) = Range(s4) \cup Range(MyCmdprocs(o))
  <2>1. CommandsAdded(s4, MyCmdprocs(o), s5, C, U, Q + S, FirstCP(o))
    BY <1>1, <1>2, <1>7, <1>8, CommandMade
  <2> QED
    BY <1>7, <2>1 DEF CommandsAdded
<1> DEFINE q == FirstCP(o) + 3 * C
<1>10. q \in Nat
  BY <1>1
<1>11. Cardinality(Sequencers(s5)) = q
  BY <1>9
<1> HIDE DEF q
<1>12. /\ Selecting(tccs, T, "TCC", 0, q, 0, None)
       /\ Made(s6) /\ Cardinality(OfType(s6, "TCC")) = T
       /\ Cardinality(OfType(s6, "CorePair")) = P /\ Cardinality(OfType(s6, "DMA")) = 0
       /\ Cardinality(Sequencers(s6)) = q
       /\ Range(s6) = Range(s5) \cup Range(tccs)
  <2>1. Added(s5, tccs, s6, T, "TCC", 0, 0, q, None)
    <3>1. Begins(s5, "TCC", 0, q)
      BY <1>9, <1>11 DEF Begins
    <3>2. Follows(s5, tccs, s6, T, "TCC", 0)
      BY <1>2 DEF Follows
    <3> QED
      BY <1>1, <3>1, <3>2, AddUnselected
  <2>2. 0 + T = T /\ q + T * 0 = q
    BY <1>1, <1>10
  <2> QED
    BY <1>9, <2>1, <2>2 DEF Added
<1>13. /\ Selecting(dmas, o.dmas, "DMA", 0, q, 0, None)
       /\ Made(s7) /\ Cardinality(OfType(s7, "TCC")) = T
       /\ Cardinality(OfType(s7, "CorePair")) = P
       /\ Cardinality(Sequencers(s7)) = q
       /\ Range(s7) = Range(s6) \cup Range(dmas)
  <2>1. Added(s6, dmas, s7, o.dmas, "DMA", 0, 0, q, None)
    <3>1. Begins(s6, "DMA", 0, q)
      BY <1>12 DEF Begins
    <3>2. Follows(s6, dmas, s7, o.dmas, "DMA", 0)
      BY <1>2 DEF Follows
    <3> QED
      BY <1>1, <3>1, <3>2, AddUnselected
  <2>2. q + o.dmas * 0 = q
    BY <1>1, <1>10
  <2> QED
    BY <1>12, <2>1, <2>2 DEF Added
<1>14. /\ \A c \in Range(MyPairs(o)) : ViperCntrl(c, o)
       /\ \A c \in Range(MyTCPs(o)) : ViperCntrl(c, o)
       /\ \A c \in Range(MySQCs(o)) : ViperCntrl(c, o)
       /\ \A c \in Range(MyScalars(o)) : ViperCntrl(c, o)
       /\ \A c \in Range(tccs) : ViperCntrl(c, o)
       /\ \A c \in Range(dmas) : ViperCntrl(c, o)
  BY <1>1, <1>4, <1>5, <1>6, <1>7, <1>12, <1>13, SelectingCntrls
<1>15. \A c \in Range(MyCmdprocs(o)) : ViperCntrl(c, o)
  <2>1. Sequence(MyCmdprocs(o)) /\ Len(MyCmdprocs(o)) = C * 2
    BY <1>8 DEF CommandPart
  <2> TAKE c \in Range(MyCmdprocs(o))
  <2>2. PICK k \in 1 .. C * 2 : c = MyCmdprocs(o)[k]
    BY <2>1, SequenceFacts
  <2>3. PICK i \in 0 .. C - 1 : k = i * 2 + 1 \/ k = i * 2 + 2
    BY <1>8 DEF CommandPart
  <2> QED
    BY <1>8, <2>2, <2>3 DEF CommandPart, CommandTCP, CommandSQC, ViperCntrl
<1>16. Range(s7) = Range(D) \cup Range(MyPairs(o)) \cup Range(MyTCPs(o)) \cup Range(MySQCs(o))
                   \cup Range(MyScalars(o)) \cup Range(MyCmdprocs(o)) \cup Range(tccs)
                   \cup Range(dmas)
  BY <1>4, <1>5, <1>6, <1>7, <1>9, <1>12, <1>13
<1>17. \A c \in Range(s7) : ViperCntrl(c, o)
  BY <1>3, <1>14, <1>15, <1>16
<1>18. ViperParts(o)
  BY <1>4, <1>5, <1>6, <1>7, <1>8 DEF ViperParts, P, U, Q, S, C
<1>19. ViperSystemMade(s7, o)
  BY <1>13, <1>16, <1>17 DEF ViperSystemMade, T, P, q, C
<1> QED
  BY <1>18, <1>19 DEF s7

-----------------------------------------------------------------------------
(* What the protocols make.                                                *)

Refused(o) == create_system(o).refuses

\* The protocols whose CPUs have one sequencer each: the ports are theirs.
Flat(o) == Typed(o) /\ o.protocol \notin {"CHI", "GPU_VIPER"} /\ ~Refused(o)

OwnPorts(p, n) == p = [k \in 1 .. n |-> Port("cpu", k - 1, k - 1)]

FlatMade(r, o) ==
  /\ OwnPorts(r.ports, o.num_cpus)
  /\ BanksFill(r.cntrls)
  /\ \E t \in {"L0Cache", "L1Cache"} : OwnSequencers(r.cntrls, o.num_cpus, t)

LEMMA SystemFacts ==
  ASSUME NEW o, NEW s, NEW caches, BanksFill(s), NEW t \in {"L0Cache", "L1Cache"},
         OwnSequencers(s, o.num_cpus, t)
  PROVE  FlatMade(System(o, s, caches), o)
<1>1. System(o, s, caches).ports = [k \in 1 .. o.num_cpus |-> Port("cpu", k - 1, k - 1)]
  BY DEF System, Each
<1>2. System(o, s, caches).cntrls = s
  BY DEF System
<1> QED
  BY <1>1, <1>2 DEF FlatMade, OwnPorts

LEMMA SharedOK ==
  ASSUME NEW o, Typed(o), NEW caches
  PROVE  FlatMade(System(o, SharedL2s(o) \o Directories(o) \o DMAs(o), caches), o)
<1>1. "L1Cache" \in {"L0Cache", "L1Cache"}
  OBVIOUS
<1> QED
  BY <1>1, SharedSystem, SystemFacts

LEMMA PrivateOK ==
  ASSUME NEW o, Typed(o), NEW b, Private(b, o.num_cpus), NEW caches
  PROVE  /\ FlatMade(System(o, b \o Directories(o) \o DMAs(o), caches), o)
         /\ FlatMade(System(o, b \o Directories(o), caches), o)
         /\ FlatMade(System(o, b \o Created(b, 1, "Directory", 0), caches), o)
<1>1. "L1Cache" \in {"L0Cache", "L1Cache"} /\ o.num_cpus \in Nat
  BY DEF Typed
<1>2. FlatMade(System(o, b \o Directories(o) \o DMAs(o), caches), o)
  BY <1>1, PrivateSystem, NoBanks, SystemFacts
<1>3. FlatMade(System(o, b \o Directories(o), caches), o)
  BY <1>1, PrivateWithDirectories, NoBanks, SystemFacts
<1>4. FlatMade(System(o, b \o Created(b, 1, "Directory", 0), caches), o)
  BY <1>1, TutorialSystem, NoBanks, SystemFacts
<1> QED
  BY <1>2, <1>3, <1>4

LEMMA ThreeLevelOK ==
  ASSUME NEW o, Typed(o), ~MESI_Three_Level(o).refuses
  PROVE  /\ Clustered(o) /\ FlatMade(MESI_Three_Level(o), o)
         /\ MESI_Three_Level(o).cntrls = ThreeLevelCntrls(o)
<1>1. /\ Clustered(o)
      /\ MESI_Three_Level(o)
           = System(o, ThreeLevelCntrls(o), IF o.full_system THEN {} ELSE ThreeLevelCaches(o))
  BY DEF MESI_Three_Level, Refuse, Clustered
<1>2. "L0Cache" \in {"L0Cache", "L1Cache"}
  OBVIOUS
<1>3. FlatMade(MESI_Three_Level(o), o)
  BY <1>1, <1>2, ThreeLevelSystem, SystemFacts
<1> QED
  BY <1>1, <1>3 DEF System

\* The protocol's own create_system().
LEMMA OfProtocol ==
  ASSUME NEW o
  PROVE  /\ o.protocol = "MESI_Two_Level" => create_system(o) = MESI_Two_Level(o)
         /\ o.protocol = "MESI_Three_Level" => create_system(o) = MESI_Three_Level(o)
         /\ o.protocol = "MESI_Three_Level_HTM" => create_system(o) = MESI_Three_Level_HTM(o)
         /\ o.protocol = "MI_example" => create_system(o) = MI_example(o)
         /\ o.protocol = "MOESI_CMP_token" => create_system(o) = MOESI_CMP_token(o)
         /\ o.protocol = "MOESI_CMP_directory" => create_system(o) = MOESI_CMP_directory(o)
         /\ o.protocol = "MOESI_hammer" => create_system(o) = MOESI_hammer(o)
         /\ o.protocol = "Garnet_standalone" => create_system(o) = Garnet_standalone(o)
         /\ o.protocol = "CHI" => create_system(o) = CHI(o)
         /\ o.protocol = "GPU_VIPER" => create_system(o) = GPU_VIPER(o)
         /\ o.protocol = "MOESI_AMD_Base" => create_system(o) = Refuse
<1>1. ASSUME o.protocol = "MESI_Two_Level" PROVE create_system(o) = MESI_Two_Level(o)
  BY <1>1 DEF create_system
<1>2. ASSUME o.protocol = "MESI_Three_Level" PROVE create_system(o) = MESI_Three_Level(o)
  BY <1>2 DEF create_system
<1>3. ASSUME o.protocol = "MESI_Three_Level_HTM" PROVE create_system(o) = MESI_Three_Level_HTM(o)
  BY <1>3 DEF create_system
<1>4. ASSUME o.protocol = "MI_example" PROVE create_system(o) = MI_example(o)
  BY <1>4 DEF create_system
<1>5. ASSUME o.protocol = "MOESI_CMP_token" PROVE create_system(o) = MOESI_CMP_token(o)
  BY <1>5 DEF create_system
<1>6. ASSUME o.protocol = "MOESI_CMP_directory" PROVE create_system(o) = MOESI_CMP_directory(o)
  BY <1>6 DEF create_system
<1>7. ASSUME o.protocol = "MOESI_hammer" PROVE create_system(o) = MOESI_hammer(o)
  BY <1>7 DEF create_system
<1>8. ASSUME o.protocol = "Garnet_standalone" PROVE create_system(o) = Garnet_standalone(o)
  BY <1>8 DEF create_system
<1>9. ASSUME o.protocol = "CHI" PROVE create_system(o) = CHI(o)
  BY <1>9 DEF create_system
<1>10. ASSUME o.protocol = "GPU_VIPER" PROVE create_system(o) = GPU_VIPER(o)
  BY <1>10 DEF create_system
<1>11. ASSUME o.protocol = "MOESI_AMD_Base" PROVE create_system(o) = Refuse
  BY <1>11 DEF create_system
<1> QED
  BY <1>1, <1>2, <1>3, <1>4, <1>5, <1>6, <1>7, <1>8, <1>9, <1>10, <1>11

LEMMA FlatSystem ==
  ASSUME NEW o, Flat(o)
  PROVE  FlatMade(create_system(o), o)
<1>1. Typed(o) /\ o.num_cpus \in Nat /\ o.protocol \in Protocols
  BY DEF Flat, Typed
<1>2. CASE o.protocol \in {"MESI_Two_Level", "MOESI_CMP_token", "MOESI_CMP_directory"}
  <2>1. create_system(o) = System(o, SharedL2s(o) \o Directories(o) \o DMAs(o), {})
    BY <1>2, OfProtocol DEF Flat, Refused, MESI_Two_Level, MOESI_CMP_token,
                MOESI_CMP_directory, Refuse
  <2> QED
    BY <1>1, <2>1, SharedOK
<1>3. CASE o.protocol \in {"MI_example", "MOESI_hammer"}
  <2>1. \E caches :
          create_system(o) = System(o, PrivateL1s(o) \o Directories(o) \o DMAs(o), caches)
    BY <1>3, OfProtocol DEF Flat, Refused, MI_example, MOESI_hammer, Refuse
  <2> QED
    BY <1>1, <2>1, PrivateL1sOK, PrivateOK
<1>4. CASE o.protocol = "Garnet_standalone"
  <2> DEFINE b == Each(o.num_cpus, LAMBDA i : [Cntrl("L1Cache", i) EXCEPT !.seqs = <<i>>])
  <2>1. create_system(o) = System(o, b \o Directories(o), {})
    BY <1>4, OfProtocol DEF Flat, Refused, Garnet_standalone, Refuse
  <2>2. Private(b, o.num_cpus)
    BY <1>1, GarnetL1sOK
  <2> HIDE DEF b
  <2> QED
    BY <1>1, <2>1, <2>2, PrivateOK
<1>5. CASE o.protocol = "MSI"
  <2> DEFINE L1s == Created(<<>>, o.num_cpus, "L1Cache", 1)
             My  == [k \in DOMAIN L1s |-> [L1s[k] EXCEPT !.clock = k - 1]]
  <2>1. o.script = "simple_ruby" \/ o.script = "ruby_test"
    BY <1>1, <1>5 DEF Typed, Tutorials
  <2>2. MyL1s(o) = My
    BY DEF MyL1s
  <2>3. Private(L1s, o.num_cpus) /\ Private(My, o.num_cpus)
    BY <1>1, TestL1sOK
  <2>4. TestCacheSystem(o) = IF o.num_dirs > 1 THEN Refuse
                             ELSE System(o, L1s \o Created(L1s, 1, "Directory", 0), {})
    BY DEF TestCacheSystem
  <2> HIDE DEF L1s, My
  <2>5. CASE o.script = "simple_ruby"
    <3>1. create_system(o) = System(o, My \o Created(My, 1, "Directory", 0), {})
      BY <1>5, <2>2, <2>5 DEF Flat, Refused, create_system, MyCacheSystem, Refuse
    <3> QED
      BY <1>1, <2>3, <3>1, PrivateOK
  <2>6. CASE o.script = "ruby_test"
    <3>1. create_system(o) = System(o, L1s \o Created(L1s, 1, "Directory", 0), {})
      BY <1>5, <2>4, <2>6 DEF Flat, Refused, create_system, Refuse
    <3> QED
      BY <1>1, <2>3, <3>1, PrivateOK
  <2> QED
    BY <2>1, <2>5, <2>6
<1>6. CASE o.protocol \in {"MESI_Three_Level", "MESI_Three_Level_HTM"}
  <2>1. create_system(o) = MESI_Three_Level(o)
    BY <1>6, OfProtocol DEF MESI_Three_Level_HTM
  <2> QED
    BY <1>1, <2>1, ThreeLevelOK DEF Flat, Refused
<1>7. CASE o.protocol = "MOESI_AMD_Base"
  BY <1>7, OfProtocol DEF Flat, Refused, Refuse
<1> QED
  BY <1>1, <1>2, <1>3, <1>4, <1>5, <1>6, <1>7 DEF Flat, Protocols

LEMMA CHIFacts ==
  ASSUME NEW o, Typed(o), o.protocol = "CHI", ~Refused(o)
  PROVE  /\ CHIMade(create_system(o).cntrls, o) /\ o.num_l3caches # 0
         /\ create_system(o).cntrls = network_cntrls(o)
         /\ create_system(o).ports = [k \in 1 .. o.num_cpus |-> CPUSequencerWrapper(k - 1)]
<1>1. create_system(o) = CHI(o)
  BY OfProtocol
<1>2. /\ o.num_l3caches >= 1 /\ CHI(o).cntrls = network_cntrls(o)
      /\ CHI(o).ports = [k \in 1 .. o.num_cpus |-> CPUSequencerWrapper(k - 1)]
  BY <1>1 DEF Refused, CHI, Refuse, Each, Typed
<1>3. CHIMade(network_cntrls(o), o)
  BY CHISystem
<1> QED
  BY <1>1, <1>2, <1>3

LEMMA ViperFacts ==
  ASSUME NEW o, Typed(o), o.protocol = "GPU_VIPER", ~Refused(o)
  PROVE  /\ ViperParts(o) /\ ViperSystemMade(create_system(o).cntrls, o)
         /\ create_system(o).cntrls = ViperCntrls(o)
         /\ create_system(o).ports = cpu_sequencers(o)
<1>1. create_system(o) = GPU_VIPER(o)
  BY OfProtocol
<1>2. GPU_VIPER(o).cntrls = ViperCntrls(o) /\ GPU_VIPER(o).ports = cpu_sequencers(o)
  BY <1>1 DEF Refused, GPU_VIPER, Refuse
<1> QED
  BY <1>1, <1>2, ViperMade

\* Whatever the protocol, the system that it makes is complete.
LEMMA SystemMade ==
  ASSUME NEW o, Typed(o), ~Refused(o)
  PROVE  Made(create_system(o).cntrls) /\ BanksFill(create_system(o).cntrls)
<1> DEFINE s == create_system(o).cntrls
<1>1. CASE o.protocol = "CHI"
  <2>1. CHIMade(s, o)
    BY <1>1, CHIFacts
  <2> HIDE DEF s
  <2>2. \A c \in Range(s) : c.l2_select = None
    BY <2>1 DEF CHIMade, RequestL1, RequestL2, HomeNode, MemoryNode, IONode
  <2>3. Made(s)
    BY <2>1 DEF CHIMade
  <2> QED
    BY <2>2, <2>3, NoBanks DEF s
<1>2. CASE o.protocol = "GPU_VIPER"
  <2>1. ViperSystemMade(s, o)
    BY <1>2, ViperFacts
  <2> HIDE DEF s
  <2>2. Made(s) /\ Cardinality(OfType(s, "TCC")) = o.num_tccs /\ \A c \in Range(s) : ViperCntrl(c, o)
    BY <2>1 DEF ViperSystemMade
  <2>3. \A c \in Range(s) : c.l2_select # None =>
          c.cluster = 0 /\ c.l2_select = Log2(Cardinality(OfType(s, "TCC")))
    BY <2>2 DEF ViperCntrl, Bits
  <2>4. \A c \in Range(s) : c.type \in {"L2Cache", "TCC"} => c.type = "TCC" /\ c.cluster = 0
    BY <2>2 DEF ViperCntrl
  <2>5. BanksFill(s)
    BY <2>2, <2>3, <2>4, OneClusterOfBanks
  <2> QED
    BY <2>2, <2>5 DEF s
<1>3. CASE o.protocol \notin {"CHI", "GPU_VIPER"}
  BY <1>3, FlatSystem DEF Flat, FlatMade, OwnSequencers
<1> QED
  BY <1>1, <1>2, <1>3

-----------------------------------------------------------------------------
(* The inductive invariant: what the stages that are done have left.       *)

\* What a script can have left to do; a tutorial makes the guest's files last.
EarlyRests ==
  {<<"tlbs", "filesystem", "protocol", "topology", "network", "connect">>,
   <<"filesystem", "protocol", "topology", "network", "connect">>,
   <<"protocol", "topology", "network", "connect">>,
   <<"topology", "network", "connect">>, <<"network", "connect">>, <<"connect">>, <<>>}

LateRests ==
  {<<"protocol", "topology", "network", "connect", "filesystem">>,
   <<"topology", "network", "connect", "filesystem">>, <<"network", "connect", "filesystem">>,
   <<"connect", "filesystem">>, <<"filesystem">>, <<>>}

Rests(script) ==
  {t \in EarlyRests \cup LateRests :
     /\ "tlbs" \in Range(t) => script = "apu_se"
     /\ t \in EarlyRests \/ script = "simple_ruby"}

Left(stage) == stage \in Range(todo)

NothingBuilt ==
  /\ cntrls = <<>> /\ ports = <<>> /\ net = NoNetwork /\ links = {} /\ tlbs = NoTLBs
  /\ guest.caches = {} /\ DOMAIN guest = {"online", "caches"}

\* The script runs with the options of a command that it does not refuse.
Running == \E c \in Commands : ~ScriptRefuses(c) /\ opts = Options(c)

MadeSystem ==
  IF Left("protocol") THEN cntrls = <<>> /\ ports = <<>>
  ELSE /\ ~Refused(opts)
       /\ cntrls = create_system(opts).cntrls
       /\ ports = create_system(opts).ports

MadeNetwork ==
  IF Left("topology") THEN net = NoNetwork
  ELSE ~TopologyFails(opts) /\ net = create_topology(opts, cntrls)

MadeLinks == links = IF Left("connect") THEN {} ELSE Connections(opts, ports)

MadeTLBs ==
  \/ tlbs = NoTLBs
  \/ opts.script = "apu_se" /\ ~TLBsFail(opts) /\ tlbs = config_tlb_hierarchy(opts)

\* The guest's files are made anew before the protocol adds to them, but in a
\* tutorial.
MadeFiles ==
  /\ DOMAIN guest = {"online", "caches"}
  /\ opts.script # "simple_ruby" =>
       guest.caches = IF Left("protocol") THEN {} ELSE create_system(opts).caches

Building ==
  /\ Running /\ todo \in Rests(opts.script)
  /\ MadeSystem /\ MadeNetwork /\ MadeLinks /\ MadeTLBs /\ MadeFiles

RubyInv ==
  /\ failed \in BOOLEAN
  /\ \/ todo = <<"script">> /\ opts \in Commands /\ NothingBuilt
     \/ Building

LEMMA Tuples ==
  /\ Range(<<>>) = {}
  /\ \A a : Head(<<a>>) = a /\ Tail(<<a>>) = <<>> /\ Range(<<a>>) = {a}
  /\ \A a, b : Head(<<a, b>>) = a /\ Tail(<<a, b>>) = <<b>> /\ Range(<<a, b>>) = {a, b}
  /\ \A a, b, c : /\ Head(<<a, b, c>>) = a /\ Tail(<<a, b, c>>) = <<b, c>>
                  /\ Range(<<a, b, c>>) = {a, b, c}
  /\ \A a, b, c, d : /\ Head(<<a, b, c, d>>) = a /\ Tail(<<a, b, c, d>>) = <<b, c, d>>
                     /\ Range(<<a, b, c, d>>) = {a, b, c, d}
  /\ \A a, b, c, d, e :
       /\ Head(<<a, b, c, d, e>>) = a /\ Tail(<<a, b, c, d, e>>) = <<b, c, d, e>>
       /\ Range(<<a, b, c, d, e>>) = {a, b, c, d, e}
  /\ \A a, b, c, d, e, f :
       /\ Head(<<a, b, c, d, e, f>>) = a /\ Tail(<<a, b, c, d, e, f>>) = <<b, c, d, e, f>>
       /\ Range(<<a, b, c, d, e, f>>) = {a, b, c, d, e, f}
<1>1. Range(<<>>) = {}
  BY DEF Range
<1>2. \A a : Head(<<a>>) = a /\ Tail(<<a>>) = <<>> /\ Range(<<a>>) = {a}
  BY DEF Range
<1>3. \A a, b : Head(<<a, b>>) = a /\ Tail(<<a, b>>) = <<b>> /\ Range(<<a, b>>) = {a, b}
  BY DEF Range
<1>4. \A a, b, c : /\ Head(<<a, b, c>>) = a /\ Tail(<<a, b, c>>) = <<b, c>>
                   /\ Range(<<a, b, c>>) = {a, b, c}
  BY DEF Range
<1>5. \A a, b, c, d : /\ Head(<<a, b, c, d>>) = a /\ Tail(<<a, b, c, d>>) = <<b, c, d>>
                      /\ Range(<<a, b, c, d>>) = {a, b, c, d}
  BY DEF Range
<1>6. \A a, b, c, d, e :
        /\ Head(<<a, b, c, d, e>>) = a /\ Tail(<<a, b, c, d, e>>) = <<b, c, d, e>>
        /\ Range(<<a, b, c, d, e>>) = {a, b, c, d, e}
  BY DEF Range
<1>7. \A a, b, c, d, e, f :
        /\ Head(<<a, b, c, d, e, f>>) = a /\ Tail(<<a, b, c, d, e, f>>) = <<b, c, d, e, f>>
        /\ Range(<<a, b, c, d, e, f>>) = {a, b, c, d, e, f}
  BY DEF Range
<1> QED
  BY <1>1, <1>2, <1>3, <1>4, <1>5, <1>6, <1>7

\* The stages keep their order: the head is done, and what it leaves for later.
RestFact(t) ==
  /\ "script" \notin Range(t)
  /\ t # <<>> => Head(t) \in Range(t) /\ Range(Tail(t)) = Range(t) \ {Head(t)}
  /\ "protocol" \in Range(t) => "topology" \in Range(t)
  /\ "topology" \in Range(t) => "network" \in Range(t)
  /\ "network" \in Range(t) => "connect" \in Range(t)
  /\ t # <<>> /\ Head(t) = "topology" => "protocol" \notin Range(t)
  /\ t # <<>> /\ Head(t) = "network" => "topology" \notin Range(t)
  /\ t # <<>> /\ Head(t) = "connect" => "network" \notin Range(t)

LEMMA EarlyFacts ==
  /\ \A t \in EarlyRests :
       /\ RestFact(t) /\ (t # <<>> => Tail(t) \in EarlyRests)
       /\ t # <<>> /\ Head(t) = "filesystem" => "protocol" \in Range(t)
  /\ \A t \in LateRests : RestFact(t) /\ (t # <<>> => Tail(t) \in LateRests)
<1> USE Tuples
<1> DEFINE E(t) == /\ RestFact(t) /\ (t # <<>> => Tail(t) \in EarlyRests)
                   /\ t # <<>> /\ Head(t) = "filesystem" => "protocol" \in Range(t)
           L(t) == RestFact(t) /\ (t # <<>> => Tail(t) \in LateRests)
<1>1. E(<<"tlbs", "filesystem", "protocol", "topology", "network", "connect">>)
  BY DEF RestFact, EarlyRests
<1>2. E(<<"filesystem", "protocol", "topology", "network", "connect">>)
  BY DEF RestFact, EarlyRests
<1>3. E(<<"protocol", "topology", "network", "connect">>)
  BY DEF RestFact, EarlyRests
<1>4. E(<<"topology", "network", "connect">>)
  BY DEF RestFact, EarlyRests
<1>5. E(<<"network", "connect">>)
  BY DEF RestFact, EarlyRests
<1>6. E(<<"connect">>)
  BY DEF RestFact, EarlyRests
<1>7. E(<<>>)
  BY DEF RestFact, EarlyRests
<1>8. L(<<"protocol", "topology", "network", "connect", "filesystem">>)
  BY DEF RestFact, LateRests
<1>9. L(<<"topology", "network", "connect", "filesystem">>)
  BY DEF RestFact, LateRests
<1>10. L(<<"network", "connect", "filesystem">>)
  BY DEF RestFact, LateRests
<1>11. L(<<"connect", "filesystem">>)
  BY DEF RestFact, LateRests
<1>12. L(<<"filesystem">>)
  BY DEF RestFact, LateRests
<1>13. L(<<>>)
  BY DEF RestFact, LateRests
<1> HIDE DEF E, L
<1>14. \A t \in EarlyRests : E(t)
  BY <1>1, <1>2, <1>3, <1>4, <1>5, <1>6, <1>7 DEF EarlyRests
<1>15. \A t \in LateRests : L(t)
  BY <1>8, <1>9, <1>10, <1>11, <1>12, <1>13 DEF LateRests
<1> QED
  BY <1>14, <1>15 DEF E, L

LEMMA RestsFacts ==
  ASSUME NEW t, NEW script, t \in Rests(script)
  PROVE  /\ RestFact(t)
         /\ t # <<>> => Tail(t) \in Rests(script)
         /\ t # <<>> /\ Head(t) = "filesystem" /\ script # "simple_ruby" => "protocol" \in Range(t)
         /\ t # <<>> /\ Head(t) = "tlbs" => script = "apu_se"
<1>1. \/ t \in EarlyRests
      \/ t \in LateRests /\ script = "simple_ruby"
  BY DEF Rests
<1>2. "tlbs" \in Range(t) => script = "apu_se"
  BY DEF Rests
<1>3. RestFact(t)
  BY <1>1, EarlyFacts
<1>4. ASSUME t # <<>>
      PROVE  Tail(t) \in Rests(script) /\ Head(t) \in Range(t)
  <2>1. Range(Tail(t)) = Range(t) \ {Head(t)} /\ Head(t) \in Range(t)
    BY <1>3, <1>4 DEF RestFact
  <2>2. \/ Tail(t) \in EarlyRests
        \/ Tail(t) \in LateRests /\ script = "simple_ruby"
    BY <1>1, <1>4, EarlyFacts
  <2> QED
    BY <1>2, <2>1, <2>2 DEF Rests
<1>5. t # <<>> /\ Head(t) = "filesystem" /\ script # "simple_ruby" => "protocol" \in Range(t)
  BY <1>1, EarlyFacts
<1> QED
  BY <1>2, <1>3, <1>4, <1>5

LEMMA Longer ==
  \A a, b, c, d, e, f : /\ Append(<<a, b, c, d>>, e) = <<a, b, c, d, e>>
                        /\ <<f>> \o <<e, a, b, c, d>> = <<f, e, a, b, c, d>>
<1> TAKE a, b, c, d, e, f
<1> DEFINE S    == {a, b, c, d, e, f}
           four == <<a, b, c, d>>
           five == <<a, b, c, d, e>>
           more == <<e, a, b, c, d>>
           one  == <<f>>
           six  == <<f, e, a, b, c, d>>
<1>1. four \in Seq(S) /\ five \in Seq(S) /\ more \in Seq(S) /\ one \in Seq(S) /\ six \in Seq(S)
  OBVIOUS
<1>2. Len(four) = 4 /\ Len(five) = 5 /\ Len(more) = 5 /\ Len(one) = 1 /\ Len(six) = 6
  OBVIOUS
<1>3. (\A i \in 1 .. 4 : five[i] = four[i]) /\ five[5] = e
  OBVIOUS
<1>4. \A i \in 1 .. 6 : six[i] = IF i <= 1 THEN one[i] ELSE more[i - 1]
  OBVIOUS
<1>5. e \in S
  OBVIOUS
<1> HIDE DEF S, four, five, more, one, six
<1>6. Append(four, e) = five
  <2> DEFINE t == Append(four, e)
  <2>1. /\ t \in Seq(S) /\ Len(t) = 5 /\ t[5] = e
        /\ \A i \in 1 .. 4 : t[i] = four[i]
    <3>1. t \in Seq(S) /\ Len(t) = Len(four) + 1
          /\ (\A i \in 1 .. Len(four) : t[i] = four[i]) /\ t[Len(four) + 1] = e
      <4>1. t = Append(four, e)
        OBVIOUS
      <4>2. Append(four, e) \in Seq(S)
        BY <1>1, <1>5
      <4>3. Len(Append(four, e)) = Len(four) + 1
        BY <1>1, <1>5
      <4>4. \A i \in 1 .. Len(four) : Append(four, e)[i] = four[i]
        BY <1>1, <1>5
      <4>5. Append(four, e)[Len(four) + 1] = e
        BY <1>1, <1>5
      <4> QED
        BY <4>1, <4>2, <4>3, <4>4, <4>5, Zenon
    <3> HIDE DEF t
    <3> QED
      BY <1>2, <3>1
  <2> HIDE DEF t
  <2>2. \A i \in 1 .. 5 : t[i] = five[i]
    BY <1>3, <2>1
  <2>3. t = five
    BY <1>1, <1>2, <2>1, <2>2, SeqEqual
  <2> QED
    BY <2>3 DEF t
<1>7. one \o more = six
  <2> DEFINE t == one \o more
  <2>1. /\ t \in Seq(S) /\ Len(t) = 6
        /\ \A i \in 1 .. 6 : t[i] = IF i <= 1 THEN one[i] ELSE more[i - 1]
    <3>1. t \in Seq(S) /\ Len(t) = Len(one) + Len(more)
          /\ \A i \in 1 .. Len(one) + Len(more) :
               t[i] = IF i <= Len(one) THEN one[i] ELSE more[i - Len(one)]
      BY <1>1, ConcatProperties, Zenon
    <3> HIDE DEF t
    <3>2. Len(one) = 1 /\ Len(one) + Len(more) = 6
      BY <1>2
    <3>3. /\ t \in Seq(S) /\ Len(t) = 6
          /\ \A i \in 1 .. 6 : t[i] = IF i <= Len(one) THEN one[i] ELSE more[i - Len(one)]
      BY <3>1, <3>2, Zenon
    <3> QED
      BY <3>2, <3>3, Zenon
  <2> HIDE DEF t
  <2>2. \A i \in 1 .. 6 : t[i] = six[i]
    BY <1>4, <2>1
  <2>3. t = six
    BY <1>1, <1>2, <2>1, <2>2, SeqEqual
  <2> QED
    BY <2>3 DEF t
<1> QED
  BY <1>6, <1>7 DEF four, five, more, one, six

\* The first rest of a script is all of its stages.
LEMMA StagesFacts ==
  ASSUME NEW script \in Scripts
  PROVE  /\ Stages(script) \in Rests(script)
         /\ "protocol" \in Range(Stages(script))
<1> DEFINE create == <<"filesystem", "protocol", "topology", "network", "connect">>
           rest   == <<"protocol", "topology", "network", "connect">>
           late   == <<"protocol", "topology", "network", "connect", "filesystem">>
           all    == <<"tlbs", "filesystem", "protocol", "topology", "network", "connect">>
<1>1. Tail(create) = rest /\ Append(rest, "filesystem") = late /\ <<"tlbs">> \o create = all
  <2>1. Tail(create) = rest
    BY Tuples
  <2>2. Append(rest, "filesystem") = late /\ <<"tlbs">> \o create = all
    <3>1. Append(<<"protocol", "topology", "network", "connect">>, "filesystem")
            = <<"protocol", "topology", "network", "connect", "filesystem">>
      BY Longer, Zenon
    <3>2. <<"tlbs">> \o <<"filesystem", "protocol", "topology", "network", "connect">>
            = <<"tlbs", "filesystem", "protocol", "topology", "network", "connect">>
      <4>1. \A a, b, c, d, e, f : <<f>> \o <<e, a, b, c, d>> = <<f, e, a, b, c, d>>
        BY Longer, Zenon
      <4> QED
        BY <4>1
    <3>3. Append(rest, "filesystem") = late
      BY <3>1
    <3>4. <<"tlbs">> \o create = all
      BY <3>2
    <3> QED
      BY <3>3, <3>4
  <2> QED
    BY <2>1, <2>2
<1>2. Stages(script) = CASE script = "ruby_test"   -> Tail(create)
                         [] script = "simple_ruby" -> Append(Tail(create), "filesystem")
                         [] script = "apu_se"      -> <<"tlbs">> \o create
                         [] OTHER                  -> create
  BY DEF Stages
<1>3. /\ rest \in EarlyRests /\ create \in EarlyRests /\ all \in EarlyRests
      /\ late \in LateRests
  BY DEF EarlyRests, LateRests
<1>4. /\ "protocol" \in Range(rest) /\ "tlbs" \notin Range(rest)
      /\ "protocol" \in Range(create) /\ "tlbs" \notin Range(create)
      /\ "protocol" \in Range(late) /\ "tlbs" \notin Range(late)
      /\ "protocol" \in Range(all)
  BY Tuples
<1> HIDE DEF create, rest, late, all
<1>5. CASE script = "ruby_test"
  <2>1. Stages(script) = rest
    BY <1>1, <1>2, <1>5
  <2> QED
    BY <1>3, <1>4, <2>1 DEF Rests
<1>6. CASE script = "simple_ruby"
  <2>1. Stages(script) = late
    BY <1>1, <1>2, <1>6
  <2> QED
    BY <1>3, <1>4, <1>6, <2>1 DEF Rests
<1>7. CASE script = "apu_se"
  <2>1. Stages(script) = all
    BY <1>1, <1>2, <1>7
  <2> QED
    BY <1>3, <1>4, <1>7, <2>1 DEF Rests
<1>8. CASE script \notin {"ruby_test", "simple_ruby", "apu_se"}
  <2>1. Stages(script) = create
    BY <1>2, <1>8
  <2> QED
    BY <1>3, <1>4, <2>1 DEF Rests
<1> QED
  BY <1>5, <1>6, <1>7, <1>8

LEMMA RunningPrepared ==
  ASSUME Running
  PROVE  Prepared(opts) /\ Typed(opts) /\ opts.script \in Scripts
BY OptionsPrepared DEF Running, Prepared, Typed

LEMMA RubyInit == Init => RubyInv
<1> SUFFICES ASSUME Init PROVE RubyInv
  OBVIOUS
<1>1. guest.caches = {} /\ DOMAIN guest = {"online", "caches"}
  BY DEF Init
<1>2. NothingBuilt
  BY <1>1 DEF Init, NothingBuilt
<1> QED
  BY <1>2 DEF Init, RubyInv

\* A stage of a script that runs: the rests of it and what stays to be done.
LEMMA StageFacts ==
  ASSUME RubyInv, NEW stage, stage # "script", At(stage)
  PROVE  /\ Building /\ ~failed
         /\ Left(stage)
         /\ todo' = Tail(todo) =>
              /\ todo' \in Rests(opts.script)
              /\ \A t : Left(t)' <=> Left(t) /\ t # stage
         /\ stage = "filesystem" /\ opts.script # "simple_ruby" => Left("protocol")
         /\ stage = "tlbs" => opts.script = "apu_se"
         /\ stage = "protocol" => Left("topology") /\ Left("connect")
         /\ stage = "topology" => ~Left("protocol") /\ Left("connect")
         /\ stage = "network" => ~Left("topology") /\ ~Left("protocol") /\ Left("connect")
         /\ stage = "connect" => ~Left("network") /\ ~Left("topology") /\ ~Left("protocol")
<1>1. Building
  BY Tuples DEF RubyInv, At
<1>2. todo # <<>> /\ Head(todo) = stage /\ ~failed
  BY DEF At
<1>3. todo \in Rests(opts.script)
  BY <1>1 DEF Building
<1>4. /\ RestFact(todo) /\ Tail(todo) \in Rests(opts.script)
      /\ stage = "filesystem" /\ opts.script # "simple_ruby" => "protocol" \in Range(todo)
      /\ stage = "tlbs" => opts.script = "apu_se"
  BY <1>2, <1>3, RestsFacts
<1>5. ASSUME todo' = Tail(todo)
      PROVE  /\ todo' \in Rests(opts.script)
             /\ \A t : Left(t)' <=> Left(t) /\ t # stage
  BY <1>2, <1>4, <1>5 DEF RestFact, Left
<1> QED
  BY <1>1, <1>2, <1>4, <1>5 DEF RestFact, Left

LEMMA ScriptStep ==
  ASSUME RubyInv, Script
  PROVE  RubyInv'
<1>1. todo = <<"script">> /\ opts \in Commands /\ NothingBuilt
  <2>1. todo # <<>> /\ Head(todo) = "script"
    BY DEF Script, At
  <2>2. ~Building
    <3> SUFFICES ASSUME Building PROVE FALSE
      OBVIOUS
    <3>1. RestFact(todo)
      BY RestsFacts DEF Building
    <3> QED
      BY <2>1, <3>1 DEF RestFact
  <2> QED
    BY <2>2 DEF RubyInv
<1>2. UNCHANGED <<cntrls, ports, net, guest, tlbs, links>>
  BY DEF Script
<1>3. NothingBuilt'
  BY <1>1, <1>2 DEF NothingBuilt
<1>4. CASE ScriptRefuses(opts)
  BY <1>1, <1>3, <1>4 DEF Script, Fail, RubyInv
<1>5. CASE ~ScriptRefuses(opts)
  <2>1. opts' = Options(opts) /\ todo' = Stages(opts.script) /\ failed' = failed
    BY <1>5 DEF Script
  <2>2. Running'
    BY <1>1, <1>5, <2>1 DEF Running
  <2>3. opts'.script = opts.script /\ opts.script \in Scripts
    BY <1>1, <1>5, <2>1, OptionsPrepared DEF Prepared, Typed
  <2>4. todo' \in Rests(opts'.script) /\ "protocol" \in Range(todo')
    BY <2>1, <2>3, StagesFacts
  <2>5. RestFact(todo')
    BY <2>4, RestsFacts
  <2>6. Left("protocol")' /\ Left("topology")' /\ Left("connect")'
    BY <2>4, <2>5 DEF RestFact, Left
  <2>7. Building'
    BY <1>3, <2>2, <2>4, <2>6
    DEF Building, NothingBuilt, MadeSystem, MadeNetwork, MadeLinks, MadeTLBs, MadeFiles
  <2> QED
    BY <2>1, <2>7 DEF RubyInv
<1> QED
  BY <1>4, <1>5

\* What is made stays made while the stages that make it are left as they are.
LEMMA StaysBuilt ==
  ASSUME Building, NEW stage, At(stage), UNCHANGED opts,
         todo' = todo \/ (/\ todo' \in Rests(opts.script)
                          /\ \A t : Left(t)' <=> Left(t) /\ t # stage)
  PROVE  /\ Running' /\ todo' \in Rests(opts'.script)
         /\ (stage # "protocol" \/ todo' = todo) /\ UNCHANGED <<cntrls, ports>> => MadeSystem'
         /\ (stage # "topology" \/ todo' = todo) /\ UNCHANGED net
            /\ (Left("topology") \/ UNCHANGED cntrls) => MadeNetwork'
         /\ (stage # "connect" \/ todo' = todo) /\ UNCHANGED links
            /\ (Left("connect") \/ UNCHANGED ports) => MadeLinks'
         /\ UNCHANGED tlbs => MadeTLBs'
         /\ (stage # "protocol" \/ todo' = todo) /\ UNCHANGED guest => MadeFiles'
<1>1. Running'
  BY DEF Building, Running
<1>2. todo' \in Rests(opts'.script)
  BY DEF Building
<1>3. \A t : t # stage \/ todo' = todo => (Left(t)' <=> Left(t))
  BY DEF Left
<1>4. (stage # "protocol" \/ todo' = todo) /\ UNCHANGED <<cntrls, ports>> => MadeSystem'
  BY <1>3 DEF Building, MadeSystem, Refused
<1>5. (stage # "topology" \/ todo' = todo) /\ UNCHANGED net
      /\ (Left("topology") \/ UNCHANGED cntrls) => MadeNetwork'
  BY <1>3 DEF Building, MadeNetwork
<1>6. (stage # "connect" \/ todo' = todo) /\ UNCHANGED links
      /\ (Left("connect") \/ UNCHANGED ports) => MadeLinks'
  BY <1>3 DEF Building, MadeLinks
<1>7. UNCHANGED tlbs => MadeTLBs'
  BY DEF Building, MadeTLBs
<1>8. (stage # "protocol" \/ todo' = todo) /\ UNCHANGED guest => MadeFiles'
  BY <1>3 DEF Building, MadeFiles
<1> QED
  BY <1>1, <1>2, <1>4, <1>5, <1>6, <1>7, <1>8

LEMMA TLBsStep ==
  ASSUME RubyInv, TLBs
  PROVE  RubyInv'
<1>1. At("tlbs") /\ UNCHANGED <<opts, cntrls, ports, net, guest, links>>
  BY DEF TLBs
<1>2. /\ Building /\ ~failed /\ opts.script = "apu_se"
      /\ todo' = Tail(todo) => /\ todo' \in Rests(opts.script)
                               /\ \A t : Left(t)' <=> Left(t) /\ t # "tlbs"
  BY <1>1, StageFacts
<1>a. failed = FALSE
  BY <1>2 DEF RubyInv
<1>3. /\ todo' = todo \/ todo' = Tail(todo)
      /\ failed' \in BOOLEAN
      /\ \/ UNCHANGED tlbs
         \/ ~TLBsFail(opts) /\ tlbs' = config_tlb_hierarchy(opts)
  BY <1>2, <1>a DEF TLBs, Done, Fail
<1>4. /\ Running' /\ todo' \in Rests(opts'.script) /\ MadeSystem' /\ MadeNetwork' /\ MadeLinks' /\ MadeFiles'
      /\ UNCHANGED tlbs => MadeTLBs'
  BY <1>1, <1>2, <1>3, StaysBuilt
<1>5. MadeTLBs'
  BY <1>1, <1>2, <1>3, <1>4 DEF MadeTLBs
<1> QED
  BY <1>3, <1>4, <1>5 DEF RubyInv, Building

LEMMA ConfigFilesystemStep ==
  ASSUME RubyInv, ConfigFilesystem
  PROVE  RubyInv'
<1>1. At("filesystem") /\ todo' = Tail(todo) /\ UNCHANGED <<failed, opts, cntrls, ports, net, tlbs, links>>
  BY DEF ConfigFilesystem, Done
<1>2. /\ Building /\ ~failed
      /\ todo' \in Rests(opts.script)
      /\ \A t : Left(t)' <=> Left(t) /\ t # "filesystem"
      /\ opts.script # "simple_ruby" => Left("protocol")
  BY <1>1, StageFacts
<1>3. /\ Running' /\ todo' \in Rests(opts'.script) /\ MadeSystem' /\ MadeNetwork' /\ MadeLinks' /\ MadeTLBs'
  BY <1>1, <1>2, StaysBuilt
<1>4. guest'.caches = {} /\ DOMAIN guest' = {"online", "caches"}
  BY DEF ConfigFilesystem
<1>5. MadeFiles'
  BY <1>1, <1>2, <1>4 DEF MadeFiles
<1> QED
  BY <1>1, <1>2, <1>3, <1>5 DEF RubyInv, Building

LEMMA MakeTopologyStep ==
  ASSUME RubyInv, MakeTopology
  PROVE  RubyInv'
<1>1. At("topology") /\ UNCHANGED <<opts, cntrls, ports, guest, tlbs, links>>
  BY DEF MakeTopology
<1>2. /\ Building /\ ~failed
      /\ todo' = Tail(todo) => /\ todo' \in Rests(opts.script)
                               /\ \A t : Left(t)' <=> Left(t) /\ t # "topology"
  BY <1>1, StageFacts
<1>a. failed = FALSE
  BY <1>2 DEF RubyInv
<1>3. /\ failed' \in BOOLEAN
      /\ \/ todo' = todo /\ UNCHANGED net
         \/ todo' = Tail(todo) /\ ~TopologyFails(opts) /\ net' = create_topology(opts, cntrls)
  BY <1>2, <1>a DEF MakeTopology, Done, Fail
<1>4. /\ Running' /\ todo' \in Rests(opts'.script) /\ MadeSystem' /\ MadeLinks' /\ MadeTLBs' /\ MadeFiles'
      /\ todo' = todo /\ UNCHANGED net => MadeNetwork'
  BY <1>1, <1>2, <1>3, StaysBuilt
<1>5. MadeNetwork'
  BY <1>1, <1>2, <1>3, <1>4 DEF MadeNetwork
<1> QED
  BY <1>3, <1>4, <1>5 DEF RubyInv, Building

LEMMA InitNetworkStep ==
  ASSUME RubyInv, InitNetwork
  PROVE  RubyInv'
<1>1. At("network") /\ UNCHANGED <<opts, cntrls, ports, net, guest, tlbs, links>>
  BY DEF InitNetwork
<1>2. /\ Building /\ ~failed
      /\ todo' = Tail(todo) => /\ todo' \in Rests(opts.script)
                               /\ \A t : Left(t)' <=> Left(t) /\ t # "network"
  BY <1>1, StageFacts
<1>a. failed = FALSE
  BY <1>2 DEF RubyInv
<1>3. /\ failed' \in BOOLEAN
      /\ todo' = todo \/ todo' = Tail(todo)
  BY <1>2, <1>a DEF InitNetwork, Done, Fail
<1> QED
  BY <1>1, <1>2, <1>3, StaysBuilt DEF RubyInv, Building

LEMMA ConnectStep ==
  ASSUME RubyInv, Connect
  PROVE  RubyInv'
<1>1. At("connect") /\ UNCHANGED <<opts, cntrls, ports, net, guest, tlbs>>
  BY DEF Connect
<1>2. /\ Building /\ ~failed
      /\ todo' = Tail(todo) => /\ todo' \in Rests(opts.script)
                               /\ \A t : Left(t)' <=> Left(t) /\ t # "connect"
  BY <1>1, StageFacts
<1>a. failed = FALSE
  BY <1>2 DEF RubyInv
<1>3. /\ failed' \in BOOLEAN
      /\ \/ todo' = todo /\ UNCHANGED links
         \/ todo' = Tail(todo) /\ links' = Connections(opts, ports)
  BY <1>2, <1>a DEF Connect, Done, Fail
<1>4. /\ Running' /\ todo' \in Rests(opts'.script) /\ MadeSystem' /\ MadeNetwork' /\ MadeTLBs' /\ MadeFiles'
      /\ todo' = todo /\ UNCHANGED links => MadeLinks'
  BY <1>1, <1>2, <1>3, StaysBuilt
<1>5. MadeLinks'
  BY <1>1, <1>2, <1>3, <1>4 DEF MadeLinks
<1> QED
  BY <1>3, <1>4, <1>5 DEF RubyInv, Building

LEMMA RefuseOrSystem ==
  /\ Refuse.refuses /\ Refuse.cntrls = <<>> /\ Refuse.ports = <<>> /\ Refuse.caches = {}
  /\ \A o, s, caches : ~System(o, s, caches).refuses
<1>1. Refuse.refuses /\ Refuse.cntrls = <<>> /\ Refuse.ports = <<>> /\ Refuse.caches = {}
  BY DEF Refuse
<1>2. \A o, s, caches : ~System(o, s, caches).refuses
  BY DEF System
<1> QED
  BY <1>1, <1>2

LEMMA RefusedNothing ==
  ASSUME NEW o, Typed(o), Refused(o)
  PROVE  /\ create_system(o).cntrls = <<>> /\ create_system(o).ports = <<>>
         /\ create_system(o).caches = {}
<1> DEFINE r == create_system(o)
<1>1. o.protocol \in Protocols /\ r.refuses
  BY DEF Typed, Refused
<1> SUFFICES r = Refuse
  BY RefuseOrSystem
<1>2. ASSUME o.protocol = "MESI_Two_Level" PROVE r = Refuse
  BY <1>1, <1>2, OfProtocol, RefuseOrSystem DEF MESI_Two_Level
<1>3. ASSUME o.protocol = "MOESI_CMP_token" PROVE r = Refuse
  BY <1>1, <1>3, OfProtocol, RefuseOrSystem DEF MOESI_CMP_token
<1>4. ASSUME o.protocol = "MOESI_CMP_directory" PROVE r = Refuse
  BY <1>1, <1>4, OfProtocol, RefuseOrSystem DEF MOESI_CMP_directory
<1>5. ASSUME o.protocol = "MI_example" PROVE r = Refuse
  BY <1>1, <1>5, OfProtocol, RefuseOrSystem DEF MI_example
<1>6. ASSUME o.protocol = "MOESI_hammer" PROVE r = Refuse
  BY <1>1, <1>6, OfProtocol, RefuseOrSystem DEF MOESI_hammer
<1>7. ASSUME o.protocol = "Garnet_standalone" PROVE r = Refuse
  <2> DEFINE b == Each(o.num_cpus, LAMBDA i : [Cntrl("L1Cache", i) EXCEPT !.seqs = <<i>>])
  <2>1. r = IF o.dmas # 0 THEN Refuse ELSE System(o, b \o Directories(o), {})
    BY <1>7, OfProtocol DEF Garnet_standalone
  <2> HIDE DEF b, r
  <2> QED
    BY <1>1, <2>1, RefuseOrSystem
<1>8. ASSUME o.protocol \in {"MESI_Three_Level", "MESI_Three_Level_HTM"} PROVE r = Refuse
  <2>1. r = MESI_Three_Level(o)
    BY <1>8, OfProtocol DEF MESI_Three_Level_HTM
  <2> QED
    BY <1>1, <2>1, RefuseOrSystem DEF MESI_Three_Level
<1>9. ASSUME o.protocol = "CHI" PROVE r = Refuse
  BY <1>1, <1>9, OfProtocol DEF CHI
<1>10. ASSUME o.protocol = "GPU_VIPER" PROVE r = Refuse
  BY <1>1, <1>10, OfProtocol DEF GPU_VIPER
<1>11. ASSUME o.protocol = "MOESI_AMD_Base" PROVE r = Refuse
  BY <1>11, OfProtocol
<1>12. ASSUME o.protocol = "MSI" PROVE r = Refuse
  <2> DEFINE L1s == Created(<<>>, o.num_cpus, "L1Cache", 1)
  <2>1. TestCacheSystem(o) = IF o.num_dirs > 1 THEN Refuse
                             ELSE System(o, L1s \o Created(L1s, 1, "Directory", 0), {})
    BY DEF TestCacheSystem
  <2>2. r = IF o.script = "simple_ruby" THEN MyCacheSystem(o) ELSE TestCacheSystem(o)
    BY <1>12 DEF create_system
  <2> HIDE DEF L1s, r
  <2> QED
    BY <1>1, <2>1, <2>2, RefuseOrSystem DEF MyCacheSystem
<1> QED
  BY <1>1, <1>2, <1>3, <1>4, <1>5, <1>6, <1>7, <1>8, <1>9, <1>10, <1>11, <1>12 DEF Protocols

LEMMA CreateSystemStep ==
  ASSUME RubyInv, CreateSystem
  PROVE  RubyInv'
<1> DEFINE made == create_system(opts)
<1>1. At("protocol") /\ UNCHANGED <<opts, net, tlbs, links>>
  BY DEF CreateSystem
<1>2. /\ Building /\ ~failed /\ Left("protocol") /\ Left("topology") /\ Left("connect")
      /\ todo' = Tail(todo) => /\ todo' \in Rests(opts.script)
                               /\ \A t : Left(t)' <=> Left(t) /\ t # "protocol"
  BY <1>1, StageFacts
<1>a. failed = FALSE
  BY <1>2 DEF RubyInv
<1>3. /\ failed' \in BOOLEAN
      /\ \/ todo' = todo /\ Refused(opts)
         \/ todo' = Tail(todo) /\ ~Refused(opts)
      /\ cntrls' = made.cntrls /\ ports' = made.ports
      /\ guest' = [guest EXCEPT !.caches = @ \cup made.caches]
  BY <1>2, <1>a DEF CreateSystem, Done, Fail, Refused, register_cache
<1>4. /\ Running' /\ todo' \in Rests(opts'.script) /\ MadeNetwork' /\ MadeTLBs' /\ MadeLinks'
  BY <1>1, <1>2, <1>3, StaysBuilt
<1>5. DOMAIN guest' = {"online", "caches"} /\ guest'.caches = guest.caches \cup made.caches
  BY <1>2, <1>3 DEF Building, MadeFiles
<1>6. ASSUME Refused(opts) PROVE made.cntrls = <<>> /\ made.ports = <<>> /\ made.caches = {}
  BY <1>2, <1>6, RefusedNothing, RunningPrepared DEF Building
<1> HIDE DEF made
<1>7. MadeSystem'
  BY <1>1, <1>2, <1>3, <1>6 DEF MadeSystem, made, Left
<1>8. MadeFiles'
  BY <1>1, <1>2, <1>3, <1>5, <1>6 DEF MadeFiles, made, Left, Building
<1> QED
  BY <1>3, <1>4, <1>7, <1>8 DEF RubyInv, Building

LEMMA InstantiateStep ==
  ASSUME RubyInv, Instantiate
  PROVE  RubyInv'
<1>1. UNCHANGED <<opts, todo, cntrls, ports, net, guest, tlbs, links>> /\ failed' = TRUE
  BY DEF Instantiate, Fail
<1> QED
  BY <1>1 DEF RubyInv, NothingBuilt, Building, Running, MadeSystem, MadeNetwork, MadeLinks,
              MadeTLBs, MadeFiles, Left

\* The inductive invariant holds in every run.
THEOREM RubyInvariant == Spec => []RubyInv
<1>1. RubyInv /\ [Next]_vars => RubyInv'
  <2> SUFFICES ASSUME RubyInv, [Next]_vars PROVE RubyInv'
    OBVIOUS
  <2>1. CASE Script
    BY <2>1, ScriptStep
  <2>2. CASE TLBs
    BY <2>2, TLBsStep
  <2>3. CASE ConfigFilesystem
    BY <2>3, ConfigFilesystemStep
  <2>4. CASE CreateSystem
    BY <2>4, CreateSystemStep
  <2>5. CASE MakeTopology
    BY <2>5, MakeTopologyStep
  <2>6. CASE InitNetwork
    BY <2>6, InitNetworkStep
  <2>7. CASE Connect
    BY <2>7, ConnectStep
  <2>8. CASE Instantiate
    BY <2>8, InstantiateStep
  <2>9. CASE UNCHANGED vars
    BY <2>9 DEF vars, RubyInv, NothingBuilt, Building, Running, MadeSystem, MadeNetwork, MadeLinks,
                MadeTLBs, MadeFiles, Left
  <2> QED
    BY <2>1, <2>2, <2>3, <2>4, <2>5, <2>6, <2>7, <2>8, <2>9 DEF Next
<1> QED
  BY <1>1, RubyInit, PTL DEF Spec

-----------------------------------------------------------------------------
(* What holds of the system in every run.                                  *)

LEMMA SystemThere ==
  ASSUME RubyInv
  PROVE  /\ Made(cntrls) /\ BanksFill(cntrls)
         /\ cntrls # <<>> => /\ Building /\ Prepared(opts) /\ Typed(opts) /\ ~Refused(opts)
                             /\ cntrls = create_system(opts).cntrls
                             /\ ports = create_system(opts).ports
<1>1. CASE cntrls = <<>>
  <2>1. Made(cntrls)
    BY <1>1, NothingMade
  <2>2. BanksFill(cntrls)
    BY <1>1, NoneInRange DEF BanksFill
  <2> QED
    BY <1>1, <2>1, <2>2
<1>2. CASE cntrls # <<>>
  <2>1. Building /\ MadeSystem
    BY <1>2 DEF RubyInv, NothingBuilt, Building
  <2>2. /\ ~Refused(opts) /\ cntrls = create_system(opts).cntrls
        /\ ports = create_system(opts).ports
    BY <1>2, <2>1 DEF MadeSystem
  <2>3. Prepared(opts) /\ Typed(opts)
    BY <2>1, RunningPrepared DEF Building
  <2> QED
    BY <2>1, <2>2, <2>3, SystemMade
<1> QED
  BY <1>1, <1>2

\* Machines are addressed by type and version: in every system that a script
\* makes, whatever the protocol and the options, the controllers of a type have
\* the versions from 0 on, one each.
THEOREM VersionsNumberNodesHolds == Spec => []VersionsNumberNodes
<1>1. RubyInv => VersionsNumberNodes
  <2> SUFFICES ASSUME RubyInv, NEW c \in Range(cntrls)
               PROVE  LET same == {k \in DOMAIN cntrls : cntrls[k].type = c.type}
                      IN  {cntrls[k].version : k \in same} = 0 .. Cardinality(same) - 1
    BY DEF VersionsNumberNodes
  <2>1. Made(cntrls)
    BY SystemThere
  <2>2. /\ Counts(cntrls, c.type, 0, Cardinality(OfType(cntrls, c.type)))
        /\ Cardinality(OfType(cntrls, c.type)) \in Nat
    BY <2>1 DEF Made
  <2> DEFINE m == Cardinality(OfType(cntrls, c.type))
  <2>3. m \in Nat /\ 0 + m - 1 = m - 1
    BY <2>2
  <2>4. /\ \A k \in OfType(cntrls, c.type) : cntrls[k].version \in 0 .. m - 1
        /\ \A v \in 0 .. m - 1 : \E k \in OfType(cntrls, c.type) : cntrls[k].version = v
    BY <2>2, <2>3 DEF Counts, OfType
  <2>5. {cntrls[k].version : k \in OfType(cntrls, c.type)} = 0 .. m - 1
    BY <2>4
  <2> QED
    BY <2>5 DEF OfType
<1> QED
  BY <1>1, RubyInvariant, PTL

\* The banks that a controller selects by bits of the address are those of its
\* own cluster, and all of them, for every number of CPUs, banks and clusters.
THEOREM BanksOfOwnClusterHolds == Spec => []BanksOfOwnCluster
<1>1. RubyInv => BanksOfOwnCluster
  BY SystemThere DEF BanksFill, BanksOfOwnCluster
<1> QED
  BY <1>1, RubyInvariant, PTL

\* In a CHI system, of any number of CPUs, caches, DMA engines and memories,
\* every sequencer's requests can reach every memory, and no two CPUs share a
\* controller before the home nodes.
THEOREM ReachesMemoryHolds == Spec => []ReachesMemory
<1>1. RubyInv => ReachesMemory
  <2> SUFFICES ASSUME RubyInv PROVE ReachesMemory
    OBVIOUS
  <2>1. CASE cntrls = <<>>
    BY <2>1, NoneInRange DEF ReachesMemory
  <2>2. CASE cntrls # <<>> /\ opts.protocol = "CHI"
    BY <2>2, SystemThere, CHIFacts, CHIReaches
  <2>3. CASE opts.protocol # "CHI"
    BY <2>3 DEF ReachesMemory
  <2> QED
    BY <2>1, <2>2, <2>3
<1> QED
  BY <1>1, RubyInvariant, PTL

\* The number of groups of so many that hold n units.
LEMMA GroupsOf ==
  ASSUME NEW n \in Nat, NEW per \in Nat \ {0}
  PROVE  /\ CeilDiv(n, per) \in Nat
         /\ CeilDiv(n, per) * per \in Nat
         /\ n <= CeilDiv(n, per) * per /\ CeilDiv(n, per) * per <= n + per - 1
<1> DEFINE a == n + per - 1
<1>1. a \in Nat
  OBVIOUS
<1> HIDE DEF a
<1>2. a \div per \in Nat /\ a % per \in 0 .. per - 1 /\ a = (a % per) + (a \div per) * per
  BY <1>1, Division
<1> DEFINE q == a \div per
           m == a % per
<1>3. q \in Nat /\ m \in 0 .. per - 1 /\ a = m + q * per /\ q * per \in Nat
  BY <1>2
<1> HIDE DEF q, m
<1>4. n <= q * per /\ q * per <= n + per - 1
  BY <1>3 DEF a
<1>5. CeilDiv(n, per) = q
  BY DEF CeilDiv, q, a
<1> QED
  BY <1>3, <1>4, <1>5

\* Units in groups of so many: a unit has a group and a place of its own in it.
LEMMA Grouped ==
  ASSUME NEW n \in Nat, NEW per \in Nat \ {0}, NEW cu \in 0 .. n - 1
  PROVE  /\ cu \div per \in 0 .. CeilDiv(n, per) - 1 /\ cu % per \in Nat
         /\ \A d \in 0 .. n - 1 : d \div per = cu \div per /\ d % per = cu % per => d = cu
<1> DEFINE q == cu \div per
           m == cu % per
           c == CeilDiv(n, per)
<1>6. cu \in Nat
  OBVIOUS
<1>7. cu \div per \in Nat /\ cu % per \in 0 .. per - 1 /\ cu = (cu % per) + (cu \div per) * per
  BY <1>6, Division
<1>1. q \in Nat /\ m \in 0 .. per - 1 /\ cu = m + q * per
  BY <1>7
<1>2. \A d \in 0 .. n - 1 : d = (d % per) + (d \div per) * per
  BY Division
<1>3. c \in Nat /\ c * per \in Nat /\ n <= c * per
  BY GroupsOf
<1> HIDE DEF q, c, m
<1>4. q < c
  <2> SUFFICES ASSUME c <= q PROVE FALSE
    BY <1>1, <1>3
  <2>1. c * per <= q * per /\ q * per \in Nat
    BY <1>1, <1>3, Product
  <2> QED
    BY <1>1, <1>3, <2>1
<1>5. \A d \in 0 .. n - 1 : d \div per = q /\ d % per = m => d = cu
  BY <1>1, <1>2
<1> QED
  BY <1>1, <1>3, <1>4, <1>5 DEF q, c, m

\* Every group has a unit.
LEMMA GroupsFilled ==
  ASSUME NEW n \in Nat, NEW per \in Nat \ {0}, NEW k \in 0 .. CeilDiv(n, per) - 1
  PROVE  k * per \in 0 .. n - 1 /\ (k * per) \div per = k
<1> DEFINE c == CeilDiv(n, per)
<1>1. c \in Nat /\ c * per \in Nat /\ c * per <= n + per - 1
  BY GroupsOf
<1> HIDE DEF c
<1>2. k \in Nat /\ k < c
  BY <1>1 DEF c
<1>3. k * per + per <= c * per /\ k * per \in Nat
  BY <1>1, <1>2, Product
<1>4. k * per <= n - 1
  BY <1>1, <1>3
<1>5. 0 + k * per = k * per /\ 0 \in 0 .. per - 1
  BY <1>2, <1>3
<1>6. (k * per) \div per = k
  BY <1>2, <1>5, DivisionUnique
<1> QED
  BY <1>3, <1>4, <1>6

LEMMA NoLess ==
  ASSUME NEW a \in Nat, NEW b \in Nat, NEW q \in Nat, a <= b
  PROVE  a * q <= b * q /\ a * q \in Nat /\ b * q \in Nat
<1>1. CASE a = b
  BY <1>1
<1>2. CASE a < b /\ q > 0
  <2>1. a * q + q <= b * q /\ a * q \in Nat /\ b * q \in Nat
    BY <1>2, Product
  <2> QED
    BY <2>1
<1>3. CASE q = 0
  BY <1>3
<1> QED
  BY <1>1, <1>2, <1>3

\* The vector ports of units that share TLBs, fewer than there are units: the
\* units that share one are consecutive, and so are their ports of it.
LEMMA FewTLBs ==
  ASSUME NEW n \in Nat, NEW T \in Nat \ {0}, T < n
  PROVE  /\ \A cu \in 0 .. n - 1 :
              /\ (cu * T) \div n \in 0 .. T - 1 
              /\ \A d \in 0 .. n - 1 :
                   /\ (d * T) \div n = (cu * T) \div n
                   /\ ((d * T) % n) \div T = ((cu * T) % n) \div T
                   => d = cu
         /\ \A k \in 0 .. T - 1 : \E cu \in 0 .. n - 1 : (cu * T) \div n = k
<1> DEFINE q(d) == (d * T) \div n
           m(d) == (d * T) % n
           p(d) == m(d) \div T
<1>1. ASSUME NEW d \in 0 .. n - 1
      PROVE  /\ q(d) \in Nat /\ m(d) \in 0 .. n - 1 /\ d * T = m(d) + q(d) * n
             /\ d * T + T <= T * n
             /\ p(d) \in Nat /\ m(d) % T \in 0 .. T - 1 /\ m(d) = (m(d) % T) + p(d) * T
  <2>1. d \in Nat /\ d < n
    OBVIOUS
  <2>2. d * T + T <= n * T /\ n * T = T * n
    BY <2>1, Product
  <2>3. d * T \in Nat
    BY <2>1, SMT
  <2>4. (d * T) \div n \in Nat /\ (d * T) % n \in 0 .. n - 1
        /\ d * T = ((d * T) % n) + ((d * T) \div n) * n
    BY <2>3, Division
  <2>5. m(d) \in Nat
    BY <2>4
  <2> HIDE DEF m
  <2>6. p(d) \in Nat /\ m(d) % T \in 0 .. T - 1 /\ m(d) = (m(d) % T) + p(d) * T
    BY <2>5, Division
  <2> QED
    BY <2>2, <2>4, <2>6 DEF m
<1> HIDE DEF q, m, p
<1>2. ASSUME NEW d \in 0 .. n - 1 PROVE q(d) < T
  <2> SUFFICES ASSUME T <= q(d) PROVE FALSE
    BY <1>1
  <2>1. q(d) \in Nat /\ m(d) \in 0 .. n - 1 /\ d * T = m(d) + q(d) * n /\ d * T + T <= T * n
    BY <1>1
  <2>2. T * n <= q(d) * n /\ q(d) * n \in Nat /\ T * n \in Nat
    BY <2>1, NoLess
  <2> QED
    BY <2>1, <2>2
<1>3. ASSUME NEW c \in 0 .. n - 1, NEW d \in 0 .. n - 1, q(d) = q(c), p(d) = p(c)
      PROVE  ~(c < d)
  <2> SUFFICES ASSUME c < d PROVE FALSE
    OBVIOUS
  <2>1. c * T + T <= d * T /\ c * T \in Nat /\ d * T \in Nat
    BY Product
  <2>2. m(d) = (m(d) % T) + p(c) * T /\ m(c) = (m(c) % T) + p(c) * T /\ p(c) * T \in Nat
    BY <1>1, <1>3
  <2>3. m(d) - m(c) < T
    BY <1>1, <2>2
  <2>4. d * T = m(d) + q(c) * n /\ c * T = m(c) + q(c) * n /\ q(c) * n \in Nat
    BY <1>1, <1>3
  <2>5. m(d) \in Nat /\ m(c) \in Nat
    BY <1>1
  <2> QED
    BY <2>1, <2>3, <2>4, <2>5
<1>4. ASSUME NEW k \in 0 .. T - 1
      PROVE  \E cu \in 0 .. n - 1 : q(cu) = k
  <2> DEFINE K == k * n
             cu == CeilDiv(K, T)
  <2>1. K \in Nat /\ K + n <= T * n
    BY Product
  <2> HIDE DEF K
  <2>2. cu \in Nat /\ cu * T \in Nat /\ K <= cu * T /\ cu * T <= K + T - 1
    BY <2>1, GroupsOf
  <2> HIDE DEF cu
  <2>3. cu < n
    <3> SUFFICES ASSUME n <= cu PROVE FALSE
      BY <2>2
    <3>1. n * T <= cu * T /\ n * T = T * n /\ T * n \in Nat
      BY <2>2, Product
    <3> QED
      BY <2>1, <2>2, <3>1
  <2> DEFINE c == cu * T - K
  <2>4. c \in 0 .. n - 1 /\ c + K = cu * T
    BY <2>1, <2>2
  <2>5. k \in Nat /\ n \in Nat \ {0} /\ c + k * n = cu * T
    BY <2>4 DEF K
  <2> HIDE DEF c
  <2>6. (c + k * n) \div n = k
    BY <2>4, <2>5, DivisionUnique
  <2>7. q(cu) = k
    BY <2>5, <2>6 DEF q
  <2>8. cu \in 0 .. n - 1
    BY <2>2, <2>3
  <2> QED
    BY <2>7, <2>8
<1>5. \A cu \in 0 .. n - 1 : q(cu) \in 0 .. T - 1
  BY <1>1, <1>2
<1>6. \A cu, d \in 0 .. n - 1 : q(d) = q(cu) /\ p(d) = p(cu) => d = cu
  BY <1>3
<1> QED
  BY <1>4, <1>5, <1>6 DEF q, p, m

\* TranslationsHaveAPort, of the coalescers of a kind.
PortsFit(S, kind, w) ==
  /\ \A t \in S : t.kind = kind /\ t.coalescer < w
  /\ \A t, u \in S : u.coalescer = t.coalescer /\ u.port = t.port => u = t
  /\ \A k \in 0 .. w - 1 : \E t \in S : t.coalescer = k

LEMMA TranslationFields ==
  ASSUME NEW cu, NEW kind, NEW side, NEW coalescer, NEW port
  PROVE  LET t == Translation(cu, kind, side, coalescer, port)
         IN  t.kind = kind /\ t.coalescer = coalescer /\ t.port = port
BY DEF Translation

LEMMA SharedFit ==
  ASSUME NEW o, NEW kind, NEW per \in Nat \ {0}, o.num_compute_units \in Nat
  PROVE  PortsFit(SharedTranslations(o, kind, per), kind, CeilDiv(o.num_compute_units, per))
<1> DEFINE n == o.num_compute_units
           c == CeilDiv(n, per)
           of(cu) == Translation(cu, kind, 0, cu \div per, cu % per)
           S == {of(cu) : cu \in 0 .. n - 1}
<1>1. SharedTranslations(o, kind, per) = S
  BY DEF SharedTranslations
<1>2. \A cu : of(cu).kind = kind /\ of(cu).coalescer = cu \div per /\ of(cu).port = cu % per
  BY TranslationFields
<1>3. \A cu \in 0 .. n - 1 :
        /\ cu \div per \in 0 .. c - 1
        /\ \A d \in 0 .. n - 1 : d \div per = cu \div per /\ d % per = cu % per => d = cu
  BY Grouped
<1>4. \A k \in 0 .. c - 1 : k * per \in 0 .. n - 1 /\ (k * per) \div per = k
  BY GroupsFilled
<1>5. c \in Nat
  BY GroupsOf
<1> HIDE DEF of, c
<1>6. \A t \in S : t.kind = kind /\ t.coalescer < c
  <2> TAKE t \in S
  <2>1. PICK cu \in 0 .. n - 1 : t = of(cu)
    OBVIOUS
  <2>2. t.coalescer \in 0 .. c - 1
    BY <1>2, <1>3, <2>1
  <2> QED
    BY <1>2, <1>5, <2>1, <2>2
<1>7. \A t, u \in S : u.coalescer = t.coalescer /\ u.port = t.port => u = t
  BY <1>2, <1>3
<1>8. \A k \in 0 .. c - 1 : \E t \in S : t.coalescer = k
  BY <1>2, <1>4
<1> QED
  BY <1>1, <1>6, <1>7, <1>8 DEF PortsFit, c

\* Several TLBs for each unit.
LEMMA ManyTLBs ==
  ASSUME NEW n \in Nat, NEW p \in Nat \ {0}
  PROVE  /\ \A cu \in 0 .. n - 1, t \in 0 .. p - 1 : cu * p + t \in 0 .. p * n - 1
         /\ \A cu, d \in 0 .. n - 1, t, u \in 0 .. p - 1 : d * p + u = cu * p + t => d = cu /\ u = t
         /\ \A k \in 0 .. p * n - 1 : \E cu \in 0 .. n - 1, t \in 0 .. p - 1 : k = cu * p + t
<1>1. \A cu \in 0 .. n - 1, t \in 0 .. p - 1 : cu * p + t \in 0 .. p * n - 1
  <2> TAKE cu \in 0 .. n - 1, t \in 0 .. p - 1
  <2>1. t + cu * p \in 0 .. n * p - 1 /\ n * p = p * n
    BY Cells
  <2> QED
    BY <2>1
<1>2. \A cu, d \in 0 .. n - 1, t, u \in 0 .. p - 1 : d * p + u = cu * p + t => d = cu /\ u = t
  <2> TAKE cu, d \in 0 .. n - 1, t, u \in 0 .. p - 1
  <2>1. /\ (t + cu * p) % p = t /\ (t + cu * p) \div p = cu
        /\ (u + d * p) % p = u /\ (u + d * p) \div p = d
    BY DivisionUnique
  <2>2. d * p + u = u + d * p /\ cu * p + t = t + cu * p
    OBVIOUS
  <2> QED
    BY <2>1, <2>2
<1>3. \A k \in 0 .. p * n - 1 : \E cu \in 0 .. n - 1, t \in 0 .. p - 1 : k = cu * p + t
  <2> TAKE k \in 0 .. p * n - 1
  <2>1. p * n = n * p /\ k \in Nat
    OBVIOUS
  <2>2. k \div p \in 0 .. n - 1
    BY <2>1, Cells
  <2> DEFINE c == k \div p
             t == k % p
  <2>3. t \in 0 .. p - 1 /\ c \in 0 .. n - 1 /\ k = t + c * p
    BY <2>1, <2>2, Division
  <2> HIDE DEF c, t
  <2>4. k = c * p + t
    BY <2>3
  <2> QED
    BY <2>3, <2>4
<1> QED
  BY <1>1, <1>2, <1>3

LEMMA VectorFit ==
  ASSUME NEW o, Typed(o), o.num_compute_units # 0, ~TLBsFail(o)
  PROVE  PortsFit(VectorTranslations(o), "l1", NumTLBs(o))
<1> DEFINE n == o.num_compute_units
           T == NumTLBs(o)
           p == T \div n
<1>1. /\ n \in Nat \ {0} /\ T \in Nat \ {0}
      /\ \/ p \in Nat \ {0} /\ T = p * n
         \/ p = 0 /\ T < n
  <2>1. n \in Nat \ {0} /\ T # 0 /\ o.TLB_config \in {"perLane", "mono", "perCU", "2CU"}
    BY DEF Typed, TLBsFail
  <2>2. CASE o.TLB_config = "perLane"
    <3>1. T = 64 * n
      BY <2>2 DEF NumTLBs
    <3>2. (0 + 64 * n) \div n = 64
      BY <2>1, DivisionUnique
    <3>3. T = 0 + 64 * n
      BY <2>1, <3>1
    <3> QED
      BY <2>1, <3>1, <3>2, <3>3
  <2>3. CASE o.TLB_config = "mono"
    <3>1. T = 1
      BY <2>3 DEF NumTLBs
    <3>2. CASE n = 1
      BY <3>1, <3>2
    <3>3. CASE n # 1
      <4>1. (1 + 0 * n) \div n = 0 /\ 1 + 0 * n = 1
        BY <2>1, <3>3, DivisionUnique
      <4> QED
        BY <2>1, <3>1, <3>3, <4>1
    <3> QED
      BY <3>2, <3>3
  <2>4. CASE o.TLB_config = "perCU"
    <3>1. T = n
      BY <2>4 DEF NumTLBs
    <3>2. (0 + 1 * n) \div n = 1 /\ 0 + 1 * n = n /\ n = 1 * n
      BY <2>1, DivisionUnique
    <3> QED
      BY <2>1, <3>1, <3>2
  <2>5. CASE o.TLB_config = "2CU"
    <3>1. T = n \div 2
      BY <2>5 DEF NumTLBs
    <3>2. T \in Nat /\ T < n
      BY <2>1, <3>1
    <3>3. (T + 0 * n) \div n = 0 /\ T + 0 * n = T
      BY <2>1, <3>2, DivisionUnique
    <3> QED
      BY <2>1, <3>2, <3>3
  <2> QED
    BY <2>1, <2>2, <2>3, <2>4, <2>5
<1> DEFINE many(cu, t) == Translation(cu, "l1", t, (cu * p) + t, 0)
           few(cu) == Translation(cu, "l1", 0, (cu * T) \div n, ((cu * T) % n) \div T)
           M == {many(cu, t) : cu \in 0 .. n - 1, t \in 0 .. p - 1}
           F == {few(cu) : cu \in 0 .. n - 1}
<1>2. VectorTranslations(o) = IF p # 0 THEN M ELSE F
  BY DEF VectorTranslations
<1>3. /\ \A cu, t : /\ many(cu, t).kind = "l1" /\ many(cu, t).coalescer = cu * p + t
                    /\ many(cu, t).port = 0
      /\ \A cu : /\ few(cu).kind = "l1" /\ few(cu).coalescer = (cu * T) \div n
                 /\ few(cu).port = ((cu * T) % n) \div T
  BY TranslationFields
<1> HIDE DEF n, T, p, many, few
<1>4. CASE p \in Nat \ {0} /\ T = p * n
  <2>5. n \in Nat /\ p \in Nat \ {0}
    BY <1>1, <1>4
  <2>6. /\ \A cu \in 0 .. n - 1, t \in 0 .. p - 1 : cu * p + t \in 0 .. p * n - 1
        /\ \A cu, d \in 0 .. n - 1, t, u \in 0 .. p - 1 : d * p + u = cu * p + t => d = cu /\ u = t
        /\ \A k \in 0 .. p * n - 1 : \E cu \in 0 .. n - 1, t \in 0 .. p - 1 : k = cu * p + t
    BY <2>5, ManyTLBs
  <2>1. /\ \A cu \in 0 .. n - 1, t \in 0 .. p - 1 : cu * p + t \in 0 .. T - 1
        /\ \A cu, d \in 0 .. n - 1, t, u \in 0 .. p - 1 : d * p + u = cu * p + t => d = cu /\ u = t
        /\ \A k \in 0 .. T - 1 : \E cu \in 0 .. n - 1, t \in 0 .. p - 1 : k = cu * p + t
    BY <1>4, <2>6, Zenon
  <2>2. \A t \in M : t.kind = "l1" /\ t.coalescer < T
    <3> TAKE x \in M
    <3>1. PICK cu \in 0 .. n - 1, t \in 0 .. p - 1 : x = many(cu, t)
      OBVIOUS
    <3>2. x.coalescer \in 0 .. T - 1
      <4>1. x.coalescer = cu * p + t
        BY <1>3, <3>1
      <4>2. cu * p + t \in 0 .. T - 1
        BY <2>1
      <4> QED
        BY <4>1, <4>2
    <3>3. x.kind = "l1"
      BY <1>3, <3>1
    <3> QED
      BY <1>1, <3>2, <3>3
  <2>3. \A t, u \in M : u.coalescer = t.coalescer /\ u.port = t.port => u = t
    BY <1>3, <2>1
  <2>4. \A k \in 0 .. T - 1 : \E t \in M : t.coalescer = k
    BY <1>3, <2>1
  <2> QED
    BY <1>2, <1>4, <2>2, <2>3, <2>4 DEF PortsFit, T
<1>5. CASE p = 0 /\ T < n
  <2>1. /\ \A cu \in 0 .. n - 1 :
             /\ (cu * T) \div n \in 0 .. T - 1
             /\ \A d \in 0 .. n - 1 :
                  /\ (d * T) \div n = (cu * T) \div n
                  /\ ((d * T) % n) \div T = ((cu * T) % n) \div T
                  => d = cu
        /\ \A k \in 0 .. T - 1 : \E cu \in 0 .. n - 1 : (cu * T) \div n = k
    BY <1>1, <1>5, FewTLBs
  <2>2. \A t \in F : t.kind = "l1" /\ t.coalescer < T
    BY <1>1, <1>3, <2>1
  <2>3. \A t, u \in F : u.coalescer = t.coalescer /\ u.port = t.port => u = t
    BY <1>3, <2>1
  <2>4. \A k \in 0 .. T - 1 : \E t \in F : t.coalescer = k
    BY <1>3, <2>1
  <2> QED
    BY <1>2, <1>5, <2>2, <2>3, <2>4 DEF PortsFit, T
<1> QED
  BY <1>1, <1>4, <1>5

\* Every unit's translations have coalescers that exist, no two have the same
\* port, and no TLB is left without a unit, for every number of compute units
\* and of units for a cache and every arrangement of TLBs.
THEOREM TranslationsHaveAPortHolds == Spec => []TranslationsHaveAPort
<1>1. RubyInv => TranslationsHaveAPort
  <2> SUFFICES ASSUME RubyInv PROVE TranslationsHaveAPort
    OBVIOUS
  <2>1. CASE tlbs = NoTLBs
    <3>1. tlbs.ports = {} /\ \A kind \in DOMAIN tlbs.width : tlbs.width[kind] = 0
      BY <2>1 DEF NoTLBs
    <3> QED
      BY <3>1 DEF TranslationsHaveAPort
  <2>2. CASE tlbs # NoTLBs
    <3> DEFINE o == opts
               V == VectorTranslations(o)
               Q == SharedTranslations(o, "sqc", o.cu_per_sqc)
               S == SharedTranslations(o, "scalar", o.cu_per_scalar_cache)
    <3>1. /\ Running /\ o.script = "apu_se" /\ ~TLBsFail(o)
          /\ tlbs = config_tlb_hierarchy(o)
      BY <2>2 DEF RubyInv, NothingBuilt, Building, MadeTLBs
    <3>2. Prepared(o) /\ Typed(o)
      BY <3>1, RunningPrepared
    <3>3. /\ o.num_sqc = CeilDiv(o.num_compute_units, o.cu_per_sqc)
          /\ o.num_scalar_cache = CeilDiv(o.num_compute_units, o.cu_per_scalar_cache)
          /\ o.num_compute_units # 0 /\ o.num_compute_units \in Nat
          /\ o.cu_per_sqc \in Nat \ {0} /\ o.cu_per_scalar_cache \in Nat \ {0}
      BY <3>1, <3>2 DEF Prepared, Typed
    <3>4. PortsFit(V, "l1", NumTLBs(o))
      BY <3>1, <3>2, <3>3, VectorFit
    <3>5. PortsFit(Q, "sqc", o.num_sqc)
      BY <3>3, SharedFit
    <3>6. PortsFit(S, "scalar", o.num_scalar_cache)
      BY <3>3, SharedFit
    <3>7. /\ tlbs.ports = V \cup Q \cup S /\ DOMAIN tlbs.width = {"sqc", "scalar", "l1"}
          /\ tlbs.width["sqc"] = o.num_sqc /\ tlbs.width["scalar"] = o.num_scalar_cache
          /\ tlbs.width["l1"] = NumTLBs(o)
      BY <3>1 DEF config_tlb_hierarchy, FirstLevel
    <3> HIDE DEF V, Q, S, o
    <3>8. \A t \in tlbs.ports :
            /\ t.coalescer < tlbs.width[t.kind]
            /\ \A u \in tlbs.ports :
                 <<u.kind, u.coalescer, u.port>> = <<t.kind, t.coalescer, t.port>> => u = t
      BY <3>4, <3>5, <3>6, <3>7 DEF PortsFit
    <3>9. \A kind \in DOMAIN tlbs.width : \A k \in 0 .. tlbs.width[kind] - 1 :
            \E t \in tlbs.ports : t.kind = kind /\ t.coalescer = k
      BY <3>4, <3>5, <3>6, <3>7 DEF PortsFit
    <3> QED
      BY <3>8, <3>9 DEF TranslationsHaveAPort
  <2> QED
    BY <2>1, <2>2
<1> QED
  BY <1>1, RubyInvariant, PTL

-----------------------------------------------------------------------------
(* Who serves the ports.                                                   *)

LEMMA OwnServer ==
  ASSUME Made(cntrls), NEW c \in Range(cntrls), NEW x \in Range(c.seqs)
  PROVE  Servers(x) = {c} /\ Cardinality(Servers(x)) = 1
<1>1. Owns(cntrls, 0, Cardinality(Sequencers(cntrls))) /\ Sequence(cntrls)
  BY DEF Made
<1>2. PICK k \in DOMAIN cntrls : c = cntrls[k]
  BY DEF Range
<1>3. ASSUME NEW d \in Range(cntrls), x \in Range(d.seqs) PROVE d = c
  <2>1. PICK j \in DOMAIN cntrls : d = cntrls[j]
    BY DEF Range
  <2>2. j = k
    BY <1>1, <1>2, <1>3, <2>1 DEF Owns
  <2> QED
    BY <1>2, <2>1, <2>2
<1>4. Servers(x) = {c}
  BY <1>3 DEF Servers
<1> QED
  BY <1>4, FS_Singleton

\* The CPUs' ports have sequencers of controllers that run on the CPU's clock,
\* and no two CPUs have the same sequencer.
CpuSeqs(i) == {ports[i + 1].inst, ports[i + 1].data}
CpuServers(n) ==
  /\ \A i \in 0 .. n - 1 : \A x \in CpuSeqs(i) :
       \E c \in Range(cntrls) : x \in Range(c.seqs) /\ (c.type = "L0Cache" \/ c.clock \in {None, i})
  /\ \A i, j \in 0 .. n - 1 : CpuSeqs(i) \cap CpuSeqs(j) # {} => i = j

LEMMA CpuServersFlat ==
  ASSUME NEW n \in Nat, NEW t, OwnPorts(ports, n), OwnSequencers(cntrls, n, t)
  PROVE  CpuServers(n) /\ DOMAIN ports = 1 .. n
<1>1. \A i \in 0 .. n - 1 : ports[i + 1] = Port("cpu", i, i)
  <2> TAKE i \in 0 .. n - 1
  <2>1. i + 1 \in 1 .. n /\ (i + 1) - 1 = i
    OBVIOUS
  <2> QED
    BY <2>1 DEF OwnPorts
<1>a. \A i : Port("cpu", i, i).inst = i /\ Port("cpu", i, i).data = i
  BY DEF Port
<1>2. \A i \in 0 .. n - 1 : CpuSeqs(i) = {i}
  BY <1>1, <1>a DEF CpuSeqs
<1>3. \A i \in 0 .. n - 1 : \E c \in Range(cntrls) :
        i \in Range(c.seqs) /\ (c.type = "L0Cache" \/ c.clock \in {None, i})
  BY DEF OwnSequencers
<1>4. DOMAIN ports = 1 .. n
  BY DEF OwnPorts
<1> QED
  BY <1>2, <1>3, <1>4 DEF CpuServers

LEMMA CpuServersCHI ==
  ASSUME NEW o, Typed(o), CHIMade(cntrls, o),
         ports = [k \in 1 .. o.num_cpus |-> CPUSequencerWrapper(k - 1)]
  PROVE  CpuServers(o.num_cpus) /\ DOMAIN ports = 1 .. o.num_cpus
<1> DEFINE n == o.num_cpus
<1>1. n \in Nat
  BY DEF Typed
<1>2. \A i \in 0 .. n - 1 : ports[i + 1] = CPUSequencerWrapper(i)
  <2> TAKE i \in 0 .. n - 1
  <2>1. i + 1 \in 1 .. n /\ (i + 1) - 1 = i
    BY <1>1
  <2> QED
    BY <2>1
<1>a. \A i : CPUSequencerWrapper(i).inst = 2 * i /\ CPUSequencerWrapper(i).data = 2 * i + 1
  BY DEF CPUSequencerWrapper, Port
<1>3. \A i \in 0 .. n - 1 : CpuSeqs(i) = {2 * i, 2 * i + 1}
  BY <1>2, <1>a DEF CpuSeqs
<1>4. \A i \in 0 .. n - 1 : \A j \in 0 .. 1 : \E c \in Range(cntrls) : RequestL1(c, o, i, j)
  BY DEF CHIMade
<1>5. \A i \in 0 .. n - 1 : \A j \in 0 .. 1 : \E c \in Range(cntrls) :
        j + i * 2 \in Range(c.seqs) /\ c.clock = i
  BY <1>4 DEF RequestL1
<1>6. \A i \in 0 .. n - 1 : \A x \in CpuSeqs(i) : \E c \in Range(cntrls) :
        x \in Range(c.seqs) /\ c.clock \in {None, i}
  <2> TAKE i \in 0 .. n - 1
  <2> TAKE x \in CpuSeqs(i)
  <2>1. 2 * i = 0 + i * 2 /\ 2 * i + 1 = 1 + i * 2
    BY <1>1
  <2>2. \E j \in 0 .. 1 : x = j + i * 2
    BY <1>3, <2>1
  <2> QED
    BY <1>5, <2>2
<1>7. \A i, j \in 0 .. n - 1 : CpuSeqs(i) \cap CpuSeqs(j) # {} => i = j
  <2> TAKE i, j \in 0 .. n - 1
  <2>1. CpuSeqs(i) = {2 * i, 2 * i + 1} /\ CpuSeqs(j) = {2 * j, 2 * j + 1}
    BY <1>3
  <2> QED
    BY <1>1, <2>1
<1>8. DOMAIN ports = 1 .. n
  OBVIOUS
<1> QED
  BY <1>6, <1>7, <1>8 DEF CpuServers

\* The links of a script without a GPU.
LEMMA UserLinks ==
  ASSUME opts.script \in Scripts \ GpuScripts, links = Connections(opts, ports),
         NEW n \in Nat, opts.num_cpus = n, DOMAIN ports = 1 .. n
  PROVE  /\ \A l \in links : l.side \in {"inst", "data"} /\ l.user \in {"cpu", "tester"}
         /\ \A l \in links : \E i \in 0 .. n - 1 :
              l.seq \in CpuSeqs(i) /\ (l.user = "cpu" => l.n = i)
         /\ \A l, m \in links : l.user = m.user
<1> DEFINE OneOf(l, user) ==
             /\ l.side \in {"inst", "data"} /\ l.user = user
             /\ \E i \in 0 .. n - 1 : l.seq \in CpuSeqs(i) /\ (user = "cpu" => l.n = i)
<1>1. \A i \in 0 .. n - 1 : /\ OneOf(Link("cpu", i, "inst", ports[i + 1].inst), "cpu")
                            /\ OneOf(Link("cpu", i, "data", ports[i + 1].data), "cpu")
                            /\ OneOf(Link("tester", i, "data", ports[i + 1].data), "tester")
  BY DEF Link, CpuSeqs
<1>2. \A k \in DOMAIN ports : OneOf(Link("tester", 0, "data", ports[k].data), "tester")
  <2> TAKE k \in DOMAIN ports
  <2>1. k - 1 \in 0 .. n - 1 /\ (k - 1) + 1 = k
    OBVIOUS
  <2> QED
    BY <2>1 DEF Link, CpuSeqs
<1> HIDE DEF OneOf
<1>3. CASE opts.script \in {"se", "fs", "simple_ruby"}
  <2>1. links = CpuLinks(opts, ports)
    BY <1>3 DEF Connections, OneTester
  <2>2. \A l \in links : OneOf(l, "cpu")
    BY <1>1, <2>1 DEF CpuLinks
  <2> QED
    BY <2>2 DEF OneOf
<1>4. CASE opts.script \in {"ruby_mem_test", "garnet_synth_traffic"}
  <2>1. links = OwnPort(opts, ports)
    BY <1>4 DEF Connections, OneTester
  <2>2. \A l \in links : OneOf(l, "tester")
    BY <1>1, <2>1 DEF OwnPort
  <2> QED
    BY <2>2 DEF OneOf
<1>5. CASE opts.script \in OneTester \cup {"ruby_test"}
  <2>1. links = AllPorts(ports)
    BY <1>5 DEF Connections, OneTester
  <2>2. \A l \in links : OneOf(l, "tester")
    BY <1>2, <2>1 DEF AllPorts
  <2> QED
    BY <2>2 DEF OneOf
<1> QED
  BY <1>3, <1>4, <1>5 DEF Scripts, GpuScripts, OneTester, Tutorials

LEMMA UsersServed ==
  ASSUME Made(cntrls), opts.script \in Scripts \ GpuScripts, links = Connections(opts, ports),
         opts.num_cpus \in Nat, DOMAIN ports = 1 .. opts.num_cpus, CpuServers(opts.num_cpus),
         opts.protocol # "GPU_VIPER"
  PROVE  PortsServeTheirUsers
<1> DEFINE n == opts.num_cpus
<1>1. /\ \A l \in links : l.side \in {"inst", "data"} /\ l.user \in {"cpu", "tester"}
      /\ \A l \in links : \E i \in 0 .. n - 1 :
           l.seq \in CpuSeqs(i) /\ (l.user = "cpu" => l.n = i)
      /\ \A l, m \in links : l.user = m.user
  BY UserLinks
<1>2. \A i \in 0 .. n - 1 : \A x \in CpuSeqs(i) :
        /\ Cardinality(Servers(x)) = 1
        /\ \A c \in Servers(x) : c.type = "L0Cache" \/ c.clock \in {None, i}
  <2> TAKE i \in 0 .. n - 1
  <2> TAKE x \in CpuSeqs(i)
  <2>1. PICK c \in Range(cntrls) :
          x \in Range(c.seqs) /\ (c.type = "L0Cache" \/ c.clock \in {None, i})
    BY DEF CpuServers
  <2> QED
    BY <2>1, OwnServer
<1> HIDE DEF n
<1>3. \A l \in links : Cardinality(Servers(l.seq)) = 1
  BY <1>1, <1>2
<1>4. \A l \in links : l.user \in {"cpu", "cp"} =>
        /\ \A c \in Servers(l.seq) : OwnClock(l, c)
        /\ \A m \in links : m.seq = l.seq => m.user = l.user /\ m.n = l.n
  <2> SUFFICES ASSUME NEW l \in links, l.user \in {"cpu", "cp"}
               PROVE  /\ \A c \in Servers(l.seq) : OwnClock(l, c)
                      /\ \A m \in links : m.seq = l.seq => m.user = l.user /\ m.n = l.n
    OBVIOUS
  <2>1. l.n \in 0 .. n - 1 /\ l.seq \in CpuSeqs(l.n)
    BY <1>1
  <2>2. \A c \in Servers(l.seq) : OwnClock(l, c)
    BY <1>2, <2>1 DEF OwnClock
  <2>3. \A m \in links : m.seq = l.seq => m.user = l.user /\ m.n = l.n
    <3> SUFFICES ASSUME NEW m \in links, m.seq = l.seq PROVE m.user = l.user /\ m.n = l.n
      OBVIOUS
    <3>1. m.user = l.user /\ l.user = "cpu"
      BY <1>1
    <3>2. m.n \in 0 .. n - 1 /\ m.seq \in CpuSeqs(m.n)
      BY <1>1, <3>1
    <3> QED
      BY <2>1, <3>1, <3>2 DEF CpuServers, n
  <2> QED
    BY <2>2, <2>3
<1>5. {l.n : l \in {m \in links : m.user = "cu"}} = {}
  BY <1>1
<1>6. CpusApart
  BY <1>4 DEF CpusApart
<1>7. UnitsApart
  BY <1>5 DEF UnitsApart
<1>8. \A l \in links : l.side \notin {"vector", "token", "sqc", "scalar"}
  BY <1>1
<1>9. WithoutBuffers(opts) = {}
  BY DEF WithoutBuffers
<1> QED
  BY <1>3, <1>6, <1>7, <1>8, <1>9 DEF PortsServeTheirUsers

\* Ports of a kind, of every w-th sequencer from q on.
PortPart(b, m, kind, q, w) ==
  /\ Sequence(b) /\ Len(b) = m
  /\ \A i \in 0 .. m - 1 : b[i + 1] = Port(kind, q + i * w, q + i * w)

\* The data ports of command processors come before those for instructions.
CommandPorts(b, n, first) ==
  /\ Sequence(b) /\ Len(b) = 2 * n
  /\ \A i \in 0 .. n - 1 :
       /\ b[2 * i + 1] = Port("cp", first + 3 * i + 1, first + 3 * i + 1)
       /\ b[2 * i + 2] = Port("cp", first + 3 * i + 2, first + 3 * i + 2)

LEMMA FirstPorts ==
  ASSUME NEW s, NEW m \in Nat, NEW u, NEW v, NEW q \in Nat, NEW w \in Nat \ {0}, NEW bits,
         NEW kind,
         Selecting(s, m, u, v, q, w, bits)
  PROVE  PortPart(FirstOf(kind, s), m, kind, q, w)
<1> DEFINE b == FirstOf(kind, s)
<1>1. DOMAIN s = 1 .. m
  BY SequenceFacts DEF Selecting, Block
<1>2. b = [k \in 1 .. m |-> Port(kind, s[k].seqs[1], s[k].seqs[1])]
  BY <1>1 DEF FirstOf
<1> HIDE DEF b
<1>3. DOMAIN b = 1 .. m /\ b = [k \in 1 .. m |-> b[k]]
  BY <1>2
<1>4. Sequence(b) /\ Len(b) = m
  BY <1>3, SequenceOf
<1>5. ASSUME NEW i \in 0 .. m - 1
      PROVE  b[i + 1] = Port(kind, q + i * w, q + i * w)
  <2>1. i + 1 \in 1 .. m /\ (i + 1) - 1 = i /\ 1 \in 1 .. w
    OBVIOUS
  <2>2. s[i + 1].seqs[1] = (q + ((i + 1) - 1) * w) + (1 - 1)
    BY <2>1 DEF Selecting
  <2>3. s[i + 1].seqs[1] = (q + i * w) + 0
    BY <2>1, <2>2
  <2>4. (q + i * w) + 0 = q + i * w
    OBVIOUS
  <2>5. b[i + 1] = Port(kind, s[i + 1].seqs[1], s[i + 1].seqs[1])
    BY <1>2, <2>1
  <2> QED
    BY <2>3, <2>4, <2>5
<1> QED
  BY <1>4, <1>5 DEF PortPart, b

LEMMA LastPorts ==
  ASSUME NEW s, NEW n \in Nat, NEW T, NEW Q, NEW first \in Nat, NEW bits,
         CommandPart(s, n, T, Q, first, bits)
  PROVE  CommandPorts(LastOf("cp", s), n, first)
<1> DEFINE b == LastOf("cp", s)
           last(k) == s[k].seqs[Len(s[k].seqs)]
<1>1. DOMAIN s = 1 .. n * 2
  BY SequenceFacts DEF CommandPart
<1>2. b = [k \in 1 .. n * 2 |-> Port("cp", last(k), last(k))]
  BY <1>1 DEF LastOf
<1>3. ASSUME NEW i \in 0 .. n - 1
      PROVE  last(2 * i + 1) = first + 3 * i + 1 /\ last(2 * i + 2) = first + 3 * i + 2
  <2>1. CommandTCP(s[i * 2 + 1], T + i, first + 3 * i, bits)
        /\ CommandSQC(s[i * 2 + 2], Q + i, first + 3 * i + 2, bits)
    BY DEF CommandPart
  <2>2. i * 2 + 1 = 2 * i + 1 /\ i * 2 + 2 = 2 * i + 2
    OBVIOUS
  <2>3. CommandTCP(s[2 * i + 1], T + i, first + 3 * i, bits)
        /\ CommandSQC(s[2 * i + 2], Q + i, first + 3 * i + 2, bits)
    BY <2>1, <2>2
  <2> QED
    BY <2>3 DEF CommandTCP, CommandSQC
<1> HIDE DEF b, last
<1>4. DOMAIN b = 1 .. n * 2 /\ b = [k \in 1 .. n * 2 |-> b[k]] /\ n * 2 \in Nat /\ n * 2 = 2 * n
  BY <1>2
<1>5. Sequence(b) /\ Len(b) = 2 * n
  BY <1>4, SequenceOf
<1>6. \A k \in 1 .. n * 2 : b[k] = Port("cp", last(k), last(k))
  BY <1>2
<1>7. \A i \in 0 .. n - 1 : 2 * i + 1 \in 1 .. n * 2 /\ 2 * i + 2 \in 1 .. n * 2
  OBVIOUS
<1>8. \A i \in 0 .. n - 1 :
        /\ b[2 * i + 1] = Port("cp", first + 3 * i + 1, first + 3 * i + 1)
        /\ b[2 * i + 2] = Port("cp", first + 3 * i + 2, first + 3 * i + 2)
  BY <1>3, <1>6, <1>7
<1> QED
  BY <1>5, <1>8 DEF CommandPorts, b

LEMMA PairPorts ==
  ASSUME NEW o, CorePairs(o) \in Nat,
         Selecting(MyPairs(o), CorePairs(o), "CorePair", 0, 0, 2, None)
  PROVE  PortPart(CorePairPorts(o), CorePairs(o) * 2, "cpu", 0, 1)
<1> DEFINE P == CorePairs(o)
           s == MyPairs(o)
           b == CorePairPorts(o)
           seq(k) == s[(k - 1) \div 2 + 1].seqs[((k - 1) % 2) + 1]
<1>1. b = [k \in 1 .. P * 2 |-> Port("cpu", seq(k), seq(k))]
  BY DEF CorePairPorts, EachOf, MyPairs
<1>2. ASSUME NEW i \in 0 .. P * 2 - 1
      PROVE  seq(i + 1) = i /\ i + 1 \in 1 .. P * 2
  <2> DEFINE h == i \div 2
             j == i % 2
  <2>1. i \in Nat /\ P * 2 \in Nat
    OBVIOUS
  <2>2. h \in Nat /\ j \in 0 .. 1 /\ i = j + h * 2
    BY <2>1, Division
  <2>3. seq(i + 1) = s[h + 1].seqs[j + 1]
    <3>1. (i + 1) - 1 = i
      OBVIOUS
    <3> QED
      BY <3>1
  <2> HIDE DEF h, j, s, seq
  <2>4. h + 1 \in 1 .. P /\ j + 1 \in 1 .. 2
    BY <2>1, <2>2
  <2>5. s[h + 1].seqs[j + 1] = (0 + ((h + 1) - 1) * 2) + ((j + 1) - 1)
    BY <2>4 DEF Selecting, s
  <2>6. (0 + ((h + 1) - 1) * 2) + ((j + 1) - 1) = i
    BY <2>2
  <2> QED
    BY <2>1, <2>3, <2>5, <2>6
<1> HIDE DEF b, seq
<1>3. DOMAIN b = 1 .. P * 2 /\ b = [k \in 1 .. P * 2 |-> b[k]] /\ P * 2 \in Nat
  BY <1>1
<1>4. Sequence(b) /\ Len(b) = P * 2
  BY <1>3, SequenceOf
<1>5. \A i \in 0 .. P * 2 - 1 : b[i + 1] = Port("cpu", i, i)
  BY <1>1, <1>2
<1>6. \A i \in 0 .. P * 2 - 1 : 0 + i * 1 = i
  BY <1>3
<1>7. \A i \in 0 .. P * 2 - 1 : b[i + 1] = Port("cpu", 0 + i * 1, 0 + i * 1)
  BY <1>5, <1>6
<1> QED
  BY <1>4, <1>7 DEF PortPart, b

\* The order of the ports of a GPU's system.
GpuIdx(o)    == CorePairs(o) * 2
SqcIdx(o)    == GpuIdx(o) + o.num_compute_units
ScalarIdx(o) == SqcIdx(o) + o.num_sqc
CpIdx(o)     == ScalarIdx(o) + o.num_scalar_cache

ViperPorts(p, o) ==
  /\ Sequence(p) /\ Len(p) = CpIdx(o) + 2 * o.num_cp
  /\ \A i \in 0 .. GpuIdx(o) - 1 : p[i + 1] = Port("cpu", i, i)
  /\ \A i \in 0 .. o.num_compute_units - 1 :
       p[GpuIdx(o) + i + 1] = Port("vector", FirstTCP(o) + i * 2, FirstTCP(o) + i * 2)
  /\ \A i \in 0 .. o.num_sqc - 1 :
       p[SqcIdx(o) + i + 1] = Port("sqc", FirstSQC(o) + i, FirstSQC(o) + i)
  /\ \A i \in 0 .. o.num_scalar_cache - 1 :
       p[ScalarIdx(o) + i + 1] = Port("scalar", FirstScalar(o) + i, FirstScalar(o) + i)
  /\ \A i \in 0 .. o.num_cp - 1 :
       /\ p[CpIdx(o) + (2 * i) + 1] = Port("cp", FirstCP(o) + 3 * i + 1, FirstCP(o) + 3 * i + 1)
       /\ p[CpIdx(o) + (2 * i) + 2] = Port("cp", FirstCP(o) + 3 * i + 2, FirstCP(o) + 3 * i + 2)

\* A part behind those before it.
LEMMA PartBehind ==
  ASSUME NEW s, NEW b, Sequence(s), Sequence(b)
  PROVE  /\ Sequence(s \o b) /\ Len(s \o b) = Len(s) + Len(b)
         /\ \A k \in 1 .. Len(s) : (s \o b)[k] = s[k]
         /\ \A i \in 0 .. Len(b) - 1 : (s \o b)[Len(s) + i + 1] = b[i + 1]
<1>1. /\ Sequence(s \o b) /\ Len(s \o b) = Len(s) + Len(b)
      /\ \A k \in 1 .. Len(s) : (s \o b)[k] = s[k]
      /\ \A k \in 1 .. Len(b) : (s \o b)[Len(s) + k] = b[k]
      /\ Len(s) \in Nat /\ Len(b) \in Nat
  BY Concat, SequenceFacts
<1>2. \A i \in 0 .. Len(b) - 1 : i + 1 \in 1 .. Len(b) /\ Len(s) + (i + 1) = Len(s) + i + 1
  BY <1>1
<1> QED
  BY <1>1, <1>2

LEMMA ViperPortsMade ==
  ASSUME NEW o, Typed(o), ViperParts(o)
  PROVE  ViperPorts(cpu_sequencers(o), o)
<1> DEFINE U == o.num_compute_units
           Q == o.num_sqc
           S == o.num_scalar_cache
           C == o.num_cp
           p0 == CorePairPorts(o)
           b1 == FirstOf("vector", MyTCPs(o))
           b2 == FirstOf("sqc", MySQCs(o))
           b3 == FirstOf("scalar", MyScalars(o))
           b4 == LastOf("cp", MyCmdprocs(o))
           p1 == p0 \o b1
           p2 == p1 \o b2
           p3 == p2 \o b3
           p4 == p3 \o b4
           P == CorePairs(o)
<1>1. /\ P \in Nat /\ U \in Nat /\ Q \in Nat /\ S \in Nat /\ C \in Nat
      /\ FirstTCP(o) \in Nat /\ FirstSQC(o) \in Nat /\ FirstScalar(o) \in Nat /\ FirstCP(o) \in Nat
  BY ViperNumbersOK DEF ViperNumbers
<1>2. cpu_sequencers(o) = p4
  BY DEF cpu_sequencers, MyTCPs, MySQCs, MyScalars, MyCmdprocs
<1>3. PortPart(p0, P * 2, "cpu", 0, 1)
  BY <1>1, PairPorts DEF ViperParts
<1>4. PortPart(b1, U, "vector", FirstTCP(o), 2)
  BY <1>1, FirstPorts DEF ViperParts
<1>5. PortPart(b2, Q, "sqc", FirstSQC(o), 1)
  BY <1>1, FirstPorts DEF ViperParts
<1>6. PortPart(b3, S, "scalar", FirstScalar(o), 1)
  BY <1>1, FirstPorts DEF ViperParts
<1>7. CommandPorts(b4, C, FirstCP(o))
  BY <1>1, LastPorts DEF ViperParts
<1>8. /\ GpuIdx(o) \in Nat /\ SqcIdx(o) \in Nat /\ ScalarIdx(o) \in Nat /\ CpIdx(o) \in Nat
      /\ GpuIdx(o) = P * 2 /\ SqcIdx(o) = GpuIdx(o) + U /\ ScalarIdx(o) = SqcIdx(o) + Q
      /\ CpIdx(o) = ScalarIdx(o) + S
  BY <1>1 DEF GpuIdx, SqcIdx, ScalarIdx, CpIdx
<1> HIDE DEF U, Q, S, C, p0, b1, b2, b3, b4, p1, p2, p3, p4, P
<1>9. /\ Sequence(p0) /\ Len(p0) = GpuIdx(o)
      /\ \A i \in 0 .. GpuIdx(o) - 1 : p0[i + 1] = Port("cpu", i, i)
  <2>1. \A i \in 0 .. GpuIdx(o) - 1 : 0 + i * 1 = i
    BY <1>8
  <2> QED
    BY <1>3, <1>8, <2>1 DEF PortPart
<1>10. /\ Sequence(p1) /\ Len(p1) = SqcIdx(o)
       /\ \A k \in 1 .. GpuIdx(o) : p1[k] = p0[k]
       /\ \A i \in 0 .. U - 1 :
            p1[GpuIdx(o) + i + 1] = Port("vector", FirstTCP(o) + i * 2, FirstTCP(o) + i * 2)
  <2>1. \A i \in 0 .. U - 1 :
          b1[i + 1] = Port("vector", FirstTCP(o) + i * 2, FirstTCP(o) + i * 2)
    BY <1>4 DEF PortPart
  <2>2. Sequence(b1) /\ Len(b1) = U
    BY <1>4 DEF PortPart
  <2>3. /\ Sequence(p0 \o b1) /\ Len(p0 \o b1) = GpuIdx(o) + U
        /\ \A k \in 1 .. GpuIdx(o) : (p0 \o b1)[k] = p0[k]
        /\ \A i \in 0 .. U - 1 : (p0 \o b1)[GpuIdx(o) + i + 1] = b1[i + 1]
    <3>1. Sequence(p0) /\ Len(p0) = GpuIdx(o)
      BY <1>9
    <3>2. Sequence(p0) /\ Sequence(b1)
      BY <2>2, <3>1
    <3>3. /\ Sequence(p0 \o b1) /\ Len(p0 \o b1) = Len(p0) + Len(b1)
          /\ \A k \in 1 .. Len(p0) : (p0 \o b1)[k] = p0[k]
          /\ \A i \in 0 .. Len(b1) - 1 : (p0 \o b1)[Len(p0) + i + 1] = b1[i + 1]
      BY <3>2, PartBehind
    <3> QED
      BY <2>2, <3>1, <3>3, Zenon
  <2> QED
    BY <1>8, <2>1, <2>3 DEF p1
<1>11. /\ Sequence(p2) /\ Len(p2) = ScalarIdx(o)
       /\ \A k \in 1 .. SqcIdx(o) : p2[k] = p1[k]
       /\ \A i \in 0 .. Q - 1 :
            p2[SqcIdx(o) + i + 1] = Port("sqc", FirstSQC(o) + i * 1, FirstSQC(o) + i * 1)
  <2>1. \A i \in 0 .. Q - 1 :
          b2[i + 1] = Port("sqc", FirstSQC(o) + i * 1, FirstSQC(o) + i * 1)
    BY <1>5 DEF PortPart
  <2>2. Sequence(b2) /\ Len(b2) = Q
    BY <1>5 DEF PortPart
  <2>3. /\ Sequence(p1 \o b2) /\ Len(p1 \o b2) = SqcIdx(o) + Q
        /\ \A k \in 1 .. SqcIdx(o) : (p1 \o b2)[k] = p1[k]
        /\ \A i \in 0 .. Q - 1 : (p1 \o b2)[SqcIdx(o) + i + 1] = b2[i + 1]
    <3>1. Sequence(p1) /\ Len(p1) = SqcIdx(o)
      BY <1>10
    <3>2. Sequence(p1) /\ Sequence(b2)
      BY <2>2, <3>1
    <3>3. /\ Sequence(p1 \o b2) /\ Len(p1 \o b2) = Len(p1) + Len(b2)
          /\ \A k \in 1 .. Len(p1) : (p1 \o b2)[k] = p1[k]
          /\ \A i \in 0 .. Len(b2) - 1 : (p1 \o b2)[Len(p1) + i + 1] = b2[i + 1]
      BY <3>2, PartBehind
    <3> QED
      BY <2>2, <3>1, <3>3, Zenon
  <2> QED
    BY <1>8, <2>1, <2>3 DEF p2
<1>12. /\ Sequence(p3) /\ Len(p3) = CpIdx(o)
       /\ \A k \in 1 .. ScalarIdx(o) : p3[k] = p2[k]
       /\ \A i \in 0 .. S - 1 :
            p3[ScalarIdx(o) + i + 1] = Port("scalar", FirstScalar(o) + i * 1, FirstScalar(o) + i * 1)
  <2>1. \A i \in 0 .. S - 1 :
          b3[i + 1] = Port("scalar", FirstScalar(o) + i * 1, FirstScalar(o) + i * 1)
    BY <1>6 DEF PortPart
  <2>2. Sequence(b3) /\ Len(b3) = S
    BY <1>6 DEF PortPart
  <2>3. /\ Sequence(p2 \o b3) /\ Len(p2 \o b3) = ScalarIdx(o) + S
        /\ \A k \in 1 .. ScalarIdx(o) : (p2 \o b3)[k] = p2[k]
        /\ \A i \in 0 .. S - 1 : (p2 \o b3)[ScalarIdx(o) + i + 1] = b3[i + 1]
    <3>1. Sequence(p2) /\ Len(p2) = ScalarIdx(o)
      BY <1>11
    <3>2. Sequence(p2) /\ Sequence(b3)
      BY <2>2, <3>1
    <3>3. /\ Sequence(p2 \o b3) /\ Len(p2 \o b3) = Len(p2) + Len(b3)
          /\ \A k \in 1 .. Len(p2) : (p2 \o b3)[k] = p2[k]
          /\ \A i \in 0 .. Len(b3) - 1 : (p2 \o b3)[Len(p2) + i + 1] = b3[i + 1]
      BY <3>2, PartBehind
    <3> QED
      BY <2>2, <3>1, <3>3, Zenon
  <2> QED
    BY <1>8, <2>1, <2>3 DEF p3
<1>13. /\ Sequence(p4) /\ Len(p4) = CpIdx(o) + 2 * C
       /\ \A k \in 1 .. CpIdx(o) : p4[k] = p3[k]
       /\ \A k \in 1 .. 2 * C : p4[CpIdx(o) + k] = b4[k]
  <2>1. Sequence(b4) /\ Len(b4) = 2 * C /\ Sequence(p3) /\ Len(p3) = CpIdx(o)
    BY <1>7, <1>12 DEF CommandPorts
  <2> QED
    BY <2>1, Concat DEF p4
<1>14. \A i \in 0 .. GpuIdx(o) - 1 : p4[i + 1] = Port("cpu", i, i)
  <2> TAKE i \in 0 .. GpuIdx(o) - 1
  <2>1. i + 1 \in 1 .. GpuIdx(o) /\ i + 1 \in 1 .. SqcIdx(o) /\ i + 1 \in 1 .. ScalarIdx(o)
        /\ i + 1 \in 1 .. CpIdx(o)
    BY <1>1, <1>8
  <2> QED
    BY <1>9, <1>10, <1>11, <1>12, <1>13, <2>1
<1>15. \A i \in 0 .. U - 1 :
         p4[GpuIdx(o) + i + 1] = Port("vector", FirstTCP(o) + i * 2, FirstTCP(o) + i * 2)
  <2> TAKE i \in 0 .. U - 1
  <2> DEFINE k == GpuIdx(o) + i + 1
  <2>1. k \in 1 .. SqcIdx(o) /\ k \in 1 .. ScalarIdx(o) /\ k \in 1 .. CpIdx(o)
    BY <1>1, <1>8
  <2> QED
    BY <1>10, <1>11, <1>12, <1>13, <2>1
<1>16. \A i \in 0 .. Q - 1 : p4[SqcIdx(o) + i + 1] = Port("sqc", FirstSQC(o) + i, FirstSQC(o) + i)
  <2> TAKE i \in 0 .. Q - 1
  <2> DEFINE k == SqcIdx(o) + i + 1
  <2>1. k \in 1 .. ScalarIdx(o) /\ k \in 1 .. CpIdx(o) /\ i * 1 = i
    BY <1>1, <1>8
  <2> QED
    BY <1>11, <1>12, <1>13, <2>1
<1>17. \A i \in 0 .. S - 1 :
         p4[ScalarIdx(o) + i + 1] = Port("scalar", FirstScalar(o) + i, FirstScalar(o) + i)
  <2> TAKE i \in 0 .. S - 1
  <2> DEFINE k == ScalarIdx(o) + i + 1
  <2>1. k \in 1 .. CpIdx(o) /\ i * 1 = i
    BY <1>1, <1>8
  <2> QED
    BY <1>12, <1>13, <2>1
<1>18. \A i \in 0 .. C - 1 :
         /\ p4[CpIdx(o) + (2 * i) + 1] = Port("cp", FirstCP(o) + 3 * i + 1, FirstCP(o) + 3 * i + 1)
         /\ p4[CpIdx(o) + (2 * i) + 2] = Port("cp", FirstCP(o) + 3 * i + 2, FirstCP(o) + 3 * i + 2)
  <2> TAKE i \in 0 .. C - 1
  <2>1. /\ 2 * i + 1 \in 1 .. 2 * C /\ 2 * i + 2 \in 1 .. 2 * C
        /\ CpIdx(o) + (2 * i + 1) = CpIdx(o) + (2 * i) + 1
        /\ CpIdx(o) + (2 * i + 2) = CpIdx(o) + (2 * i) + 2
    BY <1>1, <1>8
  <2>2. /\ b4[2 * i + 1] = Port("cp", FirstCP(o) + 3 * i + 1, FirstCP(o) + 3 * i + 1)
        /\ b4[2 * i + 2] = Port("cp", FirstCP(o) + 3 * i + 2, FirstCP(o) + 3 * i + 2)
    BY <1>7 DEF CommandPorts
  <2>3. /\ p4[CpIdx(o) + (2 * i + 1)] = b4[2 * i + 1]
        /\ p4[CpIdx(o) + (2 * i + 2)] = b4[2 * i + 2]
    BY <1>13, <2>1
  <2> QED
    BY <2>1, <2>2, <2>3
<1> QED
  BY <1>2, <1>13, <1>14, <1>15, <1>16, <1>17, <1>18 DEF ViperPorts, U, Q, S, C

\* The multiples of per up to cu.
LEMMA MultiplesCounted ==
  ASSUME NEW cu \in Nat, NEW per \in Nat \ {0}
  PROVE  Begun(cu, per) = cu \div per
<1> DEFINE J == {j \in 1 .. cu : j % per = 0}
           f == [j \in J |-> (j \div per) - 1]
           q == cu \div per
<1>1. q \in Nat /\ cu % per \in 0 .. per - 1 /\ cu = (cu % per) + q * per
  BY Division
<1>2. \A j \in J : j = (j \div per) * per /\ j \div per \in Nat /\ j <= cu /\ j >= 1
  <2> TAKE j \in J
  <2>1. j \in Nat /\ j % per = 0 /\ j <= cu /\ j >= 1
    OBVIOUS
  <2>2. j \div per \in Nat /\ j = (j % per) + (j \div per) * per
    BY <2>1, Division
  <2> QED
    BY <2>1, <2>2
<1> HIDE DEF q
<1>3. f \in [J -> 0 .. q - 1]
  <2> SUFFICES ASSUME NEW j \in J PROVE (j \div per) - 1 \in 0 .. q - 1
    OBVIOUS
  <2> DEFINE k == j \div per
  <2>1. k \in Nat /\ j = k * per /\ j <= cu /\ j >= 1
    BY <1>2
  <2> HIDE DEF k
  <2>2. k # 0
    BY <2>1
  <2>3. k <= q
    <3> SUFFICES ASSUME q < k PROVE FALSE
      BY <1>1, <2>1
    <3>1. q * per + per <= k * per /\ q * per \in Nat /\ k * per \in Nat
      BY <1>1, <2>1, Product
    <3> QED
      BY <1>1, <2>1, <3>1
  <2>4. k - 1 \in 0 .. q - 1
    BY <1>1, <2>1, <2>2, <2>3
  <2> QED
    BY <2>4 DEF k
<1>4. \A x, y \in J : f[x] = f[y] => x = y
  <2> TAKE x, y \in J
  <2>1. /\ x \div per \in Nat /\ y \div per \in Nat
        /\ x = (x \div per) * per /\ y = (y \div per) * per
    BY <1>2
  <2> HAVE f[x] = f[y]
  <2>2. (x \div per) - 1 = (y \div per) - 1
    OBVIOUS
  <2>3. x \div per = y \div per
    BY <2>1, <2>2
  <2> QED
    BY <2>1, <2>3
<1>5. \A v \in 0 .. q - 1 : \E x \in J : f[x] = v
  <2> TAKE v \in 0 .. q - 1
  <2> DEFINE x == 0 + (v + 1) * per
  <2>1. v + 1 \in Nat /\ v + 1 <= q
    BY <1>1
  <2>2. (v + 1) * per <= q * per /\ (v + 1) * per \in Nat /\ q * per \in Nat
    BY <1>1, <2>1, NoLess
  <2>3. per <= (v + 1) * per
    <3>1. 1 * per <= (v + 1) * per /\ 1 * per = per
      BY <2>1, NoLess
    <3> QED
      BY <3>1
  <2>4. x % per = 0 /\ x \div per = v + 1
    BY <2>1, DivisionUnique
  <2>5. x \in 1 .. cu
    BY <1>1, <2>2, <2>3
  <2> HIDE DEF x
  <2>6. x \in J /\ f[x] = v
    BY <2>1, <2>4, <2>5
  <2> QED
    BY <2>6
<1> HIDE DEF f, J
<1>6. Cardinality(J) = q
  BY <1>1, <1>3, <1>4, <1>5, OneToOne
<1> QED
  BY <1>6 DEF Begun, q, J

\* The last group of n units.
LEMMA LastGroup ==
  ASSUME NEW n \in Nat \ {0}, NEW per \in Nat \ {0}
  PROVE  Begun(n - 1, per) + 1 = CeilDiv(n, per)
<1> DEFINE a == n - 1
<1>1. a \in Nat
  OBVIOUS
<1> HIDE DEF a
<1> DEFINE q == a \div per
           m == a % per
<1>2. q \in Nat /\ m \in 0 .. per - 1 /\ a = m + q * per
  BY <1>1, Division
<1>3. Begun(a, per) = q
  BY <1>1, MultiplesCounted
<1> HIDE DEF q, m
<1>4. (m + (q + 1) * per) \div per = q + 1
  BY <1>2, DivisionUnique
<1>5. m + (q + 1) * per = n + per - 1
  BY <1>2 DEF a
<1> QED
  BY <1>3, <1>4, <1>5 DEF CeilDiv, a

\* A system of a GPU: its controllers, its ports and its options.
GpuMade(o) ==
  /\ Prepared(o) /\ Typed(o) /\ o.script \in GpuScripts
  /\ Made(cntrls) /\ ViperParts(o) /\ ViperSystemMade(cntrls, o) /\ ViperPorts(ports, o)

LEMMA GpuNumbers ==
  ASSUME NEW o, GpuMade(o)
  PROVE  /\ o.num_cpus \in Nat /\ o.num_compute_units \in Nat /\ o.num_sqc \in Nat
         /\ o.num_scalar_cache \in Nat /\ o.num_cp \in Nat
         /\ o.cu_per_sqc \in Nat \ {0} /\ o.cu_per_scalar_cache \in Nat \ {0}
         /\ GpuIdx(o) \in Nat /\ FirstTCP(o) = GpuIdx(o) /\ o.num_cpus <= GpuIdx(o)
         /\ SqcIdx(o) = GpuIdx(o) + o.num_compute_units
         /\ ScalarIdx(o) = SqcIdx(o) + o.num_sqc
         /\ CpIdx(o) = ScalarIdx(o) + o.num_scalar_cache
         /\ FirstSQC(o) = FirstTCP(o) + o.num_compute_units * 2
         /\ FirstScalar(o) = FirstSQC(o) + o.num_sqc
         /\ FirstCP(o) = FirstScalar(o) + o.num_scalar_cache
<1>1. /\ o.num_cpus \in Nat /\ o.num_compute_units \in Nat /\ o.num_sqc \in Nat
      /\ o.num_scalar_cache \in Nat /\ o.num_cp \in Nat
      /\ o.cu_per_sqc \in Nat \ {0} /\ o.cu_per_scalar_cache \in Nat \ {0}
  BY DEF GpuMade, Typed
<1>2. CorePairs(o) \in Nat /\ o.num_cpus <= CorePairs(o) * 2
  BY <1>1 DEF CorePairs
<1>3. GpuIdx(o) \in Nat /\ FirstTCP(o) = GpuIdx(o) /\ o.num_cpus <= GpuIdx(o)
  BY <1>2 DEF GpuIdx, FirstTCP
<1> QED
  BY <1>1, <1>3 DEF SqcIdx, ScalarIdx, CpIdx, FirstSQC, FirstScalar, FirstCP

LEMMA GpuIndices ==
  ASSUME NEW o, GpuMade(o)
  PROVE  /\ GpuPortIdx(o, ports) = GpuIdx(o) /\ SqcPortIdx(o, ports) = SqcIdx(o)
         /\ o.script \in {"apu_se", "runfs"} /\ o.num_compute_units # 0 =>
              ScalarPortIdx(o, ports) = ScalarIdx(o) /\ CpPortIdx(o, ports) = CpIdx(o)
<1> DEFINE U == o.num_compute_units
<1>1. Len(ports) = CpIdx(o) + 2 * o.num_cp
  BY DEF GpuMade, ViperPorts
<1>2. GpuPortIdx(o, ports) = GpuIdx(o)
  <2>1. /\ GpuIdx(o) \in Nat /\ U \in Nat /\ o.num_sqc \in Nat /\ o.num_scalar_cache \in Nat
        /\ o.num_cp \in Nat
        /\ CpIdx(o) = GpuIdx(o) + U + o.num_sqc + o.num_scalar_cache
    BY GpuNumbers
  <2> DEFINE c == 2 * o.num_cp
  <2>2. c \in Nat /\ Len(ports) = CpIdx(o) + c
    BY <1>1, <2>1
  <2>3. GpuPortIdx(o, ports) = Len(ports) - U - o.num_sqc - o.num_scalar_cache - c
    BY DEF GpuPortIdx
  <2> DEFINE q == o.num_sqc
             t == o.num_scalar_cache
             g == GpuIdx(o)
  <2>4. GpuPortIdx(o, ports) = (g + U + q + t + c) - U - q - t - c
    BY <2>1, <2>2, <2>3
  <2>5. g \in Nat /\ U \in Nat /\ q \in Nat /\ t \in Nat /\ c \in Nat
    BY <2>1, <2>2
  <2> HIDE DEF c, q, t, g, U
  <2>6. (g + U + q + t + c) - U - q - t - c = g
    BY <2>5
  <2> QED
    BY Zenon, <2>4, <2>6 DEF g
<1>3. SqcPortIdx(o, ports) = SqcIdx(o)
  BY <1>2, GpuNumbers DEF SqcPortIdx
<1>4. ASSUME o.script \in {"apu_se", "runfs"}, U # 0
      PROVE  ScalarPortIdx(o, ports) = ScalarIdx(o) /\ CpPortIdx(o, ports) = CpIdx(o)
  <2>1. /\ o.num_sqc = CeilDiv(U, o.cu_per_sqc)
        /\ o.num_scalar_cache = CeilDiv(U, o.cu_per_scalar_cache)
    BY <1>4 DEF GpuMade, Prepared
  <2>2. U \in Nat \ {0} /\ o.cu_per_sqc \in Nat \ {0} /\ o.cu_per_scalar_cache \in Nat \ {0}
    BY <1>4, GpuNumbers
  <2>3. /\ Begun(U - 1, o.cu_per_sqc) + 1 = o.num_sqc
        /\ Begun(U - 1, o.cu_per_scalar_cache) + 1 = o.num_scalar_cache
    BY <2>1, <2>2, LastGroup
  <2>4. Begun(U - 1, o.cu_per_sqc) \in Nat /\ Begun(U - 1, o.cu_per_scalar_cache) \in Nat
    <3>1. U - 1 \in Nat
      BY <2>2
    <3> QED
      BY <2>2, <3>1, MultiplesCounted, Division
  <2>5. ScalarPortIdx(o, ports) = ScalarIdx(o)
    BY <1>3, <2>3, <2>4, GpuNumbers DEF ScalarPortIdx
  <2> QED
    BY <2>3, <2>4, <2>5, GpuNumbers DEF CpPortIdx
<1> QED
  BY <1>2, <1>3, <1>4

\* Every place among the ports.
LEMMA PortPlaces ==
  ASSUME NEW o, GpuMade(o)
  PROVE  /\ DOMAIN ports = 1 .. CpIdx(o) + 2 * o.num_cp
         /\ \A k \in DOMAIN ports :
              \/ \E i \in 0 .. GpuIdx(o) - 1 : k = i + 1
              \/ \E i \in 0 .. o.num_compute_units - 1 : k = GpuIdx(o) + i + 1
              \/ \E i \in 0 .. o.num_sqc - 1 : k = SqcIdx(o) + i + 1
              \/ \E i \in 0 .. o.num_scalar_cache - 1 : k = ScalarIdx(o) + i + 1
              \/ \E i \in 0 .. o.num_cp - 1 :
                   k = CpIdx(o) + (2 * i) + 1 \/ k = CpIdx(o) + (2 * i) + 2
<1>1. DOMAIN ports = 1 .. CpIdx(o) + 2 * o.num_cp
  BY SequenceFacts DEF GpuMade, ViperPorts
<1> DEFINE U == o.num_compute_units
           Q == o.num_sqc
           S == o.num_scalar_cache
           C == o.num_cp
           a == GpuIdx(o)
           b == SqcIdx(o)
           c == ScalarIdx(o)
           d == CpIdx(o)
<1>2. /\ U \in Nat /\ Q \in Nat /\ S \in Nat /\ C \in Nat /\ a \in Nat
      /\ b = a + U /\ c = b + Q /\ d = c + S
  BY GpuNumbers
<1> HIDE DEF U, Q, S, C, a, b, c, d
<1>3. ASSUME NEW k \in 1 .. d + 2 * C
      PROVE  \/ \E i \in 0 .. a - 1 : k = i + 1
             \/ \E i \in 0 .. U - 1 : k = a + i + 1
             \/ \E i \in 0 .. Q - 1 : k = b + i + 1
             \/ \E i \in 0 .. S - 1 : k = c + i + 1
             \/ \E i \in 0 .. C - 1 : k = d + (2 * i) + 1 \/ k = d + (2 * i) + 2
  <2>1. CASE k <= a
    <3>1. k - 1 \in 0 .. a - 1 /\ k = (k - 1) + 1
      BY <1>2, <2>1
    <3> QED
      BY <3>1
  <2>2. CASE a < k /\ k <= b
    <3>1. k - a - 1 \in 0 .. U - 1 /\ k = a + (k - a - 1) + 1
      BY <1>2, <2>2
    <3> QED
      BY <3>1
  <2>3. CASE b < k /\ k <= c
    <3>1. k - b - 1 \in 0 .. Q - 1 /\ k = b + (k - b - 1) + 1
      BY <1>2, <2>3
    <3> QED
      BY <3>1
  <2>4. CASE c < k /\ k <= d
    <3>1. k - c - 1 \in 0 .. S - 1 /\ k = c + (k - c - 1) + 1
      BY <1>2, <2>4
    <3> QED
      BY <3>1
  <2>5. CASE d < k
    <3> DEFINE e == k - d - 1
               i == e \div 2
    <3>1. e \in Nat /\ k = d + e + 1 /\ e < 2 * C
      BY <1>2, <2>5
    <3> HIDE DEF e
    <3>2. i \in 0 .. C - 1 /\ (e = 2 * i \/ e = 2 * i + 1)
      BY <1>2, <3>1
    <3> HIDE DEF i
    <3>3. k = d + (2 * i) + 1 \/ k = d + (2 * i) + 2
      BY <1>2, <3>1, <3>2
    <3> QED
      BY <3>2, <3>3
  <2> QED
    BY <1>2, <2>1, <2>2, <2>3, <2>4, <2>5
<1> QED
  BY <1>1, <1>3 DEF U, Q, S, C, a, b, c, d

LEMMA PortFields ==
  ASSUME NEW kind, NEW inst, NEW data
  PROVE  LET p == Port(kind, inst, data)
         IN  p.kind = kind /\ p.inst = inst /\ p.data = data
BY DEF Port

LEMMA LinkFields ==
  ASSUME NEW user, NEW n, NEW side, NEW seq
  PROVE  LET l == Link(user, n, side, seq)
         IN  l.user = user /\ l.n = n /\ l.side = side /\ l.seq = seq
BY DEF Link

\* The data requests of every port, and which are coalescers.
PortData(o) ==
  /\ \A i \in 0 .. GpuIdx(o) - 1 :
       ports[i + 1].inst = i /\ ports[i + 1].data = i /\ ports[i + 1].kind = "cpu"
  /\ \A i \in 0 .. o.num_compute_units - 1 :
       ports[GpuIdx(o) + i + 1].data = FirstTCP(o) + i * 2
       /\ ports[GpuIdx(o) + i + 1].kind = "vector"
  /\ \A i \in 0 .. o.num_sqc - 1 :
       ports[SqcIdx(o) + i + 1].data = FirstSQC(o) + i /\ ports[SqcIdx(o) + i + 1].kind = "sqc"
  /\ \A i \in 0 .. o.num_scalar_cache - 1 :
       ports[ScalarIdx(o) + i + 1].data = FirstScalar(o) + i
       /\ ports[ScalarIdx(o) + i + 1].kind = "scalar"
  /\ \A i \in 0 .. o.num_cp - 1 :
       /\ ports[CpIdx(o) + (2 * i) + 1].data = FirstCP(o) + 3 * i + 1
       /\ ports[CpIdx(o) + (2 * i) + 2].data = FirstCP(o) + 3 * i + 2
       /\ ports[CpIdx(o) + (2 * i) + 1].kind = "cp"
       /\ ports[CpIdx(o) + (2 * i) + 2].kind = "cp"

LEMMA PortDataOK ==
  ASSUME NEW o, GpuMade(o)
  PROVE  PortData(o)
<1>1. /\ \A i \in 0 .. GpuIdx(o) - 1 : ports[i + 1] = Port("cpu", i, i)
      /\ \A i \in 0 .. o.num_compute_units - 1 :
           ports[GpuIdx(o) + i + 1] = Port("vector", FirstTCP(o) + i * 2, FirstTCP(o) + i * 2)
      /\ \A i \in 0 .. o.num_sqc - 1 :
           ports[SqcIdx(o) + i + 1] = Port("sqc", FirstSQC(o) + i, FirstSQC(o) + i)
      /\ \A i \in 0 .. o.num_scalar_cache - 1 :
           ports[ScalarIdx(o) + i + 1] = Port("scalar", FirstScalar(o) + i, FirstScalar(o) + i)
      /\ \A i \in 0 .. o.num_cp - 1 :
           /\ ports[CpIdx(o) + (2 * i) + 1] = Port("cp", FirstCP(o) + 3 * i + 1, FirstCP(o) + 3 * i + 1)
           /\ ports[CpIdx(o) + (2 * i) + 2] = Port("cp", FirstCP(o) + 3 * i + 2, FirstCP(o) + 3 * i + 2)
  BY DEF GpuMade, ViperPorts
<1>2. \A i \in 0 .. GpuIdx(o) - 1 :
        ports[i + 1].inst = i /\ ports[i + 1].data = i /\ ports[i + 1].kind = "cpu"
  BY <1>1, PortFields
<1>3. \A i \in 0 .. o.num_compute_units - 1 :
        ports[GpuIdx(o) + i + 1].data = FirstTCP(o) + i * 2
        /\ ports[GpuIdx(o) + i + 1].kind = "vector"
  BY <1>1, PortFields
<1>4. \A i \in 0 .. o.num_sqc - 1 :
        ports[SqcIdx(o) + i + 1].data = FirstSQC(o) + i /\ ports[SqcIdx(o) + i + 1].kind = "sqc"
  BY <1>1, PortFields
<1>5. \A i \in 0 .. o.num_scalar_cache - 1 :
        ports[ScalarIdx(o) + i + 1].data = FirstScalar(o) + i
        /\ ports[ScalarIdx(o) + i + 1].kind = "scalar"
  BY <1>1, PortFields
<1>6. \A i \in 0 .. o.num_cp - 1 :
        /\ ports[CpIdx(o) + (2 * i) + 1].data = FirstCP(o) + 3 * i + 1
        /\ ports[CpIdx(o) + (2 * i) + 2].data = FirstCP(o) + 3 * i + 2
        /\ ports[CpIdx(o) + (2 * i) + 1].kind = "cp"
        /\ ports[CpIdx(o) + (2 * i) + 2].kind = "cp"
  BY <1>1, PortFields
<1> QED
  BY <1>2, <1>3, <1>4, <1>5, <1>6 DEF PortData

LEMMA CoalescersAre ==
  ASSUME NEW o, GpuMade(o)
  PROVE  /\ Coalescers(ports) = GpuIdx(o) + 1 .. GpuIdx(o) + o.num_compute_units
         /\ \A i \in 0 .. o.num_compute_units - 1 :
              Cardinality({j \in Coalescers(ports) : j < GpuIdx(o) + i + 1}) = i
<1> DEFINE a == GpuIdx(o)
           U == o.num_compute_units
<1>1. a \in Nat /\ U \in Nat
  BY GpuNumbers
<1>2. /\ DOMAIN ports = 1 .. CpIdx(o) + 2 * o.num_cp
      /\ \A i \in 0 .. U - 1 : a + i + 1 \in 1 .. CpIdx(o) + 2 * o.num_cp
  <2>1. /\ o.num_sqc \in Nat /\ o.num_scalar_cache \in Nat /\ o.num_cp \in Nat
        /\ CpIdx(o) = a + U + o.num_sqc + o.num_scalar_cache
    BY GpuNumbers
  <2> HIDE DEF a, U
  <2>2. \A i \in 0 .. U - 1 : a + i + 1 \in 1 .. CpIdx(o) + 2 * o.num_cp
    BY <1>1, <2>1
  <2> QED
    BY <2>2, PortPlaces
<1>3. \A k \in DOMAIN ports : ports[k].kind = "vector" => \E i \in 0 .. U - 1 : k = a + i + 1
  <2> SUFFICES ASSUME NEW k \in DOMAIN ports, ports[k].kind = "vector"
               PROVE  \E i \in 0 .. U - 1 : k = a + i + 1
    OBVIOUS
  <2>1. PortData(o)
    BY PortDataOK
  <2>2. \A i \in 0 .. a - 1 : k # i + 1
    BY <2>1 DEF PortData
  <2>3. \A i \in 0 .. o.num_sqc - 1 : k # SqcIdx(o) + i + 1
    BY <2>1 DEF PortData
  <2>4. \A i \in 0 .. o.num_scalar_cache - 1 : k # ScalarIdx(o) + i + 1
    BY <2>1 DEF PortData
  <2>5. \A i \in 0 .. o.num_cp - 1 :
          k # CpIdx(o) + (2 * i) + 1 /\ k # CpIdx(o) + (2 * i) + 2
    BY <2>1 DEF PortData
  <2> QED
    BY <2>2, <2>3, <2>4, <2>5, PortPlaces
<1>4. \A i \in 0 .. U - 1 : ports[a + i + 1].kind = "vector"
  BY PortDataOK DEF PortData
<1> HIDE DEF a, U
<1>5. \A k \in a + 1 .. a + U : k - a - 1 \in 0 .. U - 1 /\ k = a + (k - a - 1) + 1
  BY <1>1
<1>6. Coalescers(ports) = a + 1 .. a + U
  <2>1. ASSUME NEW k \in Coalescers(ports) PROVE k \in a + 1 .. a + U
    <3>1. PICK i \in 0 .. U - 1 : k = a + i + 1
      BY <1>3 DEF Coalescers
    <3> QED
      BY <1>1, <3>1
  <2>2. ASSUME NEW k \in a + 1 .. a + U PROVE k \in Coalescers(ports)
    <3>1. PICK i \in 0 .. U - 1 : k = a + i + 1
      BY <1>5
    <3> QED
      BY <1>2, <1>4, <3>1 DEF Coalescers
  <2> QED
    BY <2>1, <2>2
<1>7. ASSUME NEW i \in 0 .. U - 1
      PROVE  Cardinality({j \in Coalescers(ports) : j < a + i + 1}) = i
  <2>1. {j \in Coalescers(ports) : j < a + i + 1} = a + 1 .. a + i
    BY <1>1, <1>6
  <2>2. Cardinality(a + 1 .. a + i) = i
    BY <1>1, FS_Interval
  <2> QED
    BY <2>1, <2>2
<1> QED
  BY <1>6, <1>7 DEF a, U

\* The links of a script with a GPU: those of its CPUs, of its units and of its
\* command processors.
CpuLink(o, l) ==
  /\ l.user = "cpu" /\ l.side \in {"inst", "data"} /\ l.n \in 0 .. o.num_cpus - 1
  /\ l.seq = l.n

UnitLink(o, l) ==
  /\ l.user = "cu" /\ l.n \in 0 .. o.num_compute_units - 1
  /\ \/ l.side \in {"vector", "token"} /\ l.seq = FirstTCP(o) + l.n * 2
     \/ l.side = "sqc" /\ l.seq = FirstSQC(o) + l.n \div o.cu_per_sqc
     \/ l.side = "scalar" /\ l.seq = FirstScalar(o) + l.n \div o.cu_per_scalar_cache

CpLink(o, l) ==
  /\ l.user = "cp" /\ l.n \in 0 .. o.num_cp - 1
  /\ \/ l.side = "data" /\ l.seq = FirstCP(o) + 3 * l.n + 1
     \/ l.side = "inst" /\ l.seq = FirstCP(o) + 3 * l.n + 2

\* A unit has all of its connections.
UnitLinked(o, S) ==
  \A i \in 0 .. o.num_compute_units - 1 : \A side \in {"vector", "token", "sqc", "scalar"} :
    \E l \in S : l.user = "cu" /\ l.n = i /\ l.side = side

LEMMA CpuLinksOK ==
  ASSUME NEW o, GpuMade(o)
  PROVE  \A l \in CpuLinks(o, ports) : CpuLink(o, l)
<1>1. o.num_cpus <= GpuIdx(o) /\ GpuIdx(o) \in Nat /\ o.num_cpus \in Nat
  BY GpuNumbers
<1>2. \A i \in 0 .. o.num_cpus - 1 : ports[i + 1].inst = i /\ ports[i + 1].data = i
  <2> TAKE i \in 0 .. o.num_cpus - 1
  <2>1. i \in 0 .. GpuIdx(o) - 1
    BY <1>1
  <2> QED
    BY <2>1, PortDataOK DEF PortData
<1>3. \A i \in 0 .. o.num_cpus - 1 :
        /\ CpuLink(o, Link("cpu", i, "inst", ports[i + 1].inst))
        /\ CpuLink(o, Link("cpu", i, "data", ports[i + 1].data))
  BY <1>2, LinkFields DEF CpuLink
<1> QED
  BY <1>3 DEF CpuLinks

LEMMA CommandLinksOK ==
  ASSUME NEW o, GpuMade(o), o.script = "apu_se"
  PROVE  \A l \in CommandLinks(o, ports) : CpLink(o, l)
<1>1. CpPortIdx(o, ports) = CpIdx(o)
  BY GpuIndices DEF GpuMade, Prepared
<1>2. \A i \in 0 .. o.num_cp - 1 :
        /\ ports[CpIdx(o) + (2 * i) + 1].data = FirstCP(o) + 3 * i + 1
        /\ ports[CpIdx(o) + (2 * i) + 2].data = FirstCP(o) + 3 * i + 2
  BY PortDataOK DEF PortData
<1>3. \A i \in 0 .. o.num_cp - 1 :
        /\ CpLink(o, Link("cp", i, "data", ports[CpIdx(o) + (2 * i) + 1].data))
        /\ CpLink(o, Link("cp", i, "inst", ports[CpIdx(o) + (2 * i) + 2].data))
  BY <1>2, LinkFields DEF CpLink
<1> QED
  BY <1>1, <1>3 DEF CommandLinks

LEMMA GpuLinksOK ==
  ASSUME NEW o, GpuMade(o), o.script \in {"apu_se", "runfs"}
  PROVE  (\A l \in GpuLinks(o, ports) : UnitLink(o, l)) /\ UnitLinked(o, GpuLinks(o, ports))
<1> DEFINE U == o.num_compute_units
           V(i) == Link("cu", i, "vector", ports[GpuIdx(o) + i + 1].data)
           Q(i) == Link("cu", i, "sqc", ports[SqcIdx(o) + (i \div o.cu_per_sqc) + 1].data)
           S(i) == Link("cu", i, "scalar",
                        ports[ScalarIdx(o) + (i \div o.cu_per_scalar_cache) + 1].data)
           W(i) == Link("cu", i, "token", ports[GpuIdx(o) + i + 1].data)
<1>1. /\ U \in Nat /\ GpuIdx(o) \in Nat /\ SqcIdx(o) \in Nat /\ ScalarIdx(o) \in Nat
      /\ o.cu_per_sqc \in Nat \ {0} /\ o.cu_per_scalar_cache \in Nat \ {0}
  BY GpuNumbers
<1>2. /\ o.num_sqc = CeilDiv(U, o.cu_per_sqc)
      /\ o.num_scalar_cache = CeilDiv(U, o.cu_per_scalar_cache)
  BY DEF GpuMade, Prepared
<1>3. \A i \in 0 .. U - 1 : /\ i \div o.cu_per_sqc \in 0 .. o.num_sqc - 1
                            /\ i \div o.cu_per_scalar_cache \in 0 .. o.num_scalar_cache - 1
  BY <1>1, <1>2, Grouped
<1>4. /\ \A i \in 0 .. U - 1 : ports[GpuIdx(o) + i + 1].data = FirstTCP(o) + i * 2
      /\ \A i \in 0 .. o.num_sqc - 1 : ports[SqcIdx(o) + i + 1].data = FirstSQC(o) + i
      /\ \A i \in 0 .. o.num_scalar_cache - 1 :
           ports[ScalarIdx(o) + i + 1].data = FirstScalar(o) + i
  BY PortDataOK DEF PortData
<1>5. \A i \in 0 .. U - 1 : UnitLink(o, V(i)) /\ UnitLink(o, W(i))
  BY <1>4, LinkFields DEF UnitLink
<1>6. \A i \in 0 .. U - 1 : UnitLink(o, Q(i)) /\ UnitLink(o, S(i))
  <2> TAKE i \in 0 .. U - 1
  <2> DEFINE q == i \div o.cu_per_sqc
             s == i \div o.cu_per_scalar_cache
  <2>1. ports[SqcIdx(o) + q + 1].data = FirstSQC(o) + q
        /\ ports[ScalarIdx(o) + s + 1].data = FirstScalar(o) + s
    BY <1>3, <1>4
  <2>2. /\ Q(i).user = "cu" /\ Q(i).n = i /\ Q(i).side = "sqc" /\ Q(i).seq = FirstSQC(o) + q
        /\ S(i).user = "cu" /\ S(i).n = i /\ S(i).side = "scalar" /\ S(i).seq = FirstScalar(o) + s
    BY <2>1, LinkFields
  <2> HIDE DEF Q, S
  <2> QED
    BY <2>2 DEF UnitLink
<1>7. \A i \in 0 .. U - 1 : Begun(i, o.cu_per_sqc) = i \div o.cu_per_sqc
                            /\ Begun(i, o.cu_per_scalar_cache) = i \div o.cu_per_scalar_cache
  <2> TAKE i \in 0 .. U - 1
  <2>1. i \in Nat
    BY <1>1
  <2> QED
    BY <1>1, <2>1, MultiplesCounted
<1>8. TokenLinks(ports) = {W(i) : i \in 0 .. U - 1}
  <2> DEFINE a == GpuIdx(o)
             T(k) == Link("cu", Cardinality({j \in Coalescers(ports) : j < k}), "token",
                          ports[k].data)
  <2>1. TokenLinks(ports) = {T(k) : k \in Coalescers(ports)}
    BY DEF TokenLinks
  <2>2. Coalescers(ports) = a + 1 .. a + U
    BY CoalescersAre
  <2>3. \A i \in 0 .. U - 1 : T(a + i + 1) = W(i) /\ a + i + 1 \in a + 1 .. a + U
    <3> TAKE i \in 0 .. U - 1
    <3>1. Cardinality({j \in Coalescers(ports) : j < a + i + 1}) = i
      BY CoalescersAre
    <3>2. T(a + i + 1) = W(i)
      BY <3>1
    <3>3. a + i + 1 \in a + 1 .. a + U
      BY <1>1
    <3> QED
      BY <3>2, <3>3
  <2>4. \A k \in a + 1 .. a + U : k - a - 1 \in 0 .. U - 1 /\ k = a + (k - a - 1) + 1
    BY <1>1
  <2> HIDE DEF T, W, a, U
  <2>5. \A k \in a + 1 .. a + U : \E i \in 0 .. U - 1 : k = a + i + 1
    BY <2>4
  <2>6. \A k \in Coalescers(ports) : \E i \in 0 .. U - 1 : T(k) = W(i)
    BY <2>2, <2>3, <2>5
  <2>7. \A i \in 0 .. U - 1 : \E k \in Coalescers(ports) : T(k) = W(i)
    BY <2>2, <2>3
  <2> QED
    BY <2>1, <2>6, <2>7
<1>9. CASE U = 0
  <2>1. 0 .. U - 1 = {}
    BY <1>9
  <2>2. GpuLinks(o, ports) = {}
    BY <1>8, <2>1 DEF GpuLinks
  <2> QED
    BY <2>1, <2>2 DEF UnitLinked
<1>10. CASE U # 0
  <2>1. /\ GpuPortIdx(o, ports) = GpuIdx(o) /\ SqcPortIdx(o, ports) = SqcIdx(o)
        /\ ScalarPortIdx(o, ports) = ScalarIdx(o)
    BY <1>10, GpuIndices
  <2>2. GpuLinks(o, ports) = TokenLinks(ports) \cup {V(i) : i \in 0 .. U - 1}
                             \cup {Q(i) : i \in 0 .. U - 1} \cup {S(i) : i \in 0 .. U - 1}
    BY <1>7, <2>1 DEF GpuLinks
  <2>3. \A i \in 0 .. U - 1 : /\ V(i) \in GpuLinks(o, ports) /\ W(i) \in GpuLinks(o, ports)
                              /\ Q(i) \in GpuLinks(o, ports) /\ S(i) \in GpuLinks(o, ports)
    BY <1>8, <2>2
  <2>4. \A i : /\ V(i).user = "cu" /\ V(i).n = i /\ V(i).side = "vector"
               /\ W(i).user = "cu" /\ W(i).n = i /\ W(i).side = "token"
               /\ Q(i).user = "cu" /\ Q(i).n = i /\ Q(i).side = "sqc"
               /\ S(i).user = "cu" /\ S(i).n = i /\ S(i).side = "scalar"
    BY LinkFields
  <2> HIDE DEF V, W, Q, S
  <2>5. \A l \in GpuLinks(o, ports) : UnitLink(o, l)
    BY <1>5, <1>6, <1>8, <2>2
  <2>6. UnitLinked(o, GpuLinks(o, ports))
    BY <2>3, <2>4 DEF UnitLinked
  <2> QED
    BY <2>5, <2>6
<1> QED
  BY <1>9, <1>10

\* The controllers of a GPU's system, by their sequencers.
GpuServers(o) ==
  /\ \A x \in 0 .. GpuIdx(o) - 1 : \E c \in Range(cntrls) : x \in Range(c.seqs) /\ c.clock = None
  /\ \A i \in 0 .. o.num_compute_units - 1 : \E c \in Range(cntrls) :
       c.type = "TCP" /\ Range(c.seqs) = {FirstTCP(o) + i * 2, FirstTCP(o) + i * 2 + 1}
  /\ \A i \in 0 .. o.num_sqc - 1 : \E c \in Range(cntrls) :
       c.type = "SQC" /\ Range(c.seqs) = {FirstSQC(o) + i}
  /\ \A i \in 0 .. o.num_scalar_cache - 1 : \E c \in Range(cntrls) :
       c.type = "SQC" /\ Range(c.seqs) = {FirstScalar(o) + i}
  /\ \A i \in 0 .. o.num_cp - 1 :
       /\ \E c \in Range(cntrls) : FirstCP(o) + 3 * i + 1 \in Range(c.seqs)
       /\ \E c \in Range(cntrls) : FirstCP(o) + 3 * i + 2 \in Range(c.seqs)

\* A part's controllers by their places.
Selected(b, m, u, q, w) ==
  \A i \in 0 .. m - 1 :
    /\ b[i + 1] \in Range(b) /\ b[i + 1].type = u /\ b[i + 1].clock = None
    /\ Range(b[i + 1].seqs) = q + i * w .. q + i * w + w - 1

LEMMA PlacesSelecting ==
  ASSUME NEW b, NEW m \in Nat, NEW u, NEW v, NEW q, NEW w, NEW bits,
         Selecting(b, m, u, v, q, w, bits)
  PROVE  Selected(b, m, u, q, w)
<1> USE DEF Selected
<1> TAKE i \in 0 .. m - 1
<1>1. i + 1 \in 1 .. m /\ (i + 1) - 1 = i
  OBVIOUS
<1>2. b[i + 1] \in Range(b)
  BY <1>1, SequenceFacts DEF Selecting, Block
<1> QED
  BY <1>1, <1>2 DEF Selecting, Block

LEMMA GpuServersOK ==
  ASSUME NEW o, GpuMade(o)
  PROVE  GpuServers(o)
<1> USE DEF GpuMade
<1> DEFINE P == CorePairs(o)
<1>1. /\ P \in Nat /\ GpuIdx(o) = P * 2 /\ o.num_compute_units \in Nat /\ o.num_sqc \in Nat
      /\ o.num_scalar_cache \in Nat /\ o.num_cp \in Nat
      /\ FirstTCP(o) \in Nat /\ FirstSQC(o) \in Nat /\ FirstScalar(o) \in Nat /\ FirstCP(o) \in Nat
  BY ViperNumbersOK DEF ViperNumbers, GpuIdx
<1>2. \A c \in Range(MyPairs(o)) \cup Range(MyTCPs(o)) \cup Range(MySQCs(o))
               \cup Range(MyScalars(o)) \cup Range(MyCmdprocs(o)) : c \in Range(cntrls)
  BY DEF ViperSystemMade
<1>3. /\ Selecting(MyPairs(o), P, "CorePair", 0, 0, 2, None)
      /\ Selecting(MyTCPs(o), o.num_compute_units, "TCP", 0, FirstTCP(o), 2, Bits(o))
      /\ Selecting(MySQCs(o), o.num_sqc, "SQC", 0, FirstSQC(o), 1, Bits(o))
      /\ Selecting(MyScalars(o), o.num_scalar_cache, "SQC", o.num_sqc, FirstScalar(o), 1, Bits(o))
      /\ CommandPart(MyCmdprocs(o), o.num_cp, o.num_compute_units,
                     o.num_sqc + o.num_scalar_cache, FirstCP(o), Bits(o))
  BY DEF ViperParts
<1>9. /\ Selected(MyPairs(o), P, "CorePair", 0, 2)
      /\ Selected(MyTCPs(o), o.num_compute_units, "TCP", FirstTCP(o), 2)
      /\ Selected(MySQCs(o), o.num_sqc, "SQC", FirstSQC(o), 1)
      /\ Selected(MyScalars(o), o.num_scalar_cache, "SQC", FirstScalar(o), 1)
  BY <1>1, <1>3, PlacesSelecting
<1> HIDE DEF GpuMade, P
<1>4. \A x \in 0 .. GpuIdx(o) - 1 : \E c \in Range(cntrls) : x \in Range(c.seqs) /\ c.clock = None
  <2> TAKE x \in 0 .. GpuIdx(o) - 1
  <2> DEFINE i == x \div 2
             c == MyPairs(o)[i + 1]
  <2>1. i \in 0 .. P - 1 /\ x \in 0 + i * 2 .. 0 + i * 2 + 2 - 1
    BY <1>1
  <2> HIDE DEF i
  <2>2. c \in Range(MyPairs(o)) /\ c.clock = None
        /\ Range(c.seqs) = 0 + i * 2 .. 0 + i * 2 + 2 - 1
    BY <1>9, <2>1 DEF Selected
  <2> QED
    BY <1>2, <2>1, <2>2
<1>5. ASSUME NEW i \in 0 .. o.num_compute_units - 1
      PROVE  \E c \in Range(cntrls) :
               c.type = "TCP" /\ Range(c.seqs) = {FirstTCP(o) + i * 2, FirstTCP(o) + i * 2 + 1}
  <2> DEFINE c == MyTCPs(o)[i + 1]
             f == FirstTCP(o) + i * 2
  <2>1. c \in Range(MyTCPs(o)) /\ c.type = "TCP" /\ Range(c.seqs) = f .. f + 2 - 1
    BY <1>9 DEF Selected
  <2>2. f \in Nat
    BY <1>1
  <2> HIDE DEF f
  <2>3. f .. f + 2 - 1 = {f, f + 1}
    BY <2>2
  <2> QED
    BY <1>2, <2>1, <2>3 DEF f
<1>6. ASSUME NEW i \in 0 .. o.num_sqc - 1
      PROVE  \E c \in Range(cntrls) : c.type = "SQC" /\ Range(c.seqs) = {FirstSQC(o) + i}
  <2> DEFINE c == MySQCs(o)[i + 1]
  <2>1. /\ c \in Range(MySQCs(o)) /\ c.type = "SQC"
        /\ Range(c.seqs) = FirstSQC(o) + i * 1 .. FirstSQC(o) + i * 1 + 1 - 1
    BY <1>9 DEF Selected
  <2>2. FirstSQC(o) + i * 1 .. FirstSQC(o) + i * 1 + 1 - 1 = {FirstSQC(o) + i}
    BY <1>1
  <2> QED
    BY <1>2, <2>1, <2>2
<1>7. ASSUME NEW i \in 0 .. o.num_scalar_cache - 1
      PROVE  \E c \in Range(cntrls) : c.type = "SQC" /\ Range(c.seqs) = {FirstScalar(o) + i}
  <2> DEFINE c == MyScalars(o)[i + 1]
  <2>1. /\ c \in Range(MyScalars(o)) /\ c.type = "SQC"
        /\ Range(c.seqs) = FirstScalar(o) + i * 1 .. FirstScalar(o) + i * 1 + 1 - 1
    BY <1>9 DEF Selected
  <2>2. FirstScalar(o) + i * 1 .. FirstScalar(o) + i * 1 + 1 - 1 = {FirstScalar(o) + i}
    BY <1>1
  <2> QED
    BY <1>2, <2>1, <2>2
<1>8. ASSUME NEW i \in 0 .. o.num_cp - 1
      PROVE  /\ \E c \in Range(cntrls) : FirstCP(o) + 3 * i + 1 \in Range(c.seqs)
             /\ \E c \in Range(cntrls) : FirstCP(o) + 3 * i + 2 \in Range(c.seqs)
  <2> DEFINE b == MyCmdprocs(o)
  <2>1. /\ \E v : CommandTCP(b[i * 2 + 1], v, FirstCP(o) + 3 * i, Bits(o))
        /\ \E v : CommandSQC(b[i * 2 + 2], v, FirstCP(o) + 3 * i + 2, Bits(o))
        /\ Sequence(b) /\ Len(b) = o.num_cp * 2
    BY <1>3 DEF CommandPart
  <2>2. i * 2 + 1 \in 1 .. o.num_cp * 2 /\ i * 2 + 2 \in 1 .. o.num_cp * 2
    BY <1>1
  <2>3. b[i * 2 + 1] \in Range(b) /\ b[i * 2 + 2] \in Range(b)
    BY <2>1, <2>2, SequenceFacts
  <2>4. FirstCP(o) + 3 * i + 1 \in Range(b[i * 2 + 1].seqs)
        /\ FirstCP(o) + 3 * i + 2 \in Range(b[i * 2 + 2].seqs)
    BY <2>1 DEF CommandTCP, CommandSQC
  <2> HIDE DEF b
  <2> QED
    BY <1>2, <2>3, <2>4 DEF b
<1> QED
  BY <1>4, <1>5, <1>6, <1>7, <1>8 DEF GpuServers

\* The servers of one side of a unit.
LEMMA ServersOfSide ==
  ASSUME NEW user, NEW n, NEW side, NEW x,
         \A l \in links : l.user = user /\ l.n = n /\ l.side = side => l.seq = x,
         \E l \in links : l.user = user /\ l.n = n /\ l.side = side
  PROVE  ServersOf(user, n, side) = Servers(x)
<1> DEFINE S == {m \in LinksOf(user, n) : m.side = side}
<1>1. S # {} /\ \A l \in S : l.seq = x
  BY DEF LinksOf
<1>2. ServersOf(user, n, side) = UNION {Servers(l.seq) : l \in S}
  BY DEF ServersOf
<1> HIDE DEF S
<1>3. {Servers(l.seq) : l \in S} = {Servers(x)}
  BY <1>1
<1> QED
  BY <1>2, <1>3

\* A link's requests go to a controller of its side's type; a CPU's to one that
\* has no clock of its own.
GpuSides == {"vector", "token", "sqc", "scalar"}
Served(l) ==
  \E c \in Range(cntrls) :
    /\ l.seq \in Range(c.seqs)
    /\ l.side \in GpuSides => c.type = SideType(l.side)
    /\ l.user = "cpu" => c.clock = None

LEMMA LinkServed ==
  ASSUME NEW o, GpuMade(o), o.script \in {"apu_se", "runfs"},
         NEW l, CpuLink(o, l) \/ UnitLink(o, l) \/ CpLink(o, l)
  PROVE  Served(l)
<1>1. GpuServers(o)
  BY GpuServersOK
<1>2. /\ o.num_cpus \in Nat /\ o.num_compute_units \in Nat /\ o.num_cp \in Nat
      /\ o.cu_per_sqc \in Nat \ {0} /\ o.cu_per_scalar_cache \in Nat \ {0}
      /\ o.num_cpus <= GpuIdx(o) /\ GpuIdx(o) \in Nat
  BY GpuNumbers
<1>3. CASE CpuLink(o, l)
  <2>1. l.seq \in 0 .. GpuIdx(o) - 1 /\ l.side \notin GpuSides
    BY <1>2, <1>3 DEF CpuLink, GpuSides
  <2>2. PICK c \in Range(cntrls) : l.seq \in Range(c.seqs) /\ c.clock = None
    BY <1>1, <2>1 DEF GpuServers
  <2> QED
    BY <2>1, <2>2 DEF Served
<1>4. CASE UnitLink(o, l)
  <2>1. l.user = "cu" /\ l.n \in 0 .. o.num_compute_units - 1
    BY <1>4 DEF UnitLink
  <2>2. CASE l.side \in {"vector", "token"} /\ l.seq = FirstTCP(o) + l.n * 2
    <3>1. PICK c \in Range(cntrls) : c.type = "TCP" /\ l.seq \in Range(c.seqs)
      BY <1>1, <2>1, <2>2 DEF GpuServers
    <3> QED
      BY <2>1, <2>2, <3>1 DEF Served, SideType
  <2>3. CASE l.side = "sqc" /\ l.seq = FirstSQC(o) + l.n \div o.cu_per_sqc
    <3>1. o.num_sqc = CeilDiv(o.num_compute_units, o.cu_per_sqc)
      BY DEF GpuMade, Prepared
    <3>2. l.n \div o.cu_per_sqc \in 0 .. o.num_sqc - 1
      BY <1>2, <2>1, <3>1, Grouped
    <3>3. PICK c \in Range(cntrls) : c.type = "SQC" /\ l.seq \in Range(c.seqs)
      BY <1>1, <2>3, <3>2 DEF GpuServers
    <3> QED
      BY <2>1, <2>3, <3>3 DEF Served, SideType
  <2>4. CASE l.side = "scalar" /\ l.seq = FirstScalar(o) + l.n \div o.cu_per_scalar_cache
    <3>1. o.num_scalar_cache = CeilDiv(o.num_compute_units, o.cu_per_scalar_cache)
      BY DEF GpuMade, Prepared
    <3>2. l.n \div o.cu_per_scalar_cache \in 0 .. o.num_scalar_cache - 1
      BY <1>2, <2>1, <3>1, Grouped
    <3>3. PICK c \in Range(cntrls) : c.type = "SQC" /\ l.seq \in Range(c.seqs)
      BY <1>1, <2>4, <3>2 DEF GpuServers
    <3> QED
      BY <2>1, <2>4, <3>3 DEF Served, SideType
  <2> QED
    BY <1>4, <2>2, <2>3, <2>4 DEF UnitLink
<1>5. CASE CpLink(o, l)
  <2>1. /\ l.user = "cp" /\ l.side \notin GpuSides /\ l.n \in 0 .. o.num_cp - 1
        /\ l.seq \in {FirstCP(o) + 3 * l.n + 1, FirstCP(o) + 3 * l.n + 2}
    BY <1>5 DEF CpLink, GpuSides
  <2>2. PICK c \in Range(cntrls) : l.seq \in Range(c.seqs)
    BY <1>1, <2>1 DEF GpuServers
  <2> QED
    BY <2>1, <2>2 DEF Served
<1> QED
  BY <1>3, <1>4, <1>5

LEMMA ServedLinks ==
  ASSUME Made(cntrls), \A l \in links : Served(l)
  PROVE  /\ \A l \in links : Cardinality(Servers(l.seq)) = 1
         /\ \A l \in links : l.side \in GpuSides =>
              \A c \in Servers(l.seq) : c.type = SideType(l.side)
         /\ \A l \in links : l.user \in {"cpu", "cp"} => \A c \in Servers(l.seq) : OwnClock(l, c)
<1>1. SUFFICES ASSUME NEW l \in links
               PROVE  /\ Cardinality(Servers(l.seq)) = 1
                      /\ l.side \in GpuSides => \A c \in Servers(l.seq) : c.type = SideType(l.side)
                      /\ l.user \in {"cpu", "cp"} => \A c \in Servers(l.seq) : OwnClock(l, c)
  OBVIOUS
<1>2. PICK c \in Range(cntrls) :
        /\ l.seq \in Range(c.seqs)
        /\ l.side \in GpuSides => c.type = SideType(l.side)
        /\ l.user = "cpu" => c.clock = None
  BY DEF Served
<1>3. Servers(l.seq) = {c} /\ Cardinality(Servers(l.seq)) = 1
  BY <1>2, OwnServer
<1>4. OwnClock(l, c)
  BY <1>2 DEF OwnClock
<1> QED
  BY <1>2, <1>3, <1>4

\* No sequencer is two users'.
\* The sequencers of the units lie between those of the core pairs and those of
\* the command processors.
LEMMA UnitSequencers ==
  ASSUME NEW o, GpuMade(o), o.script \in {"apu_se", "runfs"}, NEW x, UnitLink(o, x)
  PROVE  x.seq \in Nat /\ FirstTCP(o) <= x.seq /\ x.seq < FirstCP(o)
<1>1. /\ o.num_compute_units \in Nat
      /\ o.num_sqc \in Nat /\ o.num_scalar_cache \in Nat
      /\ o.cu_per_sqc \in Nat \ {0} /\ o.cu_per_scalar_cache \in Nat \ {0}
      /\ FirstTCP(o) \in Nat
      /\ FirstSQC(o) = FirstTCP(o) + o.num_compute_units * 2
      /\ FirstScalar(o) = FirstSQC(o) + o.num_sqc
      /\ FirstCP(o) = FirstScalar(o) + o.num_scalar_cache
  BY GpuNumbers
<1>2. x.n \in 0 .. o.num_compute_units - 1
  BY DEF UnitLink
<1>3. CASE x.seq = FirstTCP(o) + x.n * 2
  BY <1>1, <1>2, <1>3
<1>4. CASE x.seq = FirstSQC(o) + x.n \div o.cu_per_sqc
  <2>1. o.num_sqc = CeilDiv(o.num_compute_units, o.cu_per_sqc)
    BY DEF GpuMade, Prepared
  <2>2. x.n \div o.cu_per_sqc \in 0 .. o.num_sqc - 1
    BY <1>1, <1>2, <2>1, Grouped
  <2> QED
    BY <1>1, <1>4, <2>2
<1>5. CASE x.seq = FirstScalar(o) + x.n \div o.cu_per_scalar_cache
  <2>1. o.num_scalar_cache = CeilDiv(o.num_compute_units, o.cu_per_scalar_cache)
    BY DEF GpuMade, Prepared
  <2>2. x.n \div o.cu_per_scalar_cache \in 0 .. o.num_scalar_cache - 1
    BY <1>1, <1>2, <2>1, Grouped
  <2> QED
    BY <1>1, <1>5, <2>2
<1> QED
  BY <1>3, <1>4, <1>5 DEF UnitLink

LEMMA CommandsApart ==
  ASSUME NEW o, GpuMade(o), NEW l, NEW m, CpuLink(o, l) \/ CpLink(o, l), m.seq = l.seq,
         CpuLink(o, m) \/ UnitLink(o, m) \/ CpLink(o, m), o.script \in {"apu_se", "runfs"}
  PROVE  m.user = l.user /\ m.n = l.n
<1>1. /\ o.num_cpus \in Nat /\ o.num_compute_units \in Nat /\ o.num_cp \in Nat
      /\ o.num_sqc \in Nat /\ o.num_scalar_cache \in Nat
      /\ o.cu_per_sqc \in Nat \ {0} /\ o.cu_per_scalar_cache \in Nat \ {0}
      /\ o.num_cpus <= FirstTCP(o) /\ FirstTCP(o) \in Nat
      /\ FirstSQC(o) = FirstTCP(o) + o.num_compute_units * 2
      /\ FirstScalar(o) = FirstSQC(o) + o.num_sqc
      /\ FirstCP(o) = FirstScalar(o) + o.num_scalar_cache
  BY GpuNumbers
<1> DEFINE OfMain(x) == CpuLink(o, x) /\ x.user = "cpu" /\ x.seq = x.n /\ x.n \in Nat /\ x.seq < FirstTCP(o)
           OfUnit(x) == x.seq \in Nat /\ FirstTCP(o) <= x.seq /\ x.seq < FirstCP(o)
           OfCp(x) == /\ x.user = "cp" /\ x.n \in Nat /\ FirstCP(o) < x.seq /\ x.seq \in Nat
                      /\ x.seq = FirstCP(o) + 3 * x.n + 1 \/ x.seq = FirstCP(o) + 3 * x.n + 2
<1>2. \A x : CpuLink(o, x) => OfMain(x)
  BY <1>1 DEF CpuLink
<1>3. \A x : CpLink(o, x) => OfCp(x)
  BY <1>1 DEF CpLink
<1>4. \A x : UnitLink(o, x) => OfUnit(x)
  BY UnitSequencers
<1>5. FirstCP(o) \in Nat /\ FirstTCP(o) <= FirstCP(o)
  BY <1>1
<1> HIDE DEF OfMain, OfUnit, OfCp
<1>6. (OfMain(l) \/ OfCp(l)) /\ (OfMain(m) \/ OfUnit(m) \/ OfCp(m))
  BY <1>2, <1>3, <1>4
<1>7. CASE OfMain(l)
  <2>1. ~OfUnit(m) /\ ~OfCp(m)
    BY <1>1, <1>5, <1>7 DEF OfMain, OfUnit, OfCp
  <2> QED
    BY <1>6, <1>7, <2>1 DEF OfMain
<1>8. CASE OfCp(l)
  <2>1. ~OfUnit(m) /\ ~OfMain(m)
    BY <1>1, <1>5, <1>8 DEF OfMain, OfUnit, OfCp
  <2>2. OfCp(m)
    BY <1>6, <2>1
  <2> DEFINE f == FirstCP(o)
             i == l.n
             j == m.n
             x == l.seq
  <2>3. /\ f \in Nat /\ i \in Nat /\ j \in Nat
        /\ x = f + 3 * i + 1 \/ x = f + 3 * i + 2
        /\ x = f + 3 * j + 1 \/ x = f + 3 * j + 2
    BY <1>5, <1>8, <2>2 DEF OfCp
  <2> HIDE DEF f, i, j, x
  <2>4. i = j
    BY <2>3
  <2> QED
    BY <1>8, <2>2, <2>4 DEF OfCp, i, j
<1> QED
  BY <1>6, <1>7, <1>8

LEMMA SameServers ==
  ASSUME Made(cntrls), NEW c \in Range(cntrls), NEW x \in Range(c.seqs), NEW y,
         Servers(x) = Servers(y)
  PROVE  y \in Range(c.seqs)
<1>1. c \in Servers(x)
  BY DEF Servers
<1> QED
  BY <1>1 DEF Servers

\* The sequencers a unit of the GPU is connected to.
UnitSeqs(o) ==
  \A i \in 0 .. o.num_compute_units - 1 :
    /\ ServersOf("cu", i, "vector") = Servers(FirstTCP(o) + i * 2)
    /\ ServersOf("cu", i, "token") = Servers(FirstTCP(o) + i * 2)
    /\ ServersOf("cu", i, "sqc") = Servers(FirstSQC(o) + i \div o.cu_per_sqc)
    /\ ServersOf("cu", i, "scalar") = Servers(FirstScalar(o) + i \div o.cu_per_scalar_cache)

LEMMA UnitSides ==
  ASSUME NEW o, \A l \in links : CpuLink(o, l) \/ UnitLink(o, l) \/ CpLink(o, l),
         UnitLinked(o, links)
  PROVE  UnitSeqs(o)
<1>1. \A l \in links : l.user = "cu" =>
        /\ l.side \in {"vector", "token"} => l.seq = FirstTCP(o) + l.n * 2
        /\ l.side = "sqc" => l.seq = FirstSQC(o) + l.n \div o.cu_per_sqc
        /\ l.side = "scalar" => l.seq = FirstScalar(o) + l.n \div o.cu_per_scalar_cache
  BY DEF CpuLink, UnitLink, CpLink
<1> SUFFICES ASSUME NEW i \in 0 .. o.num_compute_units - 1
             PROVE  /\ ServersOf("cu", i, "vector") = Servers(FirstTCP(o) + i * 2)
                    /\ ServersOf("cu", i, "token") = Servers(FirstTCP(o) + i * 2)
                    /\ ServersOf("cu", i, "sqc") = Servers(FirstSQC(o) + i \div o.cu_per_sqc)
                    /\ ServersOf("cu", i, "scalar")
                         = Servers(FirstScalar(o) + i \div o.cu_per_scalar_cache)
  BY DEF UnitSeqs
<1>2. \A side \in {"vector", "token", "sqc", "scalar"} :
        \E l \in links : l.user = "cu" /\ l.n = i /\ l.side = side
  BY DEF UnitLinked
<1> DEFINE t == FirstTCP(o) + i * 2
           q == FirstSQC(o) + i \div o.cu_per_sqc
           s == FirstScalar(o) + i \div o.cu_per_scalar_cache
<1>3. \A l \in links : l.user = "cu" /\ l.n = i =>
        /\ l.side \in {"vector", "token"} => l.seq = t
        /\ l.side = "sqc" => l.seq = q
        /\ l.side = "scalar" => l.seq = s
  BY <1>1
<1> HIDE DEF t, q, s
<1>4. ServersOf("cu", i, "vector") = Servers(t)
  BY <1>2, <1>3, ServersOfSide
<1>5. ServersOf("cu", i, "token") = Servers(t)
  BY <1>2, <1>3, ServersOfSide
<1>6. ServersOf("cu", i, "sqc") = Servers(q)
  BY <1>2, <1>3, ServersOfSide
<1>7. ServersOf("cu", i, "scalar") = Servers(s)
  BY <1>2, <1>3, ServersOfSide
<1> QED
  BY <1>4, <1>5, <1>6, <1>7 DEF t, q, s

LEMMA UnitsServedApart ==
  ASSUME NEW o, GpuMade(o), o.script \in {"apu_se", "runfs"}, UnitSeqs(o),
         NEW i \in 0 .. o.num_compute_units - 1, NEW j \in 0 .. o.num_compute_units - 1
  PROVE  /\ ServersOf("cu", i, "vector") = ServersOf("cu", i, "token")
         /\ i # j => ServersOf("cu", i, "vector") # ServersOf("cu", j, "vector")
         /\ ServersOf("cu", i, "sqc") = ServersOf("cu", j, "sqc")
              <=> i \div o.cu_per_sqc = j \div o.cu_per_sqc
         /\ ServersOf("cu", i, "scalar") = ServersOf("cu", j, "scalar")
              <=> i \div o.cu_per_scalar_cache = j \div o.cu_per_scalar_cache
         /\ ServersOf("cu", i, "sqc") # ServersOf("cu", j, "scalar")
<1>1. /\ o.num_compute_units \in Nat /\ o.num_sqc \in Nat /\ o.num_scalar_cache \in Nat
      /\ o.cu_per_sqc \in Nat \ {0} /\ o.cu_per_scalar_cache \in Nat \ {0}
      /\ FirstTCP(o) \in Nat
      /\ FirstSQC(o) = FirstTCP(o) + o.num_compute_units * 2
      /\ FirstScalar(o) = FirstSQC(o) + o.num_sqc
  BY GpuNumbers
<1>2. /\ o.num_sqc = CeilDiv(o.num_compute_units, o.cu_per_sqc)
      /\ o.num_scalar_cache = CeilDiv(o.num_compute_units, o.cu_per_scalar_cache)
      /\ Made(cntrls)
  BY DEF GpuMade, Prepared
<1> DEFINE a == i \div o.cu_per_sqc
           b == j \div o.cu_per_sqc
           u == i \div o.cu_per_scalar_cache
           v == j \div o.cu_per_scalar_cache
           F == FirstTCP(o)
           Q == FirstSQC(o)
           S == FirstScalar(o)
<1>3. a \in 0 .. o.num_sqc - 1 /\ b \in 0 .. o.num_sqc - 1
  BY <1>1, <1>2, Grouped
<1>4. u \in 0 .. o.num_scalar_cache - 1 /\ v \in 0 .. o.num_scalar_cache - 1
  BY <1>1, <1>2, Grouped
<1>5. /\ ServersOf("cu", i, "vector") = Servers(F + i * 2)
      /\ ServersOf("cu", i, "token") = Servers(F + i * 2)
      /\ ServersOf("cu", j, "vector") = Servers(F + j * 2)
      /\ ServersOf("cu", i, "sqc") = Servers(Q + a)
      /\ ServersOf("cu", j, "sqc") = Servers(Q + b)
      /\ ServersOf("cu", i, "scalar") = Servers(S + u)
      /\ ServersOf("cu", j, "scalar") = Servers(S + v)
  BY DEF UnitSeqs
<1> HIDE DEF a, b, u, v, F, Q, S
<1>a. GpuServers(o)
  BY GpuServersOK
<1>b. /\ \E t \in Range(cntrls) : Range(t.seqs) = {FirstTCP(o) + i * 2, FirstTCP(o) + i * 2 + 1}
      /\ \E c \in Range(cntrls) : Range(c.seqs) = {FirstSQC(o) + a}
      /\ \E d \in Range(cntrls) : Range(d.seqs) = {FirstScalar(o) + u}
  BY <1>3, <1>4, <1>a DEF GpuServers
<1>6. PICK t \in Range(cntrls) : Range(t.seqs) = {F + i * 2, F + i * 2 + 1}
  BY <1>b DEF F
<1>7. PICK c \in Range(cntrls) : Range(c.seqs) = {Q + a}
  BY <1>b DEF Q
<1>8. PICK d \in Range(cntrls) : Range(d.seqs) = {S + u}
  BY <1>b DEF S
<1>9. ASSUME i # j, Servers(F + i * 2) = Servers(F + j * 2) PROVE FALSE
  <2>1. F + j * 2 \in {F + i * 2, F + i * 2 + 1}
    BY <1>2, <1>6, <1>9, SameServers
  <2> QED
    BY <1>1, <1>9, <2>1 DEF F
<1>10. ASSUME Servers(Q + a) = Servers(Q + b) PROVE a = b
  <2>1. Q + b = Q + a
    BY <1>2, <1>7, <1>10, SameServers
  <2> QED
    BY <1>1, <1>3, <2>1 DEF Q
<1>11. ASSUME Servers(S + u) = Servers(S + v) PROVE u = v
  <2>1. S + v = S + u
    BY <1>2, <1>8, <1>11, SameServers
  <2> QED
    BY <1>1, <1>4, <2>1 DEF S
<1>12. ASSUME Servers(Q + a) = Servers(S + v) PROVE FALSE
  <2>1. S + v = Q + a
    BY <1>2, <1>7, <1>12, SameServers
  <2> QED
    BY <1>1, <1>3, <1>4, <2>1 DEF S, Q
<1> QED
  BY <1>5, <1>9, <1>10, <1>11, <1>12 DEF a, b, u, v

\* The GPU's tester takes the ports in their order.
\* The sequencers whose controllers have message buffers: all but those of the
\* command processors' instructions.
Buffered(o, x) ==
  /\ x \in Nat
  /\ x < FirstCP(o) \/ \E i \in 0 .. o.num_cp - 1 : x = FirstCP(o) + 3 * i + 1

LEMMA UnbufferedSequencers ==
  ASSUME NEW o, GpuMade(o), NEW c \in WithoutBuffers(o)
  PROVE  \E i \in 0 .. o.num_cp - 1 : Range(c.seqs) = {FirstCP(o) + 3 * i + 2}
<1> DEFINE b == MyCmdprocs(o)
           n == o.num_cp
<1>1. CommandPart(b, n, o.num_compute_units, o.num_sqc + o.num_scalar_cache, FirstCP(o), Bits(o))
  BY DEF GpuMade, ViperParts
<1>2. o.protocol = "GPU_VIPER"
  BY DEF GpuMade, Typed
<1>3. c \in Range(b) /\ c.type = "SQC"
  BY <1>2 DEF WithoutBuffers, Unbuffered, MyCmdprocs
<1> HIDE DEF b, n
<1>4. PICK k \in DOMAIN b : c = b[k]
  BY <1>3 DEF Range
<1>5. n * 2 \in Nat
  BY GpuNumbers DEF n
<1>6. k \in 1 .. n * 2
  BY <1>1, <1>4, <1>5 DEF CommandPart, Sequence
<1>7. PICK i \in 0 .. n - 1 : k = i * 2 + 1 \/ k = i * 2 + 2
  BY <1>1, <1>6 DEF CommandPart
<1>8. b[i * 2 + 1].type = "TCP" /\ Range(b[i * 2 + 2].seqs) = {FirstCP(o) + 3 * i + 2}
  BY <1>1 DEF CommandPart, CommandTCP, CommandSQC
<1>9. c = b[i * 2 + 2]
  BY <1>3, <1>4, <1>7, <1>8
<1> QED
  BY <1>8, <1>9 DEF n

LEMMA BehindBuffers ==
  ASSUME NEW o, GpuMade(o), NEW x, Buffered(o, x)
  PROVE  Servers(x) \cap WithoutBuffers(o) = {}
<1>1. FirstCP(o) \in Nat /\ o.num_cp \in Nat
  BY GpuNumbers
<1>2. SUFFICES ASSUME NEW c \in WithoutBuffers(o), x \in Range(c.seqs) PROVE FALSE
  BY DEF Servers
<1>3. PICK i \in 0 .. o.num_cp - 1 : Range(c.seqs) = {FirstCP(o) + 3 * i + 2}
  BY UnbufferedSequencers
<1>4. x = FirstCP(o) + 3 * i + 2
  BY <1>2, <1>3
<1>5. CASE x < FirstCP(o)
  BY <1>1, <1>4, <1>5
<1>6. CASE \E j \in 0 .. o.num_cp - 1 : x = FirstCP(o) + 3 * j + 1
  <2>1. PICK j \in 0 .. o.num_cp - 1 : x = FirstCP(o) + 3 * j + 1
    BY <1>6
  <2> QED
    BY <1>1, <1>4, <2>1
<1> QED
  BY <1>5, <1>6 DEF Buffered

LEMMA LinkBuffered ==
  ASSUME NEW o, GpuMade(o), o.script \in {"apu_se", "runfs"}, NEW l,
         CpuLink(o, l) \/ UnitLink(o, l) \/ CpLink(o, l)
  PROVE  CommandInstructions(l) \/ Buffered(o, l.seq)
<1>1. /\ o.num_cpus \in Nat /\ o.num_compute_units \in Nat /\ o.num_cp \in Nat
      /\ o.num_sqc \in Nat /\ o.num_scalar_cache \in Nat
      /\ o.cu_per_sqc \in Nat \ {0} /\ o.cu_per_scalar_cache \in Nat \ {0}
      /\ o.num_cpus <= FirstTCP(o) /\ FirstTCP(o) \in Nat
      /\ FirstSQC(o) = FirstTCP(o) + o.num_compute_units * 2
      /\ FirstScalar(o) = FirstSQC(o) + o.num_sqc
      /\ FirstCP(o) = FirstScalar(o) + o.num_scalar_cache
  BY GpuNumbers
<1>2. CASE CpuLink(o, l)
  <2>1. l.n \in 0 .. o.num_cpus - 1 /\ l.seq = l.n
    BY <1>2 DEF CpuLink
  <2>2. FirstTCP(o) <= FirstCP(o) /\ FirstCP(o) \in Nat
    BY <1>1
  <2>3. l.seq \in Nat /\ l.seq < FirstCP(o)
    BY <1>1, <2>1, <2>2
  <2> QED
    BY <2>3 DEF Buffered
<1>3. CASE UnitLink(o, l)
  BY <1>3, UnitSequencers DEF Buffered
<1>4. CASE CpLink(o, l)
  <2>1. CASE l.side = "inst"
    BY <1>4, <2>1 DEF CpLink, CommandInstructions
  <2>2. CASE l.side = "data"
    <3>1. l.n \in 0 .. o.num_cp - 1 /\ l.seq = FirstCP(o) + 3 * l.n + 1
      BY <1>4, <2>2 DEF CpLink
    <3>2. FirstCP(o) \in Nat
      BY <1>1
    <3>3. l.seq \in Nat
      BY <3>1, <3>2
    <3> QED
      BY <3>1, <3>3 DEF Buffered
  <2> QED
    BY <1>4, <2>1, <2>2 DEF CpLink
<1> QED
  BY <1>2, <1>3, <1>4

LEMMA TesterServed ==
  ASSUME NEW o, GpuMade(o), o.script = "ruby_gpu_random_test", NEW l \in GpuTesterLinks(o, ports)
  PROVE  l.user = "tester" /\ Served(l) /\ Buffered(o, l.seq)
<1> DEFINE U == o.num_compute_units
           Q == o.num_sqc
           side(k) == IF k <= U THEN "vector" ELSE IF k <= U + Q THEN "sqc" ELSE "scalar"
<1>1. /\ o.num_cpus = 0 /\ o.num_cp = 0 /\ U \in Nat /\ Q \in Nat /\ o.num_scalar_cache \in Nat
  BY GpuNumbers DEF GpuMade, Prepared
<1>2. GpuIdx(o) = 0
  <2>1. CorePairs(o) = 0
    BY <1>1 DEF CorePairs
  <2> QED
    BY <2>1 DEF GpuIdx
<1>3. SqcIdx(o) = U /\ ScalarIdx(o) = U + Q
  BY <1>1, <1>2, GpuNumbers
<1>4. PICK k \in DOMAIN ports : l = Link("tester", 0, side(k), ports[k].data)
  BY DEF GpuTesterLinks
<1>5. l.user = "tester" /\ l.side = side(k) /\ l.seq = ports[k].data
  BY <1>4, LinkFields
<1> HIDE DEF U, Q, side
<1>6. \/ \E i \in 0 .. U - 1 : k = 0 + i + 1
      \/ \E i \in 0 .. Q - 1 : k = U + i + 1
      \/ \E i \in 0 .. o.num_scalar_cache - 1 : k = U + Q + i + 1
  <2>1. 0 .. 0 - 1 = {}
    OBVIOUS
  <2>2. \/ \E i \in 0 .. 0 - 1 : k = i + 1
        \/ \E i \in 0 .. U - 1 : k = 0 + i + 1
        \/ \E i \in 0 .. Q - 1 : k = U + i + 1
        \/ \E i \in 0 .. o.num_scalar_cache - 1 : k = U + Q + i + 1
        \/ \E i \in 0 .. 0 - 1 : k = CpIdx(o) + (2 * i) + 1 \/ k = CpIdx(o) + (2 * i) + 2
    BY <1>1, <1>2, <1>3, PortPlaces DEF U, Q
  <2> QED
    BY <2>1, <2>2
<1>7. PortData(o) /\ GpuServers(o)
  BY PortDataOK, GpuServersOK
<1>11. /\ \A i \in 0 .. U - 1 : FirstTCP(o) + i * 2 \in Nat /\ FirstTCP(o) + i * 2 < FirstCP(o)
       /\ \A i \in 0 .. Q - 1 : FirstSQC(o) + i \in Nat /\ FirstSQC(o) + i < FirstCP(o)
       /\ \A i \in 0 .. o.num_scalar_cache - 1 :
            FirstScalar(o) + i \in Nat /\ FirstScalar(o) + i < FirstCP(o)
  <2>1. /\ FirstTCP(o) \in Nat /\ FirstSQC(o) = FirstTCP(o) + U * 2
        /\ FirstScalar(o) = FirstSQC(o) + Q /\ FirstCP(o) = FirstScalar(o) + o.num_scalar_cache
    BY GpuNumbers DEF U, Q
  <2> QED
    BY <1>1, <2>1
<1>8. CASE \E i \in 0 .. U - 1 : k = 0 + i + 1
  <2>1. PICK i \in 0 .. U - 1 : k = 0 + i + 1
    BY <1>8
  <2>2. ports[k].data = FirstTCP(o) + i * 2
    BY <1>2, <1>7, <2>1 DEF PortData, U
  <2>3. side(k) = "vector"
    BY <1>1, <2>1 DEF side
  <2>4. PICK c \in Range(cntrls) : c.type = "TCP" /\ FirstTCP(o) + i * 2 \in Range(c.seqs)
    BY <1>7 DEF GpuServers, U
  <2>5. FirstTCP(o) + i * 2 \in Nat /\ FirstTCP(o) + i * 2 < FirstCP(o)
    BY <1>11
  <2>6. Buffered(o, l.seq)
    BY <1>5, <2>2, <2>5 DEF Buffered
  <2> QED
    BY <1>5, <2>2, <2>3, <2>4, <2>6 DEF Served, SideType
<1>9. CASE \E i \in 0 .. Q - 1 : k = U + i + 1
  <2>1. PICK i \in 0 .. Q - 1 : k = U + i + 1
    BY <1>9
  <2>2. ports[k].data = FirstSQC(o) + i
    BY <1>3, <1>7, <2>1 DEF PortData, Q
  <2>3. side(k) = "sqc"
    BY <1>1, <2>1 DEF side
  <2>4. PICK c \in Range(cntrls) : c.type = "SQC" /\ FirstSQC(o) + i \in Range(c.seqs)
    BY <1>7 DEF GpuServers, Q
  <2>5. FirstSQC(o) + i \in Nat /\ FirstSQC(o) + i < FirstCP(o)
    BY <1>11
  <2>6. Buffered(o, l.seq)
    BY <1>5, <2>2, <2>5 DEF Buffered
  <2> QED
    BY <1>5, <2>2, <2>3, <2>4, <2>6 DEF Served, SideType
<1>10. CASE \E i \in 0 .. o.num_scalar_cache - 1 : k = U + Q + i + 1
  <2>1. PICK i \in 0 .. o.num_scalar_cache - 1 : k = U + Q + i + 1
    BY <1>10
  <2>2. ports[k].data = FirstScalar(o) + i
    BY <1>3, <1>7, <2>1 DEF PortData
  <2>3. side(k) = "scalar"
    BY <1>1, <2>1 DEF side
  <2>4. PICK c \in Range(cntrls) : c.type = "SQC" /\ FirstScalar(o) + i \in Range(c.seqs)
    BY <1>7 DEF GpuServers
  <2>5. FirstScalar(o) + i \in Nat /\ FirstScalar(o) + i < FirstCP(o)
    BY <1>11
  <2>6. Buffered(o, l.seq)
    BY <1>5, <2>2, <2>5 DEF Buffered
  <2> QED
    BY <1>5, <2>2, <2>3, <2>4, <2>6 DEF Served, SideType
<1> QED
  BY <1>5, <1>6, <1>8, <1>9, <1>10

LEMMA GpuServed ==
  ASSUME GpuMade(opts), links = Connections(opts, ports)
  PROVE  PortsServeTheirUsers
<1> DEFINE o == opts
<1>1. Made(cntrls) /\ o.script \in {"apu_se", "runfs", "ruby_gpu_random_test"}
  BY DEF GpuMade, GpuScripts
<1>2. CASE o.script = "ruby_gpu_random_test"
  <2>1. links = GpuTesterLinks(o, ports)
    BY <1>2 DEF Connections, OneTester
  <2>2. \A l \in links : l.user = "tester" /\ Served(l) /\ Buffered(o, l.seq)
    BY <1>2, <2>1, TesterServed
  <2>3. /\ \A l \in links : Cardinality(Servers(l.seq)) = 1
        /\ \A l \in links : l.side \in GpuSides =>
             \A c \in Servers(l.seq) : c.type = SideType(l.side)
    BY <1>1, <2>2, ServedLinks
  <2>4. CpusApart
    BY <2>2 DEF CpusApart
  <2>5. {l.n : l \in {m \in links : m.user = "cu"}} = {}
    BY <2>2
  <2>6. UnitsApart
    BY <2>5 DEF UnitsApart
  <2>7. \A l \in links : Servers(l.seq) \cap WithoutBuffers(o) = {}
    BY <2>2, BehindBuffers
  <2> QED
    BY <2>3, <2>4, <2>6, <2>7 DEF PortsServeTheirUsers, GpuSides
<1>3. CASE o.script \in {"apu_se", "runfs"}
  <2> DEFINE One(l) == CpuLink(o, l) \/ UnitLink(o, l) \/ CpLink(o, l)
  <2>1. links = CpuLinks(o, ports) \cup GpuLinks(o, ports)
                \cup (IF o.script = "apu_se" THEN CommandLinks(o, ports) ELSE {})
    <3>1. CASE o.script = "apu_se"
      BY <3>1 DEF Connections, OneTester
    <3>2. CASE o.script = "runfs"
      BY <3>2 DEF Connections, OneTester
    <3> QED
      BY <1>3, <3>1, <3>2
  <2>2. /\ \A l \in CpuLinks(o, ports) : CpuLink(o, l)
        /\ \A l \in GpuLinks(o, ports) : UnitLink(o, l)
        /\ UnitLinked(o, GpuLinks(o, ports))
        /\ o.script = "apu_se" => \A l \in CommandLinks(o, ports) : CpLink(o, l)
    BY <1>3, CpuLinksOK, GpuLinksOK, CommandLinksOK
  <2>3. \A l \in links : One(l)
    BY <2>1, <2>2
  <2>4. UnitLinked(o, links)
    BY <2>1, <2>2 DEF UnitLinked
  <2>5. \A l \in links : Served(l)
    BY <1>3, <2>3, LinkServed
  <2>6. /\ \A l \in links : Cardinality(Servers(l.seq)) = 1
        /\ \A l \in links : l.side \in GpuSides =>
             \A c \in Servers(l.seq) : c.type = SideType(l.side)
        /\ \A l \in links : l.user \in {"cpu", "cp"} => \A c \in Servers(l.seq) : OwnClock(l, c)
    BY <1>1, <2>5, ServedLinks
  <2>7. \A l \in links : l.user \in {"cpu", "cp"} =>
          \A m \in links : m.seq = l.seq => m.user = l.user /\ m.n = l.n
    <3> SUFFICES ASSUME NEW l \in links, l.user \in {"cpu", "cp"}, NEW m \in links, m.seq = l.seq
                 PROVE  m.user = l.user /\ m.n = l.n
      OBVIOUS
    <3>1. ~UnitLink(o, l)
      BY DEF UnitLink
    <3>2. CpuLink(o, l) \/ CpLink(o, l)
      BY <2>3, <3>1
    <3>3. CpuLink(o, m) \/ UnitLink(o, m) \/ CpLink(o, m)
      BY <2>3
    <3> QED
      BY <1>3, <3>2, <3>3, CommandsApart
  <2>8. UnitSeqs(o)
    BY <2>3, <2>4, UnitSides
  <2>9. {l.n : l \in {m \in links : m.user = "cu"}} \subseteq 0 .. o.num_compute_units - 1
    <3>1. \A l \in links : l.user = "cu" => l.n \in 0 .. o.num_compute_units - 1
      BY <2>3 DEF CpuLink, UnitLink, CpLink
    <3> QED
      BY <3>1
  <2>10. UnitsApart
    <3> SUFFICES ASSUME NEW i \in {l.n : l \in {m \in links : m.user = "cu"}},
                        NEW j \in {l.n : l \in {m \in links : m.user = "cu"}}
                 PROVE
    /\ ServersOf("cu", i, "vector") = ServersOf("cu", i, "token")
    /\ i # j => ServersOf("cu", i, "vector") # ServersOf("cu", j, "vector")
    /\ ServersOf("cu", i, "sqc") = ServersOf("cu", j, "sqc")
         <=> i \div opts.cu_per_sqc = j \div opts.cu_per_sqc
    /\ ServersOf("cu", i, "scalar") = ServersOf("cu", j, "scalar")
         <=> i \div opts.cu_per_scalar_cache = j \div opts.cu_per_scalar_cache
    /\ ServersOf("cu", i, "sqc") # ServersOf("cu", j, "scalar")
      BY DEF UnitsApart
    <3>1. i \in 0 .. o.num_compute_units - 1 /\ j \in 0 .. o.num_compute_units - 1
      BY <2>9
    <3> QED
      BY <1>3, <2>8, <3>1, UnitsServedApart
  <2>11. CpusApart
    BY <2>6, <2>7 DEF CpusApart
  <2>12. \A l \in links : CommandInstructions(l) \/ Servers(l.seq) \cap WithoutBuffers(o) = {}
    <3> TAKE l \in links
    <3>1. CommandInstructions(l) \/ Buffered(o, l.seq)
      BY <1>3, <2>3, LinkBuffered
    <3> QED
      BY <3>1, BehindBuffers
  <2> QED
    BY <2>6, <2>10, <2>11, <2>12 DEF PortsServeTheirUsers, GpuSides
<1> QED
  BY <1>1, <1>2, <1>3

\* Each user of a script's ports has those of its own kind, and nobody else's:
\* for every number of CPUs, compute units, caches of the GPU and command
\* processors, and every protocol.
THEOREM PortsServeTheirUsersHolds == Spec => []PortsServeTheirUsers
<1>1. RubyInv => PortsServeTheirUsers
  <2> SUFFICES ASSUME RubyInv PROVE PortsServeTheirUsers
    OBVIOUS
  <2>1. CASE links = {}
    <3>1. {l.n : l \in {m \in links : m.user = "cu"}} = {}
      BY <2>1
    <3> QED
      BY <2>1, <3>1 DEF PortsServeTheirUsers, CpusApart, UnitsApart
  <2>2. CASE links # {}
    <3>1. Building /\ ~Left("connect") /\ links = Connections(opts, ports)
      BY <2>2 DEF RubyInv, NothingBuilt, Building, MadeLinks
    <3>2. ~Left("protocol")
      <4>1. RestFact(todo)
        BY <3>1, RestsFacts DEF Building
      <4> QED
        BY <3>1, <4>1 DEF RestFact, Left
    <3>3. /\ ~Refused(opts) /\ cntrls = create_system(opts).cntrls
          /\ ports = create_system(opts).ports
      BY <3>1, <3>2 DEF Building, MadeSystem
    <3>4. Prepared(opts) /\ Typed(opts) /\ opts.script \in Scripts
      BY <3>1, RunningPrepared DEF Building
    <3>5. Made(cntrls)
      BY <3>3, <3>4, SystemMade
    <3>6. opts.num_cpus \in Nat /\ (opts.script \in GpuScripts <=> opts.protocol = "GPU_VIPER")
      BY <3>4 DEF Typed
    <3>7. CASE opts.protocol = "GPU_VIPER"
      <4>1. /\ ViperParts(opts) /\ ViperSystemMade(cntrls, opts)
            /\ ports = cpu_sequencers(opts)
        BY <3>3, <3>4, <3>7, ViperFacts
      <4>2. ViperPorts(ports, opts)
        BY <3>4, <4>1, ViperPortsMade
      <4>3. GpuMade(opts)
        BY <3>4, <3>5, <3>6, <3>7, <4>1, <4>2 DEF GpuMade
      <4> QED
        BY <3>1, <4>3, GpuServed
    <3>8. CASE opts.protocol = "CHI"
      <4>1. /\ CHIMade(cntrls, opts)
            /\ ports = [k \in 1 .. opts.num_cpus |-> CPUSequencerWrapper(k - 1)]
        BY <3>3, <3>4, <3>8, CHIFacts
      <4>2. CpuServers(opts.num_cpus) /\ DOMAIN ports = 1 .. opts.num_cpus
        BY <3>4, <4>1, CpuServersCHI
      <4> QED
        BY <3>1, <3>4, <3>5, <3>6, <3>8, <4>2, UsersServed
    <3>9. CASE opts.protocol \notin {"GPU_VIPER", "CHI"}
      <4>1. Flat(opts)
        BY <3>3, <3>4, <3>9 DEF Flat
      <4>2. FlatMade(create_system(opts), opts)
        BY <4>1, FlatSystem
      <4>3. PICK t \in {"L0Cache", "L1Cache"} : OwnSequencers(cntrls, opts.num_cpus, t)
        BY <3>3, <4>2 DEF FlatMade
      <4>4. OwnPorts(ports, opts.num_cpus)
        BY <3>3, <4>2 DEF FlatMade
      <4>5. CpuServers(opts.num_cpus) /\ DOMAIN ports = 1 .. opts.num_cpus
        BY <3>6, <4>3, <4>4, CpuServersFlat
      <4> QED
        BY <3>1, <3>4, <3>5, <3>6, <3>9, <4>5, UsersServed
    <3> QED
      BY <3>7, <3>8, <3>9
  <2> QED
    BY <2>1, <2>2
<1> QED
  BY <1>1, RubyInvariant, PTL

-----------------------------------------------------------------------------
(* What the guest's files tell of the caches.                              *)

LEMMA ClustersOfCpus ==
  ASSUME NEW o, Clustered(o)
  PROVE  /\ \A d \in 0 .. o.num_cpus - 1 : d \div CpusPerCluster(o) \in 0 .. o.num_clusters - 1
         /\ \A c \in 0 .. o.num_clusters - 1 :
              /\ ClusterCpus(o, c) \subseteq 0 .. o.num_cpus - 1
              /\ \A d \in 0 .. o.num_cpus - 1 :
                   d \in ClusterCpus(o, c) <=> d \div CpusPerCluster(o) = c
<1> DEFINE n == o.num_cpus
           C == o.num_clusters
           P == CpusPerCluster(o)
<1>1. n \in Nat \ {0} /\ C \in Nat \ {0} /\ n % C = 0
  BY DEF Clustered, Typed
<1>2. P \in Nat \ {0} /\ n = C * P
  BY <1>1, WholeDivision DEF CpusPerCluster
<1>3. \A c : ClusterCpus(o, c) = c * P .. ((c + 1) * P) - 1
  BY DEF ClusterCpus
<1> HIDE DEF n, C, P
<1>4. \A d \in 0 .. n - 1 : d \div P \in 0 .. C - 1
  BY <1>1, <1>2, Cells
<1>5. ASSUME NEW c \in 0 .. C - 1
      PROVE  /\ c * P .. ((c + 1) * P) - 1 \subseteq 0 .. n - 1
             /\ \A d \in 0 .. n - 1 : d \in c * P .. ((c + 1) * P) - 1 <=> d \div P = c
  <2>1. c + 1 \in Nat /\ c \in Nat /\ c + 1 <= C
    BY <1>1
  <2>2. (c + 1) * P <= n /\ (c + 1) * P \in Nat /\ c * P \in Nat
    BY <1>1, <1>2, <2>1, NoLess
  <2>3. (c + 1) * P = c * P + P
    BY <1>2, <2>1
  <2>4. ASSUME NEW d \in c * P .. ((c + 1) * P) - 1 PROVE d \div P = c
    <3>1. d - c * P \in 0 .. P - 1 /\ d = (d - c * P) + c * P
      BY <1>2, <2>2, <2>3
    <3> DEFINE m == d - c * P
    <3>2. (m + c * P) \div P = c
      BY <1>2, <2>1, <3>1, DivisionUnique
    <3> QED
      BY <3>1, <3>2
  <2>5. ASSUME NEW d \in 0 .. n - 1, d \div P = c PROVE d \in c * P .. ((c + 1) * P) - 1
    <3>1. d \in Nat
      BY <1>1
    <3>2. d % P \in 0 .. P - 1 /\ d = (d % P) + c * P
      BY <1>2, <2>5, <3>1, Division
    <3> QED
      BY <1>2, <2>2, <2>3, <3>1, <3>2
  <2>6. c * P .. ((c + 1) * P) - 1 \subseteq 0 .. n - 1
    BY <1>1, <2>2
  <2> QED
    BY <2>4, <2>5, <2>6
<1>6. \A c \in 0 .. C - 1 :
        /\ ClusterCpus(o, c) \subseteq 0 .. n - 1
        /\ \A d \in 0 .. n - 1 : d \in ClusterCpus(o, c) <=> d \div P = c
  <2> TAKE c \in 0 .. C - 1
  <2> DEFINE S == c * P .. ((c + 1) * P) - 1
  <2>1. S \subseteq 0 .. n - 1 /\ \A d \in 0 .. n - 1 : d \in S <=> d \div P = c
    BY <1>5
  <2>2. ClusterCpus(o, c) = S
    BY <1>3
  <2> HIDE DEF S
  <2> QED
    BY <2>1, <2>2
<1> QED
  BY <1>4, <1>6 DEF n, C, P

\* The CPUs that share with a CPU, by its controller and those of the others.
LEMMA CompanionsBy ==
  ASSUME Made(cntrls), NEW cpu \in Cpus, NEW G \in SUBSET Cpus,
         \A d \in Cpus : ports[d + 1].data = d,
         \A d \in Cpus : \E c \in Range(cntrls), b \in Range(cntrls) :
           /\ cpu \in Range(c.seqs) /\ d \in Range(b.seqs)
           /\ (b = c \/ (c.type = "L0Cache" /\ b.cluster = c.cluster)) <=> d \in G
  PROVE  Companions(cpu) = G
<1>1. ASSUME NEW d \in Cpus
      PROVE  d \in Companions(cpu) <=> d \in G
  <2>1. PICK c \in Range(cntrls), b \in Range(cntrls) :
          /\ cpu \in Range(c.seqs) /\ d \in Range(b.seqs)
          /\ (b = c \/ (c.type = "L0Cache" /\ b.cluster = c.cluster)) <=> d \in G
    OBVIOUS
  <2>2. Servers(cpu) = {c} /\ Servers(d) = {b}
    BY <2>1, OwnServer
  <2>3. ports[cpu + 1].data = cpu /\ ports[d + 1].data = d
    OBVIOUS
  <2> QED
    BY <2>1, <2>2, <2>3 DEF Companions
<1>2. Companions(cpu) \subseteq Cpus
  BY DEF Companions
<1> QED
  BY <1>1, <1>2

\* FilesTellCaches of one CPU.
Tells(cpu) ==
  LET files == {e \in guest.caches : cpu \in e.cpus}
      told  == {e.cpus \cap Cpus : e \in files}
      all   == {e.cpus \cap Cpus : e \in {f \in files : f.level = 2}}
  IN  /\ Companions(cpu) \in told
      /\ told \subseteq {{cpu}, Companions(cpu)} \cup all
      /\ opts.protocol # "GPU_VIPER" => all \subseteq {{cpu}, Companions(cpu)}

LEMMA TellsBy ==
  ASSUME NEW cpu, NEW G, Companions(cpu) = G,
         \E e \in guest.caches : cpu \in e.cpus /\ e.cpus \cap Cpus = G,
         \A e \in guest.caches : cpu \in e.cpus =>
           \/ e.cpus \cap Cpus \in {{cpu}, G}
           \/ e.level = 2 /\ opts.protocol = "GPU_VIPER"
  PROVE  Tells(cpu)
<1> DEFINE files == {e \in guest.caches : cpu \in e.cpus}
           told  == {e.cpus \cap Cpus : e \in files}
           all   == {e.cpus \cap Cpus : e \in {f \in files : f.level = 2}}
<1>1. G \in told
  OBVIOUS
<1>2. told \subseteq {{cpu}, G} \cup all
  OBVIOUS
<1>3. opts.protocol # "GPU_VIPER" => all \subseteq {{cpu}, G}
  OBVIOUS
<1> QED
  BY <1>1, <1>2, <1>3 DEF Tells

LEMMA HammerTells ==
  ASSUME Made(cntrls), NEW cpu \in Cpus, guest.caches = HammerCaches(opts),
         \A d \in Cpus : ports[d + 1].data = d, OwnSequencers(cntrls, opts.num_cpus, "L1Cache")
  PROVE  Tells(cpu)
<1>1. \A d \in Cpus : \E c \in Range(cntrls) : Range(c.seqs) = {d} /\ c.type = "L1Cache"
  BY DEF OwnSequencers, Cpus
<1>2. \A d \in Cpus : \E c \in Range(cntrls), b \in Range(cntrls) :
           /\ cpu \in Range(c.seqs) /\ d \in Range(b.seqs)
           /\ (b = c \/ (c.type = "L0Cache" /\ b.cluster = c.cluster)) <=> d \in {cpu}
  <2> TAKE d \in Cpus
  <2>1. PICK c \in Range(cntrls) : Range(c.seqs) = {cpu} /\ c.type = "L1Cache"
    BY <1>1
  <2>2. CASE d = cpu
    BY <2>1, <2>2
  <2>3. CASE d # cpu
    <3>1. PICK b \in Range(cntrls) : Range(b.seqs) = {d}
      BY <1>1
    <3>2. b # c
      BY <2>1, <2>3, <3>1
    <3> QED
      BY <2>1, <2>3, <3>1, <3>2
  <2> QED
    BY <2>2, <2>3
<1>3. Companions(cpu) = {cpu}
  <2>1. {cpu} \in SUBSET Cpus
    OBVIOUS
  <2> QED
    BY <1>2, <2>1, CompanionsBy
<1>4. \A level, i : Cache(level, {i}).cpus = {i}
  BY DEF Cache
<1> DEFINE own(level, i) == Cache(level, {i})
<1>a. guest.caches = {own(level, i) : level \in {1, 2}, i \in 0 .. opts.num_cpus - 1}
  BY DEF HammerCaches
<1>b. \A level, i : own(level, i).cpus = {i}
  BY <1>4
<1>5. Cache(1, {cpu}) \in guest.caches
  <2> HIDE DEF own
  <2>1. own(1, cpu) \in guest.caches
    BY <1>a DEF Cpus
  <2> QED
    BY <2>1 DEF own
<1> HIDE DEF own
<1>6. \A e \in guest.caches : \E i : e.cpus = {i}
  <2> TAKE e \in guest.caches
  <2>1. PICK level \in {1, 2}, i \in 0 .. opts.num_cpus - 1 : e = own(level, i)
    BY <1>a
  <2>2. e.cpus = {i}
    BY <1>b, <2>1
  <2> QED
    BY <2>2
<1>7. \A e \in guest.caches : cpu \in e.cpus => e.cpus \cap Cpus = {cpu}
  BY <1>6
<1>9. \E e \in guest.caches : cpu \in e.cpus /\ e.cpus \cap Cpus = {cpu}
  <2> DEFINE w == Cache(1, {cpu})
  <2>1. w \in guest.caches /\ w.cpus = {cpu}
    BY <1>4, <1>5
  <2> HIDE DEF w
  <2>2. cpu \in w.cpus /\ w.cpus \cap Cpus = {cpu}
    BY <2>1
  <2> QED
    BY <2>1, <2>2
<1>10. \A e \in guest.caches : cpu \in e.cpus =>
         \/ e.cpus \cap Cpus \in {{cpu}, {cpu}}
         \/ e.level = 2 /\ opts.protocol = "GPU_VIPER"
  BY <1>7
<1> QED
  BY <1>3, <1>9, <1>10, TellsBy

LEMMA CacheFields ==
  ASSUME NEW level, NEW S
  PROVE  Cache(level, S).cpus = S /\ Cache(level, S).level = level
BY DEF Cache

LEMMA ThreeLevelTells ==
  ASSUME Made(cntrls), NEW cpu \in Cpus, Clustered(opts), cntrls = ThreeLevelCntrls(opts),
         guest.caches = ThreeLevelCaches(opts), \A d \in Cpus : ports[d + 1].data = d
  PROVE  Tells(cpu)
<1> DEFINE P == CpusPerCluster(opts)
           C == opts.num_clusters
           G == ClusterCpus(opts, cpu \div P)
           own(level, i) == Cache(level, {i})
           shared(c) == Cache(2, ClusterCpus(opts, c))
           Owners == UNION {ClusterCpus(opts, c) : c \in 0 .. C - 1}
<1>1. /\ \A d \in Cpus : d \div P \in 0 .. C - 1
      /\ \A c \in 0 .. C - 1 : /\ ClusterCpus(opts, c) \subseteq Cpus
                               /\ \A d \in Cpus : d \in ClusterCpus(opts, c) <=> d \div P = c
  BY ClustersOfCpus DEF Cpus
<1>2. \A i \in Cpus : \E c \in Range(cntrls) :
        Range(c.seqs) = {i} /\ c.type = "L0Cache" /\ c.cluster = i \div P
  BY ThreeLevelSystem DEF Cpus
<1>3. G \in SUBSET Cpus /\ \A d \in Cpus : d \in G <=> d \div P = cpu \div P
  BY <1>1
<1>4. \A level, i : own(level, i).cpus = {i}
  BY CacheFields
<1>5. \A c : shared(c).cpus = ClusterCpus(opts, c)
  BY CacheFields
<1>6. guest.caches = {own(level, i) : level \in {0, 1}, i \in Owners}
                     \cup {shared(c) : c \in 0 .. C - 1}
  BY DEF ThreeLevelCaches, OwnCaches
<1>7. shared(cpu \div P).cpus = G
  BY <1>5
<1> HIDE DEF P, C, G, own, shared, Owners
<1>8. Companions(cpu) = G
  <2>1. \A d \in Cpus : \E c \in Range(cntrls), b \in Range(cntrls) :
           /\ cpu \in Range(c.seqs) /\ d \in Range(b.seqs)
           /\ (b = c \/ (c.type = "L0Cache" /\ b.cluster = c.cluster)) <=> d \in G
    <3> TAKE d \in Cpus
    <3>1. PICK c \in Range(cntrls) :
            Range(c.seqs) = {cpu} /\ c.type = "L0Cache" /\ c.cluster = cpu \div P
      BY <1>2
    <3>2. PICK b \in Range(cntrls) :
            Range(b.seqs) = {d} /\ b.type = "L0Cache" /\ b.cluster = d \div P
      BY <1>2
    <3> QED
      BY <1>3, <3>1, <3>2
  <2> QED
    BY <1>3, <2>1, CompanionsBy
<1>9. shared(cpu \div P) \in guest.caches /\ cpu \in G /\ G \cap Cpus = G
  BY <1>1, <1>3, <1>6
<1>10. \A e \in guest.caches : cpu \in e.cpus => e.cpus \cap Cpus \in {{cpu}, G}
  <2> SUFFICES ASSUME NEW e \in guest.caches, cpu \in e.cpus PROVE e.cpus \cap Cpus \in {{cpu}, G}
    OBVIOUS
  <2>1. CASE \E level \in {0, 1}, i \in Owners : e = own(level, i)
    <3>1. PICK level \in {0, 1}, i \in Owners : e = own(level, i)
      BY <2>1
    <3>2. e.cpus = {i}
      BY <1>4, <3>1
    <3>3. e.cpus \cap Cpus = {cpu}
      BY <3>2
    <3> QED
      BY <3>3
  <2>2. CASE \E c \in 0 .. C - 1 : e = shared(c)
    <3>1. PICK c \in 0 .. C - 1 : e = shared(c)
      BY <2>2
    <3>2. e.cpus = ClusterCpus(opts, c)
      BY <1>5, <3>1
    <3>3. c = cpu \div P
      BY <1>1, <3>2
    <3>4. e.cpus = G
      BY <3>2, <3>3 DEF G
    <3> QED
      BY <1>9, <3>4
  <2> QED
    BY <1>6, <2>1, <2>2
<1>11. \E e \in guest.caches : cpu \in e.cpus /\ e.cpus \cap Cpus = G
  BY <1>7, <1>9
<1>12. \A e \in guest.caches : cpu \in e.cpus =>
         \/ e.cpus \cap Cpus \in {{cpu}, G}
         \/ e.level = 2 /\ opts.protocol = "GPU_VIPER"
  BY <1>10
<1> QED
  BY <1>8, <1>11, <1>12, TellsBy

LEMMA PairsTell ==
  ASSUME GpuMade(opts), NEW cpu \in Cpus, guest.caches = CorePairCaches(opts),
         opts.protocol = "GPU_VIPER"
  PROVE  Tells(cpu)
<1> DEFINE P == CorePairs(opts)
           q == cpu \div 2
           G == {2 * q, (2 * q) + 1} \cap Cpus
           pair(i) == {2 * i, (2 * i) + 1}
           Files(i) == {Cache(0, {2 * i, (2 * i) + 1}), Cache(0, {2 * i}), Cache(0, {(2 * i) + 1}),
                        Cache(1, {2 * i, (2 * i) + 1})}
           all == Cache(2, 0 .. opts.num_cpus - 1)
<1>1. /\ P \in Nat /\ opts.num_cpus \in Nat /\ opts.num_cpus <= P * 2 /\ GpuIdx(opts) = P * 2
      /\ Made(cntrls)
  <2>1. P \in Nat
    BY ViperNumbersOK DEF ViperNumbers, GpuMade
  <2> QED
    BY <2>1, GpuNumbers DEF GpuIdx, GpuMade
<1>2. \A d \in Cpus : /\ ports[d + 1].data = d /\ d \div 2 \in 0 .. P - 1
                      /\ d = 2 * (d \div 2) \/ d = 2 * (d \div 2) + 1
  <2> TAKE d \in Cpus
  <2>1. d \in 0 .. GpuIdx(opts) - 1 /\ d \in 0 .. P * 2 - 1
    BY <1>1 DEF Cpus
  <2>2. ports[d + 1].data = d
    BY <2>1, PortDataOK DEF PortData
  <2> HIDE DEF P
  <2>3. d \div 2 \in 0 .. P - 1 /\ (d = 2 * (d \div 2) \/ d = 2 * (d \div 2) + 1)
    BY <1>1, <2>1
  <2> QED
    BY <2>2, <2>3 DEF P
<1>3. \A i \in 0 .. P - 1 : \E c \in Range(cntrls) :
        c.type = "CorePair" /\ Range(c.seqs) = pair(i)
  <2> TAKE i \in 0 .. P - 1
  <2> DEFINE c == MyPairs(opts)[i + 1]
  <2>1. Selecting(MyPairs(opts), P, "CorePair", 0, 0, 2, None)
    BY DEF GpuMade, ViperParts
  <2>2. Selected(MyPairs(opts), P, "CorePair", 0, 2)
    BY <1>1, <2>1, PlacesSelecting
  <2>3. c \in Range(MyPairs(opts)) /\ c.type = "CorePair"
        /\ Range(c.seqs) = 0 + i * 2 .. 0 + i * 2 + 2 - 1
    BY <2>2 DEF Selected
  <2>4. 0 + i * 2 .. 0 + i * 2 + 2 - 1 = pair(i)
    BY <1>1
  <2>5. c \in Range(cntrls)
    BY <2>3 DEF GpuMade, ViperSystemMade
  <2> HIDE DEF c, pair
  <2> QED
    BY <2>3, <2>4, <2>5
<1>4. \A d \in Cpus, i \in 0 .. P - 1 : d \in pair(i) <=> i = d \div 2
  <2> TAKE d \in Cpus, i \in 0 .. P - 1
  <2> HIDE DEF P
  <2>1. d \in Nat /\ i \in Nat
    BY <1>1 DEF Cpus
  <2> QED
    BY <1>2, <2>1
<1>5. \A S : /\ Cache(0, S).cpus = S /\ Cache(1, S).cpus = S /\ Cache(2, S).cpus = S
             /\ Cache(2, S).level = 2
  BY CacheFields
<1>7. \A i : Files(i) = {Cache(0, pair(i)), Cache(0, {2 * i}), Cache(0, {(2 * i) + 1}),
                         Cache(1, pair(i))}
  OBVIOUS
<1>8. G = pair(q) \cap Cpus /\ q \in 0 .. P - 1 /\ all.level = 2
  BY <1>2, <1>5
<1> DEFINE F == guest.caches
           A == UNION {Files(i) : i \in 0 .. P - 1}
           B == {all : d \in 1 .. opts.num_dirs}
<1>a. F = A \cup B
  <2>1. CorePairCaches(opts) = A \cup B
    BY DEF CorePairCaches
  <2>2. F = CorePairCaches(opts)
    OBVIOUS
  <2> HIDE DEF A, B, F
  <2> QED
    BY <2>1, <2>2
<1>b. (\A e \in A : \E i \in 0 .. P - 1 : e \in Files(i)) /\ \A e \in B : e = all
  OBVIOUS
<1>c. \A i \in 0 .. P - 1 : Files(i) \subseteq A
  OBVIOUS
<1> HIDE DEF P, q, G, pair, Files, all, A, B, F
<1>9. Companions(cpu) = G
  <2>1. \A d \in Cpus : \E c \in Range(cntrls), b \in Range(cntrls) :
           /\ cpu \in Range(c.seqs) /\ d \in Range(b.seqs)
           /\ (b = c \/ (c.type = "L0Cache" /\ b.cluster = c.cluster)) <=> d \in G
    <3> TAKE d \in Cpus
    <3>1. PICK c \in Range(cntrls) : c.type = "CorePair" /\ Range(c.seqs) = pair(q)
      BY <1>3, <1>8
    <3>2. cpu \in Range(c.seqs)
      BY <1>4, <1>8, <3>1 DEF q
    <3>3. CASE d \in pair(q)
      BY <1>8, <3>1, <3>2, <3>3
    <3>4. CASE d \notin pair(q)
      <4>1. d \div 2 \in 0 .. P - 1
        BY <1>2
      <4>2. PICK b \in Range(cntrls) : Range(b.seqs) = pair(d \div 2)
        BY <1>3, <4>1
      <4>3. d \in pair(d \div 2)
        BY <1>4, <4>1
      <4>4. b # c
        BY <3>1, <3>4, <4>2, <4>3
      <4> QED
        BY <1>8, <3>1, <3>2, <3>4, <4>2, <4>3, <4>4
    <3> QED
      BY <3>3, <3>4
  <2>2. G \in SUBSET Cpus
    BY <1>8
  <2> QED
    BY <1>1, <1>2, <2>1, <2>2, CompanionsBy
<1>10. Cache(0, pair(q)) \in F /\ cpu \in pair(q)
  <2>1. Cache(0, pair(q)) \in Files(q)
    BY <1>7
  <2> QED
    BY <1>4, <1>8, <1>a, <1>c, <2>1 DEF q
<1>11. \A e \in F : cpu \in e.cpus =>
         e.cpus \cap Cpus \in {{cpu}, G} \/ (e.level = 2 /\ opts.protocol = "GPU_VIPER")
  <2> SUFFICES ASSUME NEW e \in F, cpu \in e.cpus
               PROVE  e.cpus \cap Cpus \in {{cpu}, G} \/ e.level = 2
    OBVIOUS
  <2>1. CASE e = all
    BY <1>8, <2>1
  <2>2. CASE \E i \in 0 .. P - 1 : e \in Files(i)
    <3>1. PICK i \in 0 .. P - 1 : e \in Files(i)
      BY <2>2
    <3>2. e.cpus \in {pair(i), {2 * i}, {(2 * i) + 1}}
      BY <1>5, <1>7, <3>1
    <3>3. CASE e.cpus = pair(i)
      <4>1. i = q
        BY <1>4, <3>3 DEF q
      <4> QED
        BY <1>8, <3>3, <4>1
    <3>4. CASE \E x : e.cpus = {x}
      <4>1. e.cpus \cap Cpus = {cpu}
        BY <3>4
      <4> QED
        BY <4>1
    <3> QED
      BY <3>2, <3>3, <3>4
  <2> QED
    BY <1>a, <1>b, <2>1, <2>2
<1>12. \E e \in guest.caches : cpu \in e.cpus /\ e.cpus \cap Cpus = G
  BY <1>5, <1>8, <1>10 DEF F
<1>13. \A e \in guest.caches : cpu \in e.cpus =>
         \/ e.cpus \cap Cpus \in {{cpu}, G}
         \/ e.level = 2 /\ opts.protocol = "GPU_VIPER"
  BY <1>11 DEF F
<1> QED
  BY <1>9, <1>12, <1>13, TellsBy

\* The guest's files say of every CPU with which others it shares its caches,
\* and nothing else, when they are told at all: for every number of CPUs and
\* of clusters.
THEOREM FilesTellCachesHolds == Spec => []FilesTellCaches
<1>1. RubyInv => FilesTellCaches
  <2> SUFFICES ASSUME RubyInv, Finished("connect"), ~opts.full_system, TellsCaches, NEW cpu \in Cpus
               PROVE  Tells(cpu)
    BY DEF FilesTellCaches, Tells
  <2>1. Building /\ ~Left("connect")
    <3>1. Range(<<"script">>) = {"script"}
      BY Tuples
    <3> QED
      BY <3>1 DEF RubyInv, Finished, Left
  <2>2. ~Left("protocol")
    <3>1. RestFact(todo)
      BY <2>1, RestsFacts DEF Building
    <3> QED
      BY <2>1, <3>1 DEF RestFact, Left
  <2>3. /\ ~Refused(opts) /\ cntrls = create_system(opts).cntrls
        /\ ports = create_system(opts).ports
    BY <2>1, <2>2 DEF Building, MadeSystem
  <2>4. Prepared(opts) /\ Typed(opts) /\ opts.script \in Scripts
    BY <2>1, RunningPrepared DEF Building
  <2>5. Made(cntrls)
    BY <2>3, <2>4, SystemMade
  <2>6. /\ opts.num_cpus \in Nat
        /\ opts.script \in GpuScripts <=> opts.protocol = "GPU_VIPER"
        /\ opts.script \in Tutorials <=> opts.protocol = "MSI"
    BY <2>4 DEF Typed
  <2>7. guest.caches = create_system(opts).caches
    <3>1. opts.script # "simple_ruby"
      BY <2>6 DEF TellsCaches, Tutorials
    <3> QED
      BY <2>1, <2>2, <3>1 DEF Building, MadeFiles
  <2>8. OwnPorts(ports, opts.num_cpus) => \A d \in Cpus : ports[d + 1].data = d
    <3> SUFFICES ASSUME OwnPorts(ports, opts.num_cpus), NEW d \in Cpus PROVE ports[d + 1].data = d
      OBVIOUS
    <3>1. d + 1 \in 1 .. opts.num_cpus /\ (d + 1) - 1 = d
      BY <2>6 DEF Cpus
    <3>2. ports[d + 1] = Port("cpu", d, d)
      BY <3>1 DEF OwnPorts
    <3> QED
      BY <3>2, PortFields
  <2>9. CASE opts.protocol = "MOESI_hammer"
    <3>1. create_system(opts) = System(opts, PrivateL1s(opts) \o Directories(opts) \o DMAs(opts),
                                       HammerCaches(opts))
      BY <2>9, OfProtocol DEF MOESI_hammer
    <3>2. OwnSequencers(cntrls, opts.num_cpus, "L1Cache")
      <4>1. cntrls = PrivateL1s(opts) \o Directories(opts) \o DMAs(opts)
        BY <2>3, <3>1 DEF System
      <4> QED
        BY <2>4, <4>1, PrivateL1sOK, PrivateSystem
    <3>3. guest.caches = HammerCaches(opts)
      BY <2>7, <3>1 DEF System
    <3>4. OwnPorts(ports, opts.num_cpus)
      BY <2>3, <3>1 DEF System, Each, OwnPorts
    <3> QED
      BY <2>5, <2>8, <3>2, <3>3, <3>4, HammerTells
  <2>10. CASE opts.protocol \in {"MESI_Three_Level", "MESI_Three_Level_HTM"}
    <3>1. create_system(opts) = MESI_Three_Level(opts)
      BY <2>10, OfProtocol DEF MESI_Three_Level_HTM
    <3>2. Clustered(opts) /\ cntrls = ThreeLevelCntrls(opts)
      BY <2>3, <2>4, <3>1, ThreeLevelOK DEF Refused
    <3>3. MESI_Three_Level(opts) = System(opts, ThreeLevelCntrls(opts), ThreeLevelCaches(opts))
      BY <2>3, <3>1, RefuseOrSystem DEF MESI_Three_Level, Refused
    <3>4. guest.caches = ThreeLevelCaches(opts)
      BY <2>7, <3>1, <3>3 DEF System
    <3>5. OwnPorts(ports, opts.num_cpus)
      BY <2>3, <3>1, <3>3 DEF System, Each, OwnPorts
    <3> QED
      BY <2>5, <2>8, <3>2, <3>4, <3>5, ThreeLevelTells
  <2>11. CASE opts.protocol = "GPU_VIPER"
    <3>1. /\ ViperParts(opts) /\ ViperSystemMade(cntrls, opts)
          /\ ports = cpu_sequencers(opts)
      BY <2>3, <2>4, <2>11, ViperFacts
    <3>2. ViperPorts(ports, opts)
      BY <2>4, <3>1, ViperPortsMade
    <3>3. GpuMade(opts)
      BY <2>4, <2>5, <2>6, <2>11, <3>1, <3>2 DEF GpuMade
    <3>4. guest.caches = CorePairCaches(opts)
      <4>1. create_system(opts) = GPU_VIPER(opts) /\ ~GPU_VIPER(opts).refuses
        BY <2>3, <2>11, OfProtocol DEF Refused
      <4>2. GPU_VIPER(opts).caches = CorePairCaches(opts)
        BY <4>1, RefuseOrSystem DEF GPU_VIPER
      <4> QED
        BY <2>7, <4>1, <4>2
    <3> QED
      BY <2>11, <3>3, <3>4, PairsTell
  <2> QED
    BY <2>9, <2>10, <2>11 DEF TellsCaches
<1> QED
  BY <1>1, RubyInvariant, PTL

-----------------------------------------------------------------------------
(* The network that is built.                                              *)

\* A network joins its routers: each set of them that is left somewhere.
Joins(N) ==
  \A S \in SUBSET (0 .. N.routers - 1) :
    S \notin {{}, 0 .. N.routers - 1} => \E l \in N.int : l.src \in S /\ l.dst \notin S

\* A router that is joined to every other one both ways.
Hub(N, h) ==
  /\ h \in 0 .. N.routers - 1 \/ 0 .. N.routers - 1 = {}
  /\ \A x \in 0 .. N.routers - 1 : x # h => Hop(x, h) \in N.int /\ Hop(h, x) \in N.int

LEMMA HubJoins ==
  ASSUME NEW N, NEW h, Hub(N, h)
  PROVE  Joins(N)
<1> DEFINE R == 0 .. N.routers - 1
<1> SUFFICES ASSUME NEW S \in SUBSET R, S # {}, S # R
             PROVE  \E l \in N.int : l.src \in S /\ l.dst \notin S
  BY DEF Joins
<1>1. \A a, b : Hop(a, b).src = a /\ Hop(a, b).dst = b
  BY DEF Hop
<1>2. h \in R /\ \A x \in R : x # h => Hop(x, h) \in N.int /\ Hop(h, x) \in N.int
  BY DEF Hub
<1> HIDE DEF R
<1>3. CASE h \in S
  <2>1. PICK x \in R : x \notin S
    OBVIOUS
  <2>2. Hop(h, x) \in N.int
    BY <1>2, <1>3, <2>1
  <2> QED
    BY <1>1, <1>3, <2>1, <2>2
<1>4. CASE h \notin S
  <2>1. PICK x \in S : TRUE
    OBVIOUS
  <2>2. Hop(x, h) \in N.int
    BY <1>2, <1>4, <2>1
  <2> QED
    BY <1>1, <1>4, <2>1, <2>2
<1> QED
  BY <1>3, <1>4

\* A router but the first is joined both ways to one that comes before it.
Tree(N) ==
  \A x \in 0 .. N.routers - 1 : x # 0 =>
    \E y \in 0 .. N.routers - 1 : y < x /\ Hop(x, y) \in N.int /\ Hop(y, x) \in N.int

LEMMA TreeJoins ==
  ASSUME NEW N, N.routers \in Nat, Tree(N)
  PROVE  Joins(N)
<1> DEFINE R == 0 .. N.routers - 1
<1> SUFFICES ASSUME NEW S \in SUBSET R, S # {}, S # R
             PROVE  \E l \in N.int : l.src \in S /\ l.dst \notin S
  BY DEF Joins
<1>1. \A a, b : Hop(a, b).src = a /\ Hop(a, b).dst = b
  BY DEF Hop
<1>2. \A x \in R : x # 0 =>
        \E y \in R : y < x /\ Hop(x, y) \in N.int /\ Hop(y, x) \in N.int
  BY DEF Tree
<1>3. R \subseteq Nat
  OBVIOUS
<1> HIDE DEF R
<1>4. CASE 0 \in S
  <2> DEFINE T == R \ S
  <2>1. T \subseteq Nat /\ T # {} /\ T \subseteq R /\ 0 \notin T
    BY <1>3, <1>4
  <2>a. \A z \in R : z \in S \/ z \in T
    OBVIOUS
  <2>2. PICK x \in T : \A z \in T : x <= z
    <3> HIDE DEF T
    <3> QED
      BY <2>1, LeastNumber
  <2>3. x \in R /\ x # 0 /\ x \notin S
    BY <2>1
  <2>4. PICK y \in R : y < x /\ Hop(y, x) \in N.int
    BY <1>2, <2>3
  <2> HIDE DEF T
  <2>5. y \in S
    BY <1>3, <2>1, <2>2, <2>4, <2>a
  <2> QED
    BY <1>1, <2>3, <2>4, <2>5
<1>5. CASE 0 \notin S
  <2>1. S \subseteq Nat
    BY <1>3
  <2>2. PICK x \in S : \A z \in S : x <= z
    BY <2>1, LeastNumber
  <2>3. x \in R /\ x # 0
    BY <1>5
  <2>4. PICK y \in R : y < x /\ Hop(x, y) \in N.int
    BY <1>2, <2>3
  <2>5. y \notin S
    BY <1>3, <2>1, <2>2, <2>4
  <2> QED
    BY <1>1, <2>4, <2>5
<1> QED
  BY <1>4, <1>5

\* Each of the controllers hangs off one router, and nothing else does.
Hangs(N, C) ==
  /\ \A c \in C : \E l \in N.ext : l.node = c
  /\ \A l \in N.ext : l.node \in C
  /\ \A l, m \in N.ext : l.node = m.node => l.router = m.router

Distinct(s) == \A j, k \in DOMAIN s : s[j] = s[k] => j = k

LEMMA MadeDistinct ==
  ASSUME NEW s, Made(s)
  PROVE  Distinct(s)
<1> SUFFICES ASSUME NEW j \in DOMAIN s, NEW k \in DOMAIN s, s[j] = s[k]
             PROVE  j = k
  BY DEF Distinct
<1>1. Counts(s, s[j].type, 0, Cardinality(OfType(s, s[j].type)))
  BY DEF Made
<1>2. s[j].type = s[k].type /\ s[j].version = s[k].version
  OBVIOUS
<1> QED
  BY <1>1, <1>2 DEF Counts

LEMMA ExtFields == \A c, r : Ext(c, r).node = c /\ Ext(c, r).router = r
BY DEF Ext

LEMMA OwnRoutersHang ==
  ASSUME NEW s, Sequence(s), Distinct(s), NEW N, N.ext = OwnRouters(s)
  PROVE  Hangs(N, Range(s))
<1>1. /\ Len(s) \in Nat /\ DOMAIN s = 1 .. Len(s)
      /\ \A k \in 1 .. Len(s) : s[k] \in Range(s)
      /\ \A x \in Range(s) : \E k \in 1 .. Len(s) : x = s[k]
  BY SequenceFacts
<1>2. /\ \A l \in N.ext : \E i \in 1 .. Len(s) : l.node = s[i] /\ l.router = i - 1
      /\ \A i \in 1 .. Len(s) : \E l \in N.ext : l.node = s[i]
  <2>1. N.ext = {Ext(s[i], i - 1) : i \in 1 .. Len(s)}
    BY DEF OwnRouters
  <2>2. \A l \in N.ext : \E i \in 1 .. Len(s) : l = Ext(s[i], i - 1)
    BY <2>1
  <2>3. \A i \in 1 .. Len(s) : Ext(s[i], i - 1) \in N.ext
    BY <2>1
  <2>4. \A l \in N.ext : \E i \in 1 .. Len(s) : l.node = s[i] /\ l.router = i - 1
    <3> TAKE l \in N.ext
    <3>1. PICK i \in 1 .. Len(s) : l = Ext(s[i], i - 1)
      BY <2>2
    <3>2. l.node = s[i] /\ l.router = i - 1
      BY <3>1, ExtFields
    <3> QED
      BY <3>2
  <2>5. \A i \in 1 .. Len(s) : \E l \in N.ext : l.node = s[i]
    <3> TAKE i \in 1 .. Len(s)
    <3>1. Ext(s[i], i - 1) \in N.ext /\ Ext(s[i], i - 1).node = s[i]
      BY <2>3, ExtFields
    <3> QED
      BY <3>1
  <2> QED
    BY <2>4, <2>5
<1>3. \A c \in Range(s) : \E l \in N.ext : l.node = c
  BY <1>1, <1>2
<1>4. \A l \in N.ext : l.node \in Range(s)
  BY <1>1, <1>2
<1>5. ASSUME NEW l \in N.ext, NEW m \in N.ext, l.node = m.node
      PROVE  l.router = m.router
  <2>1. PICK i \in 1 .. Len(s) : l.node = s[i] /\ l.router = i - 1
    BY <1>2
  <2>2. PICK j \in 1 .. Len(s) : m.node = s[j] /\ m.router = j - 1
    BY <1>2
  <2>3. i = j
    BY <1>1, <1>5, <2>1, <2>2 DEF Distinct
  <2> QED
    BY <2>1, <2>2, <2>3
<1> QED
  BY <1>3, <1>4, <1>5 DEF Hangs

\* What every topology makes of the controllers.
Complete(N, C) == Hangs(N, C) /\ Joins(N)

LEMMA CrossbarComplete ==
  ASSUME NEW s, Sequence(s), Distinct(s)
  PROVE  Complete(Crossbar(s), Range(s))
<1> DEFINE N == Crossbar(s)
           n == Len(s)
<1>1. n \in Nat
  BY SequenceFacts
<1>2. /\ N.routers = n + 1 /\ N.ext = OwnRouters(s)
      /\ N.int = UNION {{Hop(i, n), Hop(n, i)} : i \in 0 .. n - 1}
  BY DEF Crossbar
<1> HIDE DEF N, n
<1>3. \A x \in 0 .. N.routers - 1 : x # n => x \in 0 .. n - 1
  BY <1>1, <1>2
<1>4. \A x \in 0 .. n - 1 : Hop(x, n) \in N.int /\ Hop(n, x) \in N.int
  BY <1>2
<1>5. n \in 0 .. N.routers - 1
  BY <1>1, <1>2
<1>6. Joins(N)
  BY <1>3, <1>4, <1>5, HubJoins DEF Hub
<1>7. Hangs(N, Range(s))
  BY <1>2, OwnRoutersHang
<1> QED
  BY <1>6, <1>7 DEF Complete, N

LEMMA CrossbarGarnetComplete ==
  ASSUME NEW s, Sequence(s)
  PROVE  Complete(CrossbarGarnet(s), Range(s))
<1> DEFINE N == CrossbarGarnet(s)
<1>1. N.routers = 1 /\ N.ext = {Ext(s[i], 0) : i \in 1 .. Len(s)}
  BY DEF CrossbarGarnet
<1> HIDE DEF N
<1>2. /\ \A k \in 1 .. Len(s) : s[k] \in Range(s)
      /\ \A x \in Range(s) : \E k \in 1 .. Len(s) : x = s[k]
  BY SequenceFacts
<1>3. Hangs(N, Range(s))
  <2>1. /\ \A l \in N.ext : \E i \in 1 .. Len(s) : l = Ext(s[i], 0)
        /\ \A i \in 1 .. Len(s) : Ext(s[i], 0) \in N.ext
    BY <1>1
  <2>2. \A l \in N.ext : l.router = 0 /\ \E i \in 1 .. Len(s) : l.node = s[i]
    <3> TAKE l \in N.ext
    <3>1. PICK i \in 1 .. Len(s) : l = Ext(s[i], 0)
      BY <2>1
    <3> QED
      BY <3>1, ExtFields
  <2>3. \A i \in 1 .. Len(s) : \E l \in N.ext : l.node = s[i]
    <3> TAKE i \in 1 .. Len(s)
    <3>1. Ext(s[i], 0) \in N.ext /\ Ext(s[i], 0).node = s[i]
      BY <2>1, ExtFields
    <3> QED
      BY <3>1
  <2> QED
    BY <1>2, <2>2, <2>3 DEF Hangs
<1>4. Hub(N, 0)
  BY <1>1 DEF Hub
<1> QED
  BY <1>3, <1>4, HubJoins DEF Complete, N

LEMMA Pt2PtComplete ==
  ASSUME NEW s, Sequence(s), Distinct(s)
  PROVE  Complete(Pt2Pt(s), Range(s))
<1> DEFINE N == Pt2Pt(s)
           n == Len(s)
<1>1. n \in Nat
  BY SequenceFacts
<1>2. N.routers = n /\ N.ext = OwnRouters(s) /\ N.int = AllToAll(n)
  BY DEF Pt2Pt
<1> HIDE DEF N, n
<1>3. \A x, y \in 0 .. n - 1 : x # y => Hop(x, y) \in AllToAll(n)
  <2> SUFFICES ASSUME NEW x \in 0 .. n - 1, NEW y \in 0 .. n - 1, x # y
               PROVE  Hop(x, y) \in AllToAll(n)
    OBVIOUS
  <2>1. Hop(x, y) \in {Hop(i, j) : i, j \in 0 .. n - 1}
    OBVIOUS
  <2>2. \A i : Hop(x, y) # Hop(i, i)
    BY DEF Hop
  <2> QED
    BY <2>1, <2>2 DEF AllToAll
<1>4. 0 \in 0 .. n - 1 \/ 0 .. n - 1 = {}
  BY <1>1
<1>5. Hub(N, 0)
  <2>1. ASSUME NEW x \in 0 .. n - 1, x # 0
        PROVE  Hop(x, 0) \in AllToAll(n) /\ Hop(0, x) \in AllToAll(n)
    BY <1>3, <1>4, <2>1
  <2> QED
    BY <1>2, <1>4, <2>1 DEF Hub
<1>6. Hangs(N, Range(s))
  BY <1>2, OwnRoutersHang
<1> QED
  BY <1>5, <1>6, HubJoins DEF Complete, N

\* A cluster whose members have no controller of another's.
Apart(root) ==
  /\ \A j \in DOMAIN root.clusters : root.clusters[j] \cap root.nodes = {}
  /\ \A j, k \in DOMAIN root.clusters :
       j # k => root.clusters[j] \cap root.clusters[k] = {}

Members(root) == root.nodes \cup UNION {root.clusters[k] : k \in DOMAIN root.clusters}

LEMMA ClusterComplete ==
  ASSUME NEW root, Apart(root), Len(root.clusters) \in Nat,
         DOMAIN root.clusters = 1 .. Len(root.clusters)
  PROVE  Complete(Cluster(root), Members(root))
<1> DEFINE N == Cluster(root)
           m == Len(root.clusters)
<1>1. /\ N.routers = 1 + m
      /\ N.ext = {Ext(n, 0) : n \in root.nodes}
                 \cup UNION {{Ext(n, k) : n \in root.clusters[k]} : k \in 1 .. m}
      /\ N.int = UNION {{Hop(0, k), Hop(k, 0)} : k \in 1 .. m}
  BY DEF Cluster
<1> HIDE DEF N
<1>2. \A x \in 0 .. N.routers - 1 : x # 0 => x \in 1 .. m
  BY <1>1
<1>3. Hub(N, 0)
  <2>1. \A x \in 1 .. m : Hop(x, 0) \in N.int /\ Hop(0, x) \in N.int
    BY <1>1
  <2>2. 0 \in 0 .. N.routers - 1
    BY <1>1
  <2> QED
    BY <1>2, <2>1, <2>2 DEF Hub
<1>4. \A l \in N.ext :
        \/ l.node \in root.nodes /\ l.router = 0
        \/ \E k \in 1 .. m : l.node \in root.clusters[k] /\ l.router = k
  BY <1>1, ExtFields
<1>5. \A n \in Members(root) : \E l \in N.ext : l.node = n
  <2> SUFFICES ASSUME NEW n \in Members(root) PROVE \E l \in N.ext : l.node = n
    OBVIOUS
  <2>1. CASE n \in root.nodes
    BY <1>1, <2>1, ExtFields
  <2>2. ASSUME NEW k \in 1 .. m, n \in root.clusters[k]
        PROVE  \E l \in N.ext : l.node = n
    <3>1. Ext(n, k) \in N.ext
      BY <1>1, <2>2
    <3> QED
      BY <3>1, ExtFields
  <2> QED
    BY <2>1, <2>2 DEF Members
<1>6. \A l \in N.ext : l.node \in Members(root)
  BY <1>4 DEF Members
<1>7. \A l, n \in N.ext : l.node = n.node => l.router = n.router
  BY <1>4 DEF Apart
<1> QED
  BY <1>3, <1>5, <1>6, <1>7, HubJoins DEF Complete, Hangs, N

LEMMA ViperNetwork ==
  ASSUME NEW s
  PROVE  Complete(Cluster(ViperClusters(s)), Range(s))
<1> DEFINE C == Range(s)
           dirs == {c \in C : c.type = "Directory"}
           pairs == {c \in C : c.type = "CorePair"}
           rest == C \ (dirs \cup pairs)
           root == ViperClusters(s)
<1>1. root.nodes = dirs /\ root.clusters = <<pairs, rest>>
  BY DEF ViperClusters, ClusterOf
<1>2. dirs \cap pairs = {} /\ dirs \cup pairs \subseteq C
  OBVIOUS
<1> HIDE DEF root, dirs, pairs, C
<1>3. /\ Len(root.clusters) = 2 /\ DOMAIN root.clusters = 1 .. 2
      /\ root.clusters[1] = pairs /\ root.clusters[2] = rest
  BY <1>1
<1>4. Apart(root)
  BY <1>1, <1>2, <1>3 DEF Apart
<1>5. Members(root) = C
  <2>1. \A k \in DOMAIN root.clusters : root.clusters[k] \subseteq C
    BY <1>2, <1>3
  <2>2. \A c \in C : c \in dirs \/ c \in root.clusters[1] \/ c \in root.clusters[2]
    BY <1>3
  <2> QED
    BY <1>1, <1>2, <1>3, <2>1, <2>2 DEF Members
<1>6. Complete(Cluster(root), Members(root))
  BY <1>3, <1>4, ClusterComplete
<1> QED
  BY <1>5, <1>6 DEF root, C

\* Every controller of a sequence is in one node, and is found there.
Houses(nodes, s) ==
  \E f \in [DOMAIN s -> DOMAIN nodes] :
    /\ \A p \in DOMAIN s : s[p] \in Range(nodes[f[p]].cntrls)
    /\ \A k \in DOMAIN nodes : \A c \in Range(nodes[k].cntrls) :
         \E p \in DOMAIN s : s[p] = c /\ f[p] = k

LEMMA HousesConcat ==
  ASSUME NEW M, NEW N, NEW s, NEW t, Sequence(M), Sequence(N), Sequence(s), Sequence(t),
         Houses(M, s), Houses(N, t)
  PROVE  Houses(M \o N, s \o t)
<1>1. PICK f \in [DOMAIN s -> DOMAIN M] :
        /\ \A p \in DOMAIN s : s[p] \in Range(M[f[p]].cntrls)
        /\ \A k \in DOMAIN M : \A c \in Range(M[k].cntrls) :
             \E p \in DOMAIN s : s[p] = c /\ f[p] = k
  BY DEF Houses
<1>2. PICK g \in [DOMAIN t -> DOMAIN N] :
        /\ \A p \in DOMAIN t : t[p] \in Range(N[g[p]].cntrls)
        /\ \A k \in DOMAIN N : \A c \in Range(N[k].cntrls) :
             \E p \in DOMAIN t : t[p] = c /\ g[p] = k
  BY DEF Houses
<1> DEFINE a == Len(s)
           m == Len(M)
           b == Len(t)
           n == Len(N)
           u == s \o t
           K == M \o N
           h == [p \in DOMAIN u |-> IF p <= a THEN f[p] ELSE m + g[p - a]]
<1>3. /\ a \in Nat /\ b \in Nat /\ m \in Nat /\ n \in Nat
      /\ DOMAIN s = 1 .. a /\ DOMAIN t = 1 .. b /\ DOMAIN M = 1 .. m /\ DOMAIN N = 1 .. n
  BY SequenceFacts
<1>4. /\ DOMAIN u = 1 .. a + b
      /\ \A p \in 1 .. a : u[p] = s[p]
      /\ \A p \in 1 .. b : u[a + p] = t[p]
  BY Places, Concat
<1>5. /\ DOMAIN K = 1 .. m + n
      /\ \A k \in 1 .. m : K[k] = M[k]
      /\ \A k \in 1 .. n : K[m + k] = N[k]
  BY Places, Concat
<1> HIDE DEF a, m, b, n, u, K
<1>6. \A p \in 1 .. a : h[p] = f[p] /\ f[p] \in 1 .. m
  <2> TAKE p \in 1 .. a
  <2>1. p \in DOMAIN u /\ p <= a
    BY <1>3, <1>4
  <2>2. f[p] \in 1 .. m
    BY <1>3
  <2> QED
    BY <2>1, <2>2
<1>7. \A p \in 1 .. b : h[a + p] = m + g[p] /\ g[p] \in 1 .. n
  <2> TAKE p \in 1 .. b
  <2>1. a + p \in DOMAIN u /\ ~(a + p <= a) /\ (a + p) - a = p
    BY <1>3, <1>4
  <2>2. g[p] \in 1 .. n
    BY <1>3
  <2> QED
    BY <2>1, <2>2
<1>8. DOMAIN h = 1 .. a + b /\ h = [p \in 1 .. a + b |-> h[p]]
  BY <1>4
<1> HIDE DEF h
<1>9. \A p \in 1 .. a + b : p \in 1 .. a \/ \E i \in 1 .. b : p = a + i
  <2> TAKE p \in 1 .. a + b
  <2>1. p \in 1 .. a \/ (p - a \in 1 .. b /\ p = a + (p - a))
    BY <1>3
  <2> QED
    BY <2>1
<1>10. \A k \in 1 .. m + n : k \in 1 .. m \/ \E i \in 1 .. n : k = m + i
  <2> TAKE k \in 1 .. m + n
  <2>1. k \in 1 .. m \/ (k - m \in 1 .. n /\ k = m + (k - m))
    BY <1>3
  <2> QED
    BY <2>1
<1>11. \A p \in 1 .. a + b : h[p] \in 1 .. m + n /\ u[p] \in Range(K[h[p]].cntrls)
  <2> TAKE p \in 1 .. a + b
  <2>1. CASE p \in 1 .. a
    <3>1. h[p] \in 1 .. m /\ h[p] = f[p] /\ u[p] = s[p] /\ s[p] \in Range(M[f[p]].cntrls)
      BY <1>1, <1>3, <1>4, <1>6, <2>1
    <3> QED
      BY <1>3, <1>5, <3>1
  <2>2. CASE \E i \in 1 .. b : p = a + i
    <3>1. PICK i \in 1 .. b : p = a + i
      BY <2>2
    <3>2. g[i] \in 1 .. n /\ h[p] = m + g[i] /\ u[p] = t[i] /\ t[i] \in Range(N[g[i]].cntrls)
      BY <1>2, <1>3, <1>4, <1>7, <3>1
    <3>3. K[m + g[i]] = N[g[i]] /\ m + g[i] \in 1 .. m + n
      BY <1>3, <1>5, <3>2
    <3> QED
      BY <3>2, <3>3
  <2> QED
    BY <1>9, <2>1, <2>2
<1>12. ASSUME NEW k \in 1 .. m + n, NEW c \in Range(K[k].cntrls)
       PROVE  \E p \in 1 .. a + b : u[p] = c /\ h[p] = k
  <2>1. CASE k \in 1 .. m
    <3>a. c \in Range(M[k].cntrls)
      BY <1>5, <1>12, <2>1
    <3>1. PICK p \in 1 .. a : s[p] = c /\ f[p] = k
      BY <1>1, <1>3, <2>1, <3>a
    <3>2. p \in 1 .. a + b /\ u[p] = c /\ h[p] = k
      BY <1>3, <1>4, <1>6, <3>1
    <3> QED
      BY <3>2
  <2>2. CASE \E i \in 1 .. n : k = m + i
    <3>1. PICK i \in 1 .. n : k = m + i
      BY <2>2
    <3>2. K[k] = N[i]
      BY <1>5, <3>1
    <3>a. c \in Range(N[i].cntrls)
      BY <1>12, <3>2
    <3>3. PICK p \in 1 .. b : t[p] = c /\ g[p] = i
      BY <1>2, <1>3, <3>1, <3>a
    <3>4. a + p \in 1 .. a + b /\ u[a + p] = c /\ h[a + p] = k
      BY <1>3, <1>4, <1>7, <3>1, <3>3
    <3> QED
      BY <3>4
  <2> QED
    BY <1>10, <2>1, <2>2
<1>13. h \in [DOMAIN u -> DOMAIN K]
  <2>1. \A p \in 1 .. a + b : h[p] \in 1 .. m + n
    BY <1>11
  <2> HIDE DEF h
  <2> DEFINE e == a + b
             l == m + n
  <2>2. h = [p \in 1 .. e |-> h[p]] /\ (\A p \in 1 .. e : h[p] \in 1 .. l)
    BY <1>8, <2>1
  <2>4. DOMAIN u = 1 .. e /\ DOMAIN K = 1 .. l
    BY <1>4, <1>5
  <2> HIDE DEF e, l
  <2>3. h \in [1 .. e -> 1 .. l]
    BY <2>2
  <2> QED
    BY Zenon, <2>3, <2>4
<1>14. \A p \in DOMAIN u : u[p] \in Range(K[h[p]].cntrls)
  BY <1>4, <1>11
<1>15. \A k \in DOMAIN K : \A c \in Range(K[k].cntrls) : \E p \in DOMAIN u : u[p] = c /\ h[p] = k
  <2> TAKE k \in DOMAIN K
  <2> TAKE c \in Range(K[k].cntrls)
  <2>1. k \in 1 .. m + n /\ c \in Range(K[k].cntrls)
    BY <1>5
  <2>2. PICK p \in 1 .. a + b : u[p] = c /\ h[p] = k
    BY Zenon, <1>12, <2>1
  <2> QED
    BY <1>4, <2>2
<1>16. Houses(K, u)
  BY <1>13, <1>14, <1>15 DEF Houses
<1> QED
  BY <1>16 DEF K, u

\* Nodes of one controller each.
LEMMA SinglesHouse ==
  ASSUME NEW m \in Nat, NEW M, NEW s, DOMAIN M = 1 .. m, DOMAIN s = 1 .. m,
         \A k \in 1 .. m : M[k].cntrls = <<s[k]>>
  PROVE  Houses(M, s)
<1> DEFINE f == [k \in 1 .. m |-> k]
<1>1. f \in [1 .. m -> 1 .. m] /\ \A k \in 1 .. m : f[k] = k
  OBVIOUS
<1> HIDE DEF f
<1>2. \A k \in 1 .. m : Range(M[k].cntrls) = {s[k]}
  BY RangeOfOne
<1>3. f \in [DOMAIN s -> DOMAIN M]
  BY <1>1
<1>4. \A p \in DOMAIN s : s[p] \in Range(M[f[p]].cntrls)
  BY <1>1, <1>2
<1>5. \A k \in DOMAIN M : \A c \in Range(M[k].cntrls) : \E p \in DOMAIN s : s[p] = c /\ f[p] = k
  <2> TAKE k \in DOMAIN M
  <2> TAKE c \in Range(M[k].cntrls)
  <2>a. k \in 1 .. m
    OBVIOUS
  <2>b. c \in {s[k]}
    BY Zenon, <1>2, <2>a
  <2>1. k \in DOMAIN s /\ s[k] = c /\ f[k] = k
    BY <1>1, <2>a, <2>b
  <2> QED
    BY <2>1
<1> QED
  BY <1>3, <1>4, <1>5 DEF Houses

\* A part of the nodes, and the controllers of that part.
Housed(nodes, s) == Sequence(nodes) /\ Sequence(s) /\ Houses(nodes, s)

LEMMA HousedConcat ==
  ASSUME NEW M, NEW N, NEW s, NEW t, Housed(M, s), Housed(N, t)
  PROVE  Housed(M \o N, s \o t)
<1>1. /\ Sequence(M) /\ Sequence(N) /\ Sequence(s) /\ Sequence(t)
      /\ Houses(M, s) /\ Houses(N, t)
  BY DEF Housed
<1>2. Sequence(M \o N) /\ Sequence(s \o t)
  BY <1>1, Concat
<1>3. Houses(M \o N, s \o t)
  BY <1>1, HousesConcat
<1> QED
  BY <1>2, <1>3 DEF Housed

\* The first n nodes are request nodes, and no other.
RequestFirst(nodes, n) ==
  /\ Sequence(nodes) /\ n <= Len(nodes)
  /\ \A k \in 1 .. Len(nodes) :
       nodes[k].class \in CHIClasses /\ (nodes[k].class = "CHI_RNF" <=> k <= n)

OtherNodes(nodes) ==
  /\ Sequence(nodes)
  /\ \A k \in 1 .. Len(nodes) : nodes[k].class \in CHIClasses \ {"CHI_RNF"}

LEMMA RequestFirstConcat ==
  ASSUME NEW n \in Nat, NEW M, NEW N, RequestFirst(M, n), OtherNodes(N)
  PROVE  RequestFirst(M \o N, n)
<1> DEFINE a == Len(M)
           b == Len(N)
           K == M \o N
<1>1. /\ Sequence(M) /\ Sequence(N) /\ n <= a
      /\ \A k \in 1 .. a : M[k].class \in CHIClasses /\ (M[k].class = "CHI_RNF" <=> k <= n)
      /\ \A k \in 1 .. b : N[k].class \in CHIClasses /\ N[k].class # "CHI_RNF"
  BY DEF RequestFirst, OtherNodes
<1>2. /\ Sequence(K) /\ Len(K) = a + b /\ a \in Nat /\ b \in Nat
      /\ \A k \in 1 .. a : K[k] = M[k]
      /\ \A k \in 1 .. b : K[a + k] = N[k]
  BY <1>1, Concat, SequenceFacts
<1> HIDE DEF a, b, K
<1>3. ASSUME NEW k \in 1 .. a + b
      PROVE  K[k].class \in CHIClasses /\ (K[k].class = "CHI_RNF" <=> k <= n)
  <2>1. CASE k \in 1 .. a
    <3>1. K[k] = M[k]
      BY <1>2, <2>1
    <3> QED
      BY <1>1, <2>1, <3>1
  <2>2. CASE k \notin 1 .. a
    <3>1. k - a \in 1 .. b /\ k = a + (k - a) /\ ~(k <= n)
      BY <1>1, <1>2, <2>2
    <3>2. K[a + (k - a)] = N[k - a]
      BY <1>2, <3>1
    <3>3. K[k] = N[k - a]
      BY <3>1, <3>2
    <3> QED
      BY <1>1, <3>1, <3>3
  <2> QED
    BY <2>1, <2>2
<1>4. n <= a + b
  BY <1>1, <1>2
<1>5. RequestFirst(K, n)
  BY <1>2, <1>3, <1>4 DEF RequestFirst
<1> QED
  BY <1>5 DEF K

LEMMA RangeOfThree ==
  \A c : Sequence(c) /\ Len(c) = 3 => Range(c) = {c[j + 1] : j \in 0 .. 2}
<1> TAKE c
<1> HAVE Sequence(c) /\ Len(c) = 3
<1>1. DOMAIN c = 1 .. 3
  BY SequenceFacts
<1>2. \A j \in 0 .. 2 : j + 1 \in DOMAIN c
  BY <1>1
<1>3. \A k \in DOMAIN c : k - 1 \in 0 .. 2 /\ k = (k - 1) + 1
  BY <1>1
<1> QED
  BY <1>2, <1>3 DEF Range

\* The parts of CHI's nodes and of their controllers.
RNFNodes(o)  == [k \in 1 .. o.num_cpus |-> CHI_RNF(o, k - 1)]
RNFCntrls(o) ==
  [p \in 1 .. o.num_cpus * 3 |-> CHI_RNF(o, (p - 1) \div 3).cntrls[((p - 1) % 3) + 1]]
HNFNodes(o)  == [k \in 1 .. o.num_l3caches |-> CHI_HNF(o, k - 1)]
HNFCntrls(o) == [k \in 1 .. o.num_l3caches |-> CHI_HNF(o, k - 1).cntrls[1]]
SNFNodes(o)  == [k \in 1 .. Len(Memory_Controllers(o)) |-> CHI_SNF(o, k - 1)]
SNFCntrls(o) == [k \in 1 .. Len(Memory_Controllers(o)) |-> CHI_SNF(o, k - 1).cntrls[1]]
RNINodes(o)  == [k \in 1 .. Len(RNIsOf(o)) |-> CHI_RNI(o, k - 1)]
RNICntrls(o) == [k \in 1 .. Len(RNIsOf(o)) |-> CHI_RNI(o, k - 1).cntrls[1]]

LEMMA RequestHouse ==
  ASSUME NEW o, Typed(o)
  PROVE  /\ Housed(RNFNodes(o), RNFCntrls(o))
         /\ RequestFirst(RNFNodes(o), o.num_cpus)
<1> DEFINE M == RNFNodes(o)
           s == RNFCntrls(o)
           n == o.num_cpus
           l == n * 3
           L1(i, k) == [L1sOf(o)[2 * i + k] EXCEPT
                          !.downstream = Names(PrivateL2s(o, L1sOf(o)[2 * i + k]))]
           f == [p \in 1 .. l |-> (p - 1) \div 3 + 1]
           of(i) == CHI_RNF(o, i).cntrls
<1>2. /\ M = [k \in 1 .. n |-> CHI_RNF(o, k - 1)]
      /\ s = [p \in 1 .. l |-> of((p - 1) \div 3)[((p - 1) % 3) + 1]]
  BY DEF RNFNodes, RNFCntrls
<1> HIDE DEF M, s
<1>a. n \in Nat
  BY DEF Typed
<1>1. n \in Nat /\ l \in Nat
  BY <1>a
<1>3. \A i : CHI_RNF(o, i).class = "CHI_RNF" /\ Sequence(of(i)) /\ Len(of(i)) = 3
  <2>1. \A i : /\ CHI_RNF(o, i).class = "CHI_RNF"
               /\ of(i) = <<L1(i, 1), L1(i, 2), To(L2sOf(o)[i + 1], HNFsOf(o))>>
    BY DEF CHI_RNF, Node
  <2> HIDE DEF L1, of
  <2>2. \A x, y, z : Sequence(<<x, y, z>>) /\ Len(<<x, y, z>>) = 3
    BY DEF Sequence, Range
  <2> QED
    BY <2>1, <2>2
<1>4. \A i : Range(of(i)) = {of(i)[j + 1] : j \in 0 .. 2}
  BY <1>3, RangeOfThree
<1>5. \A p \in 1 .. l : /\ (p - 1) \div 3 \in 0 .. n - 1 /\ (p - 1) % 3 \in 0 .. 2
                        /\ f[p] \in 1 .. n /\ f[p] - 1 = (p - 1) \div 3
  BY <1>1
<1>6. ASSUME NEW i \in 0 .. n - 1, NEW j \in 0 .. 2
      PROVE  LET p == (j + i * 3) + 1
             IN  p \in 1 .. l /\ (p - 1) \div 3 = i /\ (p - 1) % 3 = j /\ f[p] = i + 1
  <2> DEFINE a == j + i * 3
  <2>1. a \in 0 .. l - 1
    BY <1>1
  <2>2. a % 3 = j /\ a \div 3 = i
    BY <1>1
  <2> HIDE DEF a
  <2>3. a + 1 \in 1 .. l /\ (a + 1) - 1 = a
    BY <1>1, <2>1
  <2> QED
    BY <2>2, <2>3 DEF a
<1> HIDE DEF of, l
<1>7. /\ DOMAIN M = 1 .. n /\ \A k \in 1 .. n : M[k].cntrls = of(k - 1) /\ M[k].class = "CHI_RNF"
      /\ M = [k \in 1 .. n |-> M[k]]
  BY <1>2, <1>3 DEF of
<1>8. DOMAIN s = 1 .. l /\ s = [p \in 1 .. l |-> s[p]]
      /\ \A p \in 1 .. l : s[p] = of((p - 1) \div 3)[((p - 1) % 3) + 1]
  BY <1>2
<1> HIDE DEF n
<1>9. Sequence(M) /\ Len(M) = n /\ Sequence(s) /\ Len(s) = l
  BY <1>1, <1>7, <1>8, SequenceOf
<1>10. f \in [1 .. l -> 1 .. n]
  BY <1>5
<1> HIDE DEF f
<1>11. ASSUME NEW p \in 1 .. l PROVE s[p] \in Range(M[f[p]].cntrls)
  <2>1. M[f[p]].cntrls = of((p - 1) \div 3)
    BY <1>5, <1>7
  <2> QED
    BY <1>4, <1>5, <1>8, <2>1
<1>12. ASSUME NEW k \in 1 .. n, NEW c \in Range(M[k].cntrls)
       PROVE  \E p \in 1 .. l : s[p] = c /\ f[p] = k
  <2>1. k - 1 \in 0 .. n - 1 /\ (k - 1) + 1 = k
    BY <1>1
  <2>2. PICK j \in 0 .. 2 : c = of(k - 1)[j + 1]
    BY <1>4, <1>7, <1>12
  <2> DEFINE p == (j + (k - 1) * 3) + 1
  <2>3. p \in 1 .. l /\ (p - 1) \div 3 = k - 1 /\ (p - 1) % 3 = j /\ f[p] = k
    BY <1>6, <2>1
  <2> HIDE DEF p
  <2>4. s[p] = c
    BY <1>8, <2>2, <2>3
  <2> QED
    BY <2>3, <2>4
<1>13. Houses(M, s)
  <2>1. f \in [DOMAIN s -> DOMAIN M]
    BY <1>7, <1>8, <1>10
  <2>2. \A p \in DOMAIN s : s[p] \in Range(M[f[p]].cntrls)
    BY <1>8, <1>11
  <2>3. \A k \in DOMAIN M : \A c \in Range(M[k].cntrls) :
          \E p \in DOMAIN s : s[p] = c /\ f[p] = k
    BY Zenon, <1>7, <1>8, <1>12
  <2> QED
    BY <2>1, <2>2, <2>3 DEF Houses
<1>14. RequestFirst(M, n)
  BY <1>1, <1>7, <1>9 DEF RequestFirst, CHIClasses
<1> QED
  BY <1>9, <1>13, <1>14 DEF Housed, n, M, s

\* The nodes of one controller each.
Singles(M, s, m) ==
  /\ DOMAIN M = 1 .. m /\ M = [k \in 1 .. m |-> M[k]]
  /\ DOMAIN s = 1 .. m /\ s = [k \in 1 .. m |-> s[k]]
  /\ \A k \in 1 .. m : /\ M[k].cntrls = <<s[k]>>
                        /\ M[k].class \in CHIClasses \ {"CHI_RNF"}

LEMMA SinglePart ==
  ASSUME NEW m \in Nat, NEW M, NEW s, Singles(M, s, m)
  PROVE  Housed(M, s) /\ OtherNodes(M)
<1>1. Sequence(M) /\ Len(M) = m /\ Sequence(s)
  BY SequenceOf DEF Singles
<1>2. Houses(M, s)
  BY SinglesHouse DEF Singles
<1> QED
  BY <1>1, <1>2 DEF Housed, OtherNodes, Singles

LEMMA HomeHouse ==
  ASSUME NEW o, Typed(o)
  PROVE  /\ Housed(HNFNodes(o), HNFCntrls(o))
         /\ OtherNodes(HNFNodes(o))
<1> DEFINE M == HNFNodes(o)
           s == HNFCntrls(o)
           m == o.num_l3caches
<1>1. m \in Nat
  BY DEF Typed
<1>2. /\ M = [k \in 1 .. m |-> CHI_HNF(o, k - 1)]
      /\ s = [k \in 1 .. m |-> CHI_HNF(o, k - 1).cntrls[1]]
  BY DEF HNFNodes, HNFCntrls
<1>3. \A h : LET x == CHI_HNF(o, h)
             IN  x.cntrls = <<x.cntrls[1]>> /\ x.class \in CHIClasses \ {"CHI_RNF"}
  BY DEF CHI_HNF, Node, CHIClasses
<1> HIDE DEF m, M, s
<1>4. /\ DOMAIN M = 1 .. m /\ M = [k \in 1 .. m |-> M[k]]
      /\ DOMAIN s = 1 .. m /\ s = [k \in 1 .. m |-> s[k]]
      /\ \A k \in 1 .. m : M[k] = CHI_HNF(o, k - 1) /\ s[k] = CHI_HNF(o, k - 1).cntrls[1]
  BY <1>2
<1>5. \A k \in 1 .. m : M[k].cntrls = <<s[k]>> /\ M[k].class \in CHIClasses \ {"CHI_RNF"}
  BY <1>3, <1>4
<1>6. Singles(M, s, m)
  BY Zenon, <1>4, <1>5 DEF Singles
<1>7. Housed(M, s) /\ OtherNodes(M)
  BY <1>1, <1>6, SinglePart
<1> QED
  BY <1>7 DEF M, s

LEMMA MemoryHouse ==
  ASSUME NEW o, Typed(o)
  PROVE  /\ Housed(SNFNodes(o), SNFCntrls(o))
         /\ OtherNodes(SNFNodes(o))
<1> DEFINE M == SNFNodes(o)
           s == SNFCntrls(o)
           m == Len(Memory_Controllers(o))
<1>1. m \in Nat
  <2>1. Len(Memory_Controllers(o)) = Memories(o)
    BY CHICaches DEF CreatedAs, Block
  <2> QED
    BY <2>1 DEF Memories, Typed
<1>2. /\ M = [k \in 1 .. m |-> CHI_SNF(o, k - 1)]
      /\ s = [k \in 1 .. m |-> CHI_SNF(o, k - 1).cntrls[1]]
  BY DEF SNFNodes, SNFCntrls
<1>3. \A h : LET x == CHI_SNF(o, h)
             IN  x.cntrls = <<x.cntrls[1]>> /\ x.class \in CHIClasses \ {"CHI_RNF"}
  BY DEF CHI_SNF, Node, CHIClasses
<1> HIDE DEF m, M, s
<1>4. /\ DOMAIN M = 1 .. m /\ M = [k \in 1 .. m |-> M[k]]
      /\ DOMAIN s = 1 .. m /\ s = [k \in 1 .. m |-> s[k]]
      /\ \A k \in 1 .. m : M[k] = CHI_SNF(o, k - 1) /\ s[k] = CHI_SNF(o, k - 1).cntrls[1]
  BY <1>2
<1>5. \A k \in 1 .. m : M[k].cntrls = <<s[k]>> /\ M[k].class \in CHIClasses \ {"CHI_RNF"}
  BY <1>3, <1>4
<1>6. Singles(M, s, m)
  BY Zenon, <1>4, <1>5 DEF Singles
<1>7. Housed(M, s) /\ OtherNodes(M)
  BY <1>1, <1>6, SinglePart
<1> QED
  BY <1>7 DEF M, s

LEMMA IOHouse ==
  ASSUME NEW o, Typed(o)
  PROVE  /\ Housed(RNINodes(o), RNICntrls(o))
         /\ OtherNodes(RNINodes(o))
<1> DEFINE M == RNINodes(o)
           s == RNICntrls(o)
           m == Len(RNIsOf(o))
<1>1. m \in Nat
  <2>1. Len(RNIsOf(o)) = RNIs(o)
    BY CHICaches DEF CreatedAs, Block
  <2> QED
    BY <2>1 DEF RNIs, Typed
<1>2. /\ M = [k \in 1 .. m |-> CHI_RNI(o, k - 1)]
      /\ s = [k \in 1 .. m |-> CHI_RNI(o, k - 1).cntrls[1]]
  BY DEF RNINodes, RNICntrls
<1>3. \A h : LET x == CHI_RNI(o, h)
             IN  x.cntrls = <<x.cntrls[1]>> /\ x.class \in CHIClasses \ {"CHI_RNF"}
  BY DEF CHI_RNI, Node, CHIClasses
<1> HIDE DEF m, M, s
<1>4. /\ DOMAIN M = 1 .. m /\ M = [k \in 1 .. m |-> M[k]]
      /\ DOMAIN s = 1 .. m /\ s = [k \in 1 .. m |-> s[k]]
      /\ \A k \in 1 .. m : M[k] = CHI_RNI(o, k - 1) /\ s[k] = CHI_RNI(o, k - 1).cntrls[1]
  BY <1>2
<1>5. \A k \in 1 .. m : M[k].cntrls = <<s[k]>> /\ M[k].class \in CHIClasses \ {"CHI_RNF"}
  BY <1>3, <1>4
<1>6. Singles(M, s, m)
  BY Zenon, <1>4, <1>5 DEF Singles
<1>7. Housed(M, s) /\ OtherNodes(M)
  BY <1>1, <1>6, SinglePart
<1> QED
  BY <1>7 DEF M, s

\* The nodes of CHI and the controllers that create_system() returns.
LEMMA CHIHouses ==
  ASSUME NEW o, Typed(o)
  PROVE  Housed(CHI_Nodes(o), network_cntrls(o)) /\ RequestFirst(CHI_Nodes(o), o.num_cpus)
<1> DEFINE RM == RNFNodes(o)
           Rs == RNFCntrls(o)
           HM == HNFNodes(o)
           Hs == HNFCntrls(o)
           MM == SNFNodes(o)
           Ms == SNFCntrls(o)
           IM == RNINodes(o)
           Is == RNICntrls(o)
<1>1. Housed(RM, Rs) /\ RequestFirst(RM, o.num_cpus)
  BY RequestHouse
<1>2. Housed(HM, Hs) /\ OtherNodes(HM)
  BY HomeHouse
<1>3. Housed(MM, Ms) /\ OtherNodes(MM)
  BY MemoryHouse
<1>4. Housed(IM, Is) /\ OtherNodes(IM)
  BY IOHouse
<1>5. CHI_Nodes(o) = RM \o HM \o MM \o IM /\ network_cntrls(o) = Rs \o Hs \o Ms \o Is
  BY DEF CHI_Nodes, network_cntrls, Each, EachOf, RNFNodes, RNFCntrls, HNFNodes, HNFCntrls,
         SNFNodes, SNFCntrls, RNINodes, RNICntrls
<1>6. o.num_cpus \in Nat
  BY DEF Typed
<1> HIDE DEF RM, Rs, HM, Hs, MM, Ms, IM, Is
<1>7. Housed(RM \o HM, Rs \o Hs) /\ RequestFirst(RM \o HM, o.num_cpus)
  BY <1>1, <1>2, <1>6, HousedConcat, RequestFirstConcat
<1>8. Housed((RM \o HM) \o MM, (Rs \o Hs) \o Ms) /\ RequestFirst((RM \o HM) \o MM, o.num_cpus)
  BY <1>3, <1>6, <1>7, HousedConcat, RequestFirstConcat
<1>9. /\ Housed(((RM \o HM) \o MM) \o IM, ((Rs \o Hs) \o Ms) \o Is)
      /\ RequestFirst(((RM \o HM) \o MM) \o IM, o.num_cpus)
  BY <1>4, <1>6, <1>8, HousedConcat, RequestFirstConcat
<1> QED
  BY <1>5, <1>9

\* A controller hangs off the router of its node, whichever the node's router is.
NodeLinks(nodes, r) ==
  UNION {{Ext(c, r[k]) : c \in Range(nodes[k].cntrls)} : k \in DOMAIN nodes}

LEMMA NodesHang ==
  ASSUME NEW nodes, NEW s, Housed(nodes, s), Distinct(s), NEW r, NEW N,
         N.ext = NodeLinks(nodes, r)
  PROVE  Hangs(N, Range(s))
<1>1. PICK f \in [DOMAIN s -> DOMAIN nodes] :
        /\ \A p \in DOMAIN s : s[p] \in Range(nodes[f[p]].cntrls)
        /\ \A k \in DOMAIN nodes : \A c \in Range(nodes[k].cntrls) :
             \E p \in DOMAIN s : s[p] = c /\ f[p] = k
  BY DEF Housed, Houses
<1>2. /\ \A p \in DOMAIN s : s[p] \in Range(s)
      /\ \A c \in Range(s) : \E p \in DOMAIN s : c = s[p]
  BY DEF Range
<1>3. /\ \A l \in N.ext : \E k \in DOMAIN nodes : \E c \in Range(nodes[k].cntrls) :
           l.node = c /\ l.router = r[k]
      /\ \A k \in DOMAIN nodes : \A c \in Range(nodes[k].cntrls) : \E l \in N.ext : l.node = c
  <2>1. ASSUME NEW k \in DOMAIN nodes, NEW c \in Range(nodes[k].cntrls)
        PROVE  \E l \in N.ext : l.node = c
    <3>1. Ext(c, r[k]) \in N.ext
      BY DEF NodeLinks
    <3> QED
      BY <3>1, ExtFields
  <2>2. ASSUME NEW l \in N.ext
        PROVE  \E k \in DOMAIN nodes : \E c \in Range(nodes[k].cntrls) :
                 l.node = c /\ l.router = r[k]
    <3>1. PICK k \in DOMAIN nodes : l \in {Ext(c, r[k]) : c \in Range(nodes[k].cntrls)}
      BY DEF NodeLinks
    <3>2. PICK c \in Range(nodes[k].cntrls) : l = Ext(c, r[k])
      BY <3>1
    <3> QED
      BY <3>2, ExtFields
  <2> QED
    BY <2>1, <2>2
<1>4. \A l \in N.ext : \E p \in DOMAIN s : l.node = s[p] /\ l.router = r[f[p]]
  <2> TAKE l \in N.ext
  <2>1. PICK k \in DOMAIN nodes : \E c \in Range(nodes[k].cntrls) : l.node = c /\ l.router = r[k]
    BY <1>3
  <2>2. PICK c \in Range(nodes[k].cntrls) : l.node = c /\ l.router = r[k]
    BY <2>1
  <2>3. PICK p \in DOMAIN s : s[p] = c /\ f[p] = k
    BY <1>1
  <2> QED
    BY <2>2, <2>3
<1>5. \A c \in Range(s) : \E l \in N.ext : l.node = c
  <2> TAKE c \in Range(s)
  <2>1. PICK p \in DOMAIN s : c = s[p]
    BY <1>2
  <2>2. f[p] \in DOMAIN nodes /\ c \in Range(nodes[f[p]].cntrls)
    BY <1>1, <2>1
  <2> QED
    BY <1>3, <2>2
<1>6. \A l \in N.ext : l.node \in Range(s)
  BY <1>2, <1>4
<1>7. \A l, m \in N.ext : l.node = m.node => l.router = m.router
  BY <1>4 DEF Distinct
<1> QED
  BY <1>5, <1>6, <1>7 DEF Hangs

\* A class that fills its routers has a router of the mesh for each of its nodes.
LEMMA Distributed ==
  ASSUME NEW size \in Nat, NEW where, NEW n \in Nat, NEW turn \in 0 .. n - 1,
         where.num_nodes_per_router \in Nat,
         where.router_list \in Seq(0 .. size - 1), where.router_list # <<>>,
         \/ where.num_nodes_per_router = 0
         \/ Len(where.router_list) * where.num_nodes_per_router = n
  PROVE  DistributeNodes(where, turn) \in 0 .. size - 1
<1> DEFINE m == Len(where.router_list)
           w == where.num_nodes_per_router
<1>1. m \in Nat \ {0} /\ w \in Nat /\ turn \in Nat
  <2>1. Len(where.router_list) \in Nat /\ Len(where.router_list) # 0
    BY LenProperties, EmptySeq
  <2> QED
    BY <2>1
<1>2. \A i \in 1 .. m : where.router_list[i] \in 0 .. size - 1
  BY ElementOfSeq
<1> HIDE DEF m, w
<1>3. CASE w = 0
  <2>1. turn % m \in 0 .. m - 1
    BY <1>1, Division
  <2>2. (turn % m) + 1 \in 1 .. m
    <3> DEFINE a == turn % m
    <3>1. a \in 0 .. m - 1
      BY <2>1
    <3> HIDE DEF a
    <3>2. a + 1 \in 1 .. m
      BY <1>1, <3>1
    <3> QED
      BY <3>2 DEF a
  <2> QED
    BY <1>2, <1>3, <2>2 DEF DistributeNodes, m, w
<1>4. CASE w # 0
  <2>1. turn \in 0 .. m * w - 1
    BY <1>4 DEF m, w
  <2>2. turn \div w \in 0 .. m - 1
    BY <1>1, <1>4, <2>1, Cells
  <2>3. (turn \div w) + 1 \in 1 .. m
    <3> DEFINE a == turn \div w
    <3>1. a \in 0 .. m - 1
      BY <2>2
    <3> HIDE DEF a
    <3>2. a + 1 \in 1 .. m
      BY <1>1, <3>1
    <3> QED
      BY <3>2 DEF a
  <2> QED
    BY <1>2, <1>4, <2>3 DEF DistributeNodes, w
<1> QED
  BY <1>3, <1>4

LEMMA Turns ==
  ASSUME NEW nodes, NEW n \in Nat, RequestFirst(nodes, n)
  PROVE  /\ OfClass(nodes, "CHI_RNF") = 1 .. n
         /\ Cardinality(OfClass(nodes, "CHI_RNF")) = n
         /\ \A k \in 1 .. n : k \in DOMAIN nodes /\ Turn(nodes, k) = k - 1
         /\ \A k \in DOMAIN nodes :
              /\ nodes[k].class \in CHIClasses
              /\ Cardinality(OfClass(nodes, nodes[k].class)) \in Nat
              /\ Turn(nodes, k) \in 0 .. Cardinality(OfClass(nodes, nodes[k].class)) - 1
<1> DEFINE a == Len(nodes)
<1>1. /\ a \in Nat /\ n <= a /\ DOMAIN nodes = 1 .. a
      /\ \A k \in 1 .. a : /\ nodes[k].class \in CHIClasses
                           /\ nodes[k].class = "CHI_RNF" <=> k <= n
  BY SequenceFacts DEF RequestFirst
<1> HIDE DEF a
<1>2. OfClass(nodes, "CHI_RNF") = 1 .. n
  BY <1>1 DEF OfClass
<1>3. Cardinality(1 .. n) = n
  BY FS_Interval
<1>4. ASSUME NEW k \in 1 .. n
      PROVE  k \in DOMAIN nodes /\ Turn(nodes, k) = k - 1
  <2>1. k \in 1 .. a /\ nodes[k].class = "CHI_RNF"
    BY <1>1
  <2>2. {j \in 1 .. n : j < k} = 1 .. k - 1
    OBVIOUS
  <2>3. Cardinality(1 .. k - 1) = k - 1
    BY FS_Interval
  <2> QED
    BY <1>1, <1>2, <2>1, <2>2, <2>3 DEF Turn
<1>5. ASSUME NEW k \in 1 .. a
      PROVE  /\ Cardinality(OfClass(nodes, nodes[k].class)) \in Nat
             /\ Turn(nodes, k) \in 0 .. Cardinality(OfClass(nodes, nodes[k].class)) - 1
  <2> DEFINE S == OfClass(nodes, nodes[k].class)
             T == {j \in S : j < k}
  <2>1. S \subseteq 1 .. a /\ k \in S
    BY <1>1 DEF OfClass
  <2>2. Turn(nodes, k) = Cardinality(T)
    BY DEF Turn
  <2> HIDE DEF S
  <2>3. IsFiniteSet(1 .. a)
    BY <1>1, FS_Interval
  <2>4. IsFiniteSet(S)
    BY <2>1, <2>3, FS_Subset
  <2>5. IsFiniteSet(S \ {k}) /\ Cardinality(S \ {k}) = Cardinality(S) - 1
    BY <2>1, <2>4, FS_RemoveElement
  <2>6. T \subseteq S \ {k}
    OBVIOUS
  <2>7. IsFiniteSet(T) /\ Cardinality(T) <= Cardinality(S) - 1
    BY <2>5, <2>6, FS_Subset
  <2>8. Cardinality(T) \in Nat /\ Cardinality(S) \in Nat
    BY <2>4, <2>7, FS_CardinalityType
  <2>9. Cardinality(T) \in 0 .. Cardinality(S) - 1
    BY <2>7, <2>8
  <2> QED
    BY <2>2, <2>8, <2>9 DEF S
<1> QED
  BY <1>1, <1>2, <1>3, <1>4, <1>5

\* East or north of every router but the first there is one that comes before it.
LEMMA MeshLinksTree ==
  ASSUME NEW rows \in Nat \ {0}, NEW cols \in Nat \ {0}, NEW x \in 1 .. rows * cols - 1
  PROVE  \E y \in 0 .. rows * cols - 1 :
           y < x /\ Hop(x, y) \in MeshLinks(rows, cols) /\ Hop(y, x) \in MeshLinks(rows, cols)
<1> DEFINE size == rows * cols
           y == IF x >= cols THEN x - cols ELSE x - 1
<1>1. size \in Nat
  BY SMT
<1>2. MeshLinks(rows, cols) =
        {l \in {Hop(a, b) : a, b \in 0 .. size - 1} :
           \/ l.dst = l.src + cols \/ (l.dst = l.src + 1 /\ l.dst % cols # 0)
           \/ l.src = l.dst + cols \/ (l.src = l.dst + 1 /\ l.src % cols # 0)}
  BY DEF MeshLinks
<1> HIDE DEF size
<1>3. x \in 1 .. size - 1
  BY DEF size
<1>4. y \in 0 .. size - 1 /\ y < x /\ (x = y + cols \/ (x = y + 1 /\ x < cols))
  BY <1>1, <1>3
<1> HIDE DEF y
<1>5. x < cols => x % cols # 0
  <2> SUFFICES ASSUME x < cols PROVE x % cols # 0
    OBVIOUS
  <2>1. x \in 0 .. cols - 1 /\ x + 0 * cols = x
    BY <1>1, <1>3
  <2>2. (x + 0 * cols) % cols = x
    BY <2>1, DivisionUnique
  <2> QED
    BY <1>3, <2>1, <2>2
<1>6. \A a, b : Hop(a, b).src = a /\ Hop(a, b).dst = b
  BY DEF Hop
<1>7. x \in 0 .. size - 1
  BY <1>3
<1>8. /\ Hop(x, y) \in {Hop(a, b) : a, b \in 0 .. size - 1}
      /\ Hop(y, x) \in {Hop(a, b) : a, b \in 0 .. size - 1}
  BY <1>4, <1>7
<1>9. Hop(x, y) \in MeshLinks(rows, cols)
  BY <1>2, <1>4, <1>5, <1>6, <1>8
<1>10. Hop(y, x) \in MeshLinks(rows, cols)
  BY <1>2, <1>4, <1>5, <1>6, <1>8
<1> QED
  BY <1>4, <1>9, <1>10 DEF size

\* CHI's nodes on the mesh.
LEMMA CustomMeshComplete ==
  ASSUME NEW o, Typed(o), Distinct(network_cntrls(o)),
         ~CustomMeshFails(CHI_Nodes(o), [MeshParams EXCEPT !.pairing = o.pairing])
  PROVE  Complete(CustomMesh(CHI_Nodes(o), MeshParams), Range(network_cntrls(o)))
<1> DEFINE nodes == CHI_Nodes(o)
           s == network_cntrls(o)
           n == o.num_cpus
           rows == MeshParams.num_rows
           cols == MeshParams.num_cols
           size == rows * cols
           mesh_router(k) == DistributeNodes(MeshParams.bindings[nodes[k].class], Turn(nodes, k))
           router(k) == IF k \in OfClass(nodes, "CHI_RNF")
                          THEN size + Turn(nodes, k) ELSE mesh_router(k)
           r == [k \in DOMAIN nodes |-> router(k)]
           N == CustomMesh(nodes, MeshParams)
<1>1. Housed(nodes, s) /\ RequestFirst(nodes, n) /\ n \in Nat
  BY CHIHouses DEF Typed
<1>2. /\ rows \in Nat \ {0} /\ cols \in Nat \ {0}
      /\ \A class \in CHIClasses :
           LET where == MeshParams.bindings[class]
           IN  /\ where.num_nodes_per_router \in Nat
               /\ where.router_list \in Seq(0 .. size - 1)
               /\ where.router_list # <<>>
  BY MeshAssumption
<1>3. \A class \in CHIClasses :
        LET where == MeshParams.bindings[class]
            c     == Cardinality(OfClass(nodes, class))
        IN  \/ c = 0 \/ where.num_nodes_per_router = 0
            \/ Len(where.router_list) * where.num_nodes_per_router = c
  <2> DEFINE q == [MeshParams EXCEPT !.pairing = o.pairing]
  <2>1. q.bindings = MeshParams.bindings
    BY MeshAssumption
  <2> HIDE DEF q
  <2>2. ~CustomMeshFails(nodes, q)
    BY DEF q
  <2> QED
    BY <2>1, <2>2 DEF CustomMeshFails
<1>4. /\ OfClass(nodes, "CHI_RNF") = 1 .. n /\ Cardinality(OfClass(nodes, "CHI_RNF")) = n
      /\ \A k \in 1 .. n : k \in DOMAIN nodes /\ Turn(nodes, k) = k - 1
      /\ \A k \in DOMAIN nodes :
           /\ nodes[k].class \in CHIClasses
           /\ Cardinality(OfClass(nodes, nodes[k].class)) \in Nat
           /\ Turn(nodes, k) \in 0 .. Cardinality(OfClass(nodes, nodes[k].class)) - 1
  BY <1>1, Turns
<1>5. size \in Nat
  BY <1>2, SMT
<1>6. /\ N.routers = size + Cardinality(OfClass(nodes, "CHI_RNF"))
      /\ N.ext = UNION {{Ext(c, router(k)) : c \in Range(nodes[k].cntrls)} : k \in DOMAIN nodes}
      /\ N.int = MeshLinks(rows, cols)
                 \cup UNION {CreateRNFRouter(size + Turn(nodes, k), mesh_router(k)) :
                               k \in OfClass(nodes, "CHI_RNF")}
  BY DEF CustomMesh
<1>7. N.ext = NodeLinks(nodes, r)
  BY <1>6 DEF NodeLinks
<1> HIDE DEF N
<1>8. Hangs(N, Range(s))
  <2> HIDE DEF r, nodes, s
  <2> QED
    BY <1>1, <1>7, NodesHang DEF s
<1> HIDE DEF nodes, s, n, rows, cols, size
<1>9. ASSUME NEW k \in DOMAIN nodes
      PROVE  mesh_router(k) \in 0 .. size - 1
  <2> DEFINE where == MeshParams.bindings[nodes[k].class]
             c == Cardinality(OfClass(nodes, nodes[k].class))
             turn == Turn(nodes, k)
  <2>1. nodes[k].class \in CHIClasses /\ c \in Nat /\ turn \in 0 .. c - 1
    BY <1>4
  <2>2. /\ where.num_nodes_per_router \in Nat
        /\ where.router_list \in Seq(0 .. size - 1) /\ where.router_list # <<>>
    BY <1>2, <2>1
  <2>3. \/ c = 0 \/ where.num_nodes_per_router = 0
        \/ Len(where.router_list) * where.num_nodes_per_router = c
    BY <1>3, <2>1
  <2>4. mesh_router(k) = DistributeNodes(where, turn)
    OBVIOUS
  <2>5. c # 0
    BY <2>1
  <2> HIDE DEF where, c, turn, mesh_router
  <2>6. DistributeNodes(where, turn) \in 0 .. size - 1
    BY <1>5, <2>1, <2>2, <2>3, <2>5, Distributed
  <2> QED
    BY <2>4, <2>6
<1>10. ASSUME NEW k \in 1 .. n
       PROVE  \E y \in 0 .. size - 1 :
                Hop(size + (k - 1), y) \in N.int /\ Hop(y, size + (k - 1)) \in N.int
  <2> DEFINE y == mesh_router(k)
  <2>1. y \in 0 .. size - 1
    BY <1>4, <1>9
  <2>2. CreateRNFRouter(size + Turn(nodes, k), y) \subseteq N.int
    BY <1>4, <1>6
  <2> HIDE DEF y
  <2>3. Turn(nodes, k) = k - 1
    BY <1>4
  <2> QED
    BY <2>1, <2>2, <2>3 DEF CreateRNFRouter
<1> HIDE DEF mesh_router
<1>11. N.routers = size + n /\ N.routers \in Nat
  BY <1>1, <1>4, <1>5, <1>6
<1>12. ASSUME NEW x \in 0 .. size + n - 1, x # 0
       PROVE  \E y \in 0 .. size + n - 1 : y < x /\ Hop(x, y) \in N.int /\ Hop(y, x) \in N.int
  <2>1. CASE x < size
    <3>1. x \in 1 .. size - 1
      BY <1>1, <1>5, <1>12, <2>1
    <3>2. PICK y \in 0 .. size - 1 :
            y < x /\ Hop(x, y) \in MeshLinks(rows, cols) /\ Hop(y, x) \in MeshLinks(rows, cols)
      BY <1>2, <3>1, MeshLinksTree DEF size
    <3>3. y \in 0 .. size + n - 1 /\ Hop(x, y) \in N.int /\ Hop(y, x) \in N.int
      BY <1>1, <1>5, <1>6, <3>2
    <3> QED
      BY <3>2, <3>3
  <2>2. CASE ~(x < size)
    <3>1. (x - size) + 1 \in 1 .. n /\ size + (((x - size) + 1) - 1) = x
      BY <1>1, <1>5, <2>2
    <3>2. PICK y \in 0 .. size - 1 : Hop(x, y) \in N.int /\ Hop(y, x) \in N.int
      BY <1>10, <3>1
    <3>3. y \in 0 .. size + n - 1 /\ y < x
      BY <1>1, <1>5, <2>2, <3>2
    <3> QED
      BY <3>2, <3>3
  <2> QED
    BY <2>1, <2>2
<1>13. Tree(N)
  <2> DEFINE m == size + n - 1
  <2>1. N.routers - 1 = m
    BY <1>1, <1>5, <1>11
  <2>2. \A x \in 0 .. m : x # 0 =>
          \E y \in 0 .. m : y < x /\ Hop(x, y) \in N.int /\ Hop(y, x) \in N.int
    BY <1>12
  <2> HIDE DEF m
  <2> QED
    BY <2>1, <2>2 DEF Tree
<1>14. Joins(N)
  BY <1>11, <1>13, TreeJoins
<1> QED
  BY <1>8, <1>14 DEF Complete, N, nodes, s

\* Whatever the protocol and the topology, every controller of the system has
\* a router and every router is joined to the others.
LEMMA TopologyComplete ==
  ASSUME NEW o, Typed(o), ~Refused(o), ~TopologyFails(o)
  PROVE  Complete(create_topology(o, create_system(o).cntrls), Range(create_system(o).cntrls))
<1> DEFINE s == create_system(o).cntrls
           N == create_topology(o, s)
<1>1. Sequence(s) /\ Distinct(s)
  BY SystemMade, MadeDistinct DEF Made
<1>2. CASE o.script \in Tutorials
  <2>1. N = Pt2Pt(s)
    BY <1>2 DEF create_topology, MyNetwork
  <2> HIDE DEF s, N
  <2> QED
    BY <1>1, <2>1, Pt2PtComplete DEF s, N
<1>3. CASE o.script \notin Tutorials /\ o.protocol = "GPU_VIPER"
  <2>1. N = Cluster(ViperClusters(s))
    BY <1>3 DEF create_topology
  <2> HIDE DEF s, N
  <2> QED
    BY <2>1, ViperNetwork DEF s, N
<1>4. CASE o.script \notin Tutorials /\ o.protocol # "GPU_VIPER"
  <2>1. o.topology \in {"Crossbar", "CrossbarGarnet", "Pt2Pt", "CustomMesh"}
    BY DEF Typed
  <2>2. ASSUME o.topology = "Crossbar" PROVE Complete(N, Range(s))
    <3>1. N = Crossbar(s)
      BY <1>4, <2>2 DEF create_topology
    <3> HIDE DEF s, N
    <3> QED
      BY <1>1, <3>1, CrossbarComplete
  <2>3. ASSUME o.topology = "CrossbarGarnet" PROVE Complete(N, Range(s))
    <3>1. N = CrossbarGarnet(s)
      BY <1>4, <2>3 DEF create_topology
    <3> HIDE DEF s, N
    <3> QED
      BY <1>1, <3>1, CrossbarGarnetComplete
  <2>4. ASSUME o.topology = "Pt2Pt" PROVE Complete(N, Range(s))
    <3>1. N = Pt2Pt(s)
      BY <1>4, <2>4 DEF create_topology
    <3> HIDE DEF s, N
    <3> QED
      BY <1>1, <3>1, Pt2PtComplete
  <2>5. ASSUME o.topology = "CustomMesh" PROVE Complete(N, Range(s))
    <3>1. N = CustomMesh(CHI_Nodes(o), MeshParams)
      BY <1>4, <2>5 DEF create_topology
    <3>2. /\ o.protocol = "CHI"
          /\ ~CustomMeshFails(CHI_Nodes(o), [MeshParams EXCEPT !.pairing = o.pairing])
      BY <1>4, <2>5 DEF TopologyFails
    <3>3. s = network_cntrls(o)
      BY <3>2, CHIFacts
    <3> HIDE DEF s, N
    <3>4. Distinct(network_cntrls(o))
      BY <1>1, <3>3
    <3>5. Complete(CustomMesh(CHI_Nodes(o), MeshParams), Range(network_cntrls(o)))
      BY <3>2, <3>4, CustomMeshComplete
    <3> QED
      BY <3>1, <3>3, <3>5
  <2> QED
    BY <2>1, <2>2, <2>3, <2>4, <2>5
<1> QED
  BY <1>2, <1>3, <1>4

LEMMA NetworkComplete ==
  ASSUME Building, ~Left("topology"), ~Left("protocol")
  PROVE  Network!Complete
<1>1. /\ ~Refused(opts) /\ cntrls = create_system(opts).cntrls
      /\ ~TopologyFails(opts) /\ net = create_topology(opts, cntrls)
  BY DEF Building, MadeSystem, MadeNetwork
<1>2. Typed(opts)
  BY RunningPrepared DEF Building
<1>3. Complete(net, Range(cntrls)) /\ Made(cntrls)
  BY <1>1, <1>2, TopologyComplete, SystemMade
<1> DEFINE hangs == {[node |-> Name(l.node), router |-> l.router] : l \in net.ext}
<1>4. \A n \in Names(Range(cntrls)) : Cardinality({h \in hangs : h.node = n}) = 1
  <2> TAKE n \in Names(Range(cntrls))
  <2>1. PICK c \in Range(cntrls) : n = Name(c)
    BY DEF Names, Name
  <2>2. PICK l \in net.ext : l.node = c
    BY <1>3 DEF Complete, Hangs
  <2>3. ASSUME NEW m \in net.ext, Name(m.node) = n
        PROVE  m.router = l.router
    <3>1. m.node \in Range(cntrls)
      BY <1>3 DEF Complete, Hangs
    <3>2. m.node = c
      BY <1>3, <2>1, <2>3, <3>1, SameName DEF Name
    <3> QED
      BY <1>3, <2>2, <3>2 DEF Complete, Hangs
  <2>4. {h \in hangs : h.node = n} = {[node |-> n, router |-> l.router]}
    BY <2>1, <2>2, <2>3
  <2> QED
    BY <2>4, FS_Singleton
<1>5. Network!OneRouterEach
  BY <1>4, Zenon DEF Network!OneRouterEach, Network!Cardinality, Cardinality
<1>6. Network!Connected
  BY <1>3 DEF Network!Connected, Complete, Joins
<1> QED
  BY <1>5, <1>6 DEF Network!Complete

\* The stage of the network, in terms of what is left to do.
StageNow == IF Left("network") THEN (IF failed THEN "failed" ELSE "planned") ELSE "built"

LEMMA StageOfNetwork ==
  /\ Building => Stage = StageNow
  /\ Building' => Stage' = StageNow'
<1>1. ASSUME Building PROVE Stage = StageNow
  <2>1. RestFact(todo)
    BY <1>1, RestsFacts DEF Building
  <2> QED
    BY <2>1 DEF RestFact, Stage, StageNow, Left
<1>2. ASSUME Building' PROVE Stage' = StageNow'
  <2>1. RestFact(todo')
    BY <1>2, RestsFacts DEF Building
  <2> QED
    BY <2>1 DEF RestFact, Stage, StageNow, Left
<1> QED
  BY <1>1, <1>2

NetworkStep == [Network!Next]_(Network!network)

\* A step that fails gives the plan up, or leaves the network that is built.
LEMMA NetworkFails ==
  ASSUME Building, Building', ~failed, Fail, Left("network") \/ UNCHANGED <<cntrls, net>>
  PROVE  NetworkStep
<1>1. todo' = todo /\ failed' = TRUE
  BY DEF Fail
<1>2. Left("network")' <=> Left("network")
  BY <1>1 DEF Left
<1>3. CASE Left("network")
  <2>1. Stage = "planned" /\ Stage' = "failed"
    BY <1>1, <1>2, <1>3, StageOfNetwork DEF StageNow
  <2> QED
    BY <2>1 DEF NetworkStep, Network!Next, Network!GiveUp
<1>4. CASE ~Left("network")
  <2>1. Stage = "built" /\ Stage' = "built"
    BY <1>2, <1>4, StageOfNetwork DEF StageNow
  <2> QED
    BY <1>4, <2>1 DEF NetworkStep, Network!network
<1> QED
  BY <1>3, <1>4

\* A stage that has nothing to do with the network leaves it as it is.
LEMMA NetworkKept ==
  ASSUME Building, Building', ~failed, UNCHANGED <<failed, cntrls, net>>,
         Left("network")' <=> Left("network")
  PROVE  NetworkStep
<1>1. Stage' = Stage
  BY StageOfNetwork DEF StageNow
<1> QED
  BY <1>1 DEF NetworkStep, Network!network

LEMMA NetworkStepOK ==
  ASSUME RubyInv, [Next]_vars, RubyInv'
  PROVE  NetworkStep
<1>1. CASE UNCHANGED vars
  BY <1>1 DEF vars, NetworkStep, Network!network, Stage
<1>2. ASSUME Script PROVE NetworkStep
  <2>1. ~failed /\ todo # <<>> /\ Head(todo) = "script" /\ UNCHANGED <<cntrls, net>>
    BY <1>2 DEF Script, At
  <2>2. todo = <<"script">> /\ opts \in Commands
    <3>1. ~Building
      <4> SUFFICES ASSUME Building PROVE FALSE
        OBVIOUS
      <4>1. RestFact(todo)
        BY RestsFacts DEF Building
      <4> QED
        BY <2>1, <4>1 DEF RestFact
    <3> QED
      BY <3>1 DEF RubyInv
  <2>3. Range(todo) = {"script"}
    BY <2>2, Tuples
  <2>4. Stage = "planned"
    BY <2>1, <2>3 DEF Stage
  <2>5. CASE ScriptRefuses(opts)
    <3>1. failed' = TRUE /\ todo' = todo
      BY <1>2, <2>5 DEF Script, Fail
    <3>2. Stage' = "failed"
      BY <2>3, <3>1 DEF Stage
    <3> QED
      BY <2>4, <3>2 DEF NetworkStep, Network!Next, Network!GiveUp
  <2>6. CASE ~ScriptRefuses(opts)
    <3>1. failed' = failed /\ todo' = Stages(opts.script)
      BY <1>2, <2>6 DEF Script
    <3>2. opts.script \in Scripts
      BY <2>2, <2>6, OptionsPrepared DEF Prepared, Typed
    <3>3. todo' \in Rests(opts.script) /\ "protocol" \in Range(todo')
      BY <3>1, <3>2, StagesFacts
    <3>4. RestFact(todo')
      BY <3>3, RestsFacts
    <3>5. "network" \in Range(todo')
      BY <3>3, <3>4 DEF RestFact
    <3>6. Stage' = "planned"
      BY <2>1, <3>1, <3>5 DEF Stage
    <3> QED
      BY <2>1, <2>4, <3>6 DEF NetworkStep, Network!network
  <2> QED
    BY <2>5, <2>6
<1>3. ASSUME NEW stage, stage # "script", At(stage)
      PROVE  /\ Building /\ ~failed /\ Left(stage) /\ Building'
             /\ Done => \A t : Left(t)' <=> Left(t) /\ t # stage
             /\ stage \in {"protocol", "topology", "network"} => Left("network")
             /\ stage = "protocol" => Left("topology")
             /\ stage = "network" => ~Left("topology") /\ ~Left("protocol")
             /\ stage = "connect" => ~Left("network")
  <2>1. /\ Building /\ ~failed /\ Left(stage)
        /\ todo' = Tail(todo) => \A t : Left(t)' <=> Left(t) /\ t # stage
        /\ stage = "protocol" => Left("topology")
        /\ stage = "network" => ~Left("topology") /\ ~Left("protocol")
        /\ stage = "connect" => ~Left("network")
    BY <1>3, StageFacts
  <2>2. RestFact(todo)
    BY <2>1, RestsFacts DEF Building
  <2>3. stage \in {"protocol", "topology", "network"} => Left("network")
    BY <2>1, <2>2 DEF RestFact, Left
  <2>4. Building'
    <3>1. "script" \notin Range(todo)
      BY <2>2 DEF RestFact
    <3>2. ~Script
      BY <1>3 DEF Script, At
    <3>3. opts' = opts /\ (todo' = todo \/ todo' = Tail(todo))
      BY <3>2 DEF Next, vars, TLBs, ConfigFilesystem, CreateSystem, MakeTopology, InitNetwork,
                  Connect, Instantiate, Done, Fail
    <3>4. "script" \notin Range(todo')
      BY <1>3, <2>2, <3>1, <3>3 DEF RestFact, At
    <3>5. todo' # <<"script">>
      BY <3>4, Tuples
    <3> QED
      BY <3>5 DEF RubyInv
  <2> QED
    BY <2>1, <2>3, <2>4 DEF Done
<1>4. ASSUME TLBs PROVE NetworkStep
  <2>1. At("tlbs") /\ UNCHANGED <<cntrls, net>> /\ (Fail \/ Done)
    BY <1>4 DEF TLBs
  <2> QED
    BY <1>3, <2>1, NetworkFails, NetworkKept DEF Done
<1>5. ASSUME ConfigFilesystem PROVE NetworkStep
  <2>1. At("filesystem") /\ UNCHANGED <<cntrls, net>> /\ Done
    BY <1>5 DEF ConfigFilesystem
  <2> QED
    BY <1>3, <2>1, NetworkKept DEF Done
<1>6. ASSUME CreateSystem PROVE NetworkStep
  <2>1. At("protocol") /\ net' = net /\ (Fail \/ Done)
    BY <1>6 DEF CreateSystem
  <2>2. /\ Building /\ ~failed /\ Building' /\ Left("protocol") /\ Left("network")
        /\ Done => Left("network")'
    BY <1>3, <2>1
  <2>3. CASE Done
    <3>1. Stage = "planned" /\ Stage' = "planned"
      BY <2>2, <2>3, StageOfNetwork DEF StageNow, Done
    <3>2. cntrls = <<>>
      BY <2>2 DEF Building, MadeSystem
    <3>3. Names(Range(cntrls)) = {}
      BY <3>2, Tuples DEF Names
    <3> QED
      BY <2>1, <3>1, <3>3 DEF NetworkStep, Network!Next, Network!Add
  <2> QED
    BY <2>1, <2>2, <2>3, NetworkFails
<1>7. ASSUME MakeTopology PROVE NetworkStep
  <2>1. At("topology") /\ cntrls' = cntrls /\ (Fail \/ Done)
    BY <1>7 DEF MakeTopology
  <2>2. /\ Building /\ ~failed /\ Building' /\ Left("topology") /\ Left("network")
        /\ Done => Left("network")'
    BY <1>3, <2>1
  <2>3. CASE Done
    <3>1. Stage = "planned" /\ Stage' = "planned"
      BY <2>2, <2>3, StageOfNetwork DEF StageNow, Done
    <3>2. net = NoNetwork
      BY <2>2 DEF Building, MadeNetwork
    <3>3. net.ext = {} /\ net.int = {} /\ 0 .. net.routers - 1 = {}
      BY <3>2 DEF NoNetwork
    <3>4. {[node |-> Name(l.node), router |-> l.router] : l \in net.ext} = {}
      BY <3>3
    <3> QED
      BY <2>1, <3>1, <3>3, <3>4 DEF NetworkStep, Network!Next, Network!Add
  <2> QED
    BY <2>1, <2>2, <2>3, NetworkFails
<1>8. ASSUME InitNetwork PROVE NetworkStep
  <2>1. At("network") /\ UNCHANGED <<cntrls, net>> /\ (Fail \/ Done)
    BY <1>8 DEF InitNetwork
  <2>2. /\ Building /\ ~failed /\ Building' /\ Left("network")
        /\ ~Left("topology") /\ ~Left("protocol")
        /\ Done => ~Left("network")'
    BY <1>3, <2>1
  <2>3. CASE Done
    <3>1. Stage = "planned" /\ Stage' = "built"
      BY <2>2, <2>3, StageOfNetwork DEF StageNow
    <3>2. Network!Complete
      BY <2>2, NetworkComplete
    <3> QED
      BY <2>1, <3>1, <3>2 DEF NetworkStep, Network!Next, Network!Build
  <2> QED
    BY <2>1, <2>2, <2>3, NetworkFails
<1>9. ASSUME Connect PROVE NetworkStep
  <2>1. At("connect") /\ UNCHANGED <<cntrls, net>> /\ (Fail \/ Done)
    BY <1>9 DEF Connect
  <2> QED
    BY <1>3, <2>1, NetworkFails, NetworkKept DEF Done
<1>10. ASSUME Instantiate PROVE NetworkStep
  <2>1. todo = <<>> /\ todo' = todo /\ UNCHANGED <<cntrls, net>>
    BY <1>10 DEF Instantiate, Fail
  <2>2. Range(todo) = {}
    BY <2>1, Tuples
  <2>3. Stage = "built" /\ Stage' = "built"
    BY <2>1, <2>2 DEF Stage
  <2> QED
    BY <2>1, <2>3 DEF NetworkStep, Network!network
<1> QED
  BY <1>1, <1>2, <1>4, <1>5, <1>6, <1>7, <1>8, <1>9, <1>10 DEF Next

\* Whatever the script, the protocol and the topology, the steps of a script are
\* steps of building a network, which is built only when every controller hangs
\* off one router and every router reaches the others.
THEOREM BuildsNetworkHolds == Spec => BuildsNetwork
<1>1. Init => Network!Init
  <2> SUFFICES ASSUME Init PROVE Network!Init
    OBVIOUS
  <2>1. Range(todo) = {"script"} /\ failed = FALSE
    BY Tuples DEF Init
  <2>2. Stage = "planned"
    BY <2>1 DEF Stage
  <2>3. net.ext = {} /\ net.int = {}
    BY DEF Init, NoNetwork
  <2>4. {[node |-> Name(l.node), router |-> l.router] : l \in net.ext} = {}
    BY <2>3
  <2> QED
    BY <2>2, <2>3, <2>4 DEF Network!Init
<1>2. RubyInv /\ [Next]_vars /\ RubyInv' => [Network!Next]_(Network!network)
  BY NetworkStepOK DEF NetworkStep
<1> QED
  BY <1>1, <1>2, RubyInvariant, PTL DEF Spec, BuildsNetwork, Network!Spec
=============================================================================
