----------------------------- MODULE MeshProofs -----------------------------
(***************************************************************************)
(* The meshes and their packets, for every number of rows and columns and  *)
(* every list of controllers.                                              *)
(***************************************************************************)
EXTENDS MeshTraffic, TLAPS, FiniteSetTheorems, SequenceTheorems

-----------------------------------------------------------------------------
(* Numbers.                                                                *)

\* A set of numbers that is not empty has a least one.
LEMMA LeastNumber ==
  ASSUME NEW T, T \subseteq Nat, T # {}
  PROVE  \E x \in T : \A y \in T : x <= y
<1> DEFINE R == OpToRel(<, Nat)
<1>1. IsWellFoundedOn(R, Nat)
  BY NatLessThanWellFounded
<1>2. \A x, y \in Nat : y < x => <<y, x>> \in R
  BY DEF OpToRel
<1> HIDE DEF R
<1>3. PICK x \in T : \A y \in T : ~ (<<y, x>> \in R)
  BY <1>1, WFMin
<1>4. ASSUME NEW y \in T PROVE x <= y
  <2>1. x \in Nat /\ y \in Nat
    OBVIOUS
  <2>2. ~(y < x)
    BY <1>2, <1>3, <2>1
  <2> QED
    BY <2>1, <2>2
<1> QED
  BY <1>4

\* What has a neighbour of each of its numbers has all the numbers below n.
LEMMA Spread ==
  ASSUME NEW n \in Nat, NEW T \in SUBSET (0 .. n - 1), T # {},
         \A k \in T : k + 1 < n => k + 1 \in T,
         \A k \in T : k > 0 => k - 1 \in T
  PROVE  T = 0 .. n - 1
<1>0. T \subseteq Nat
  OBVIOUS
<1>1. PICK k \in T : \A j \in T : k <= j
  BY <1>0, LeastNumber
<1>2. k = 0
  BY <1>1
<1> DEFINE M == {j \in 0 .. n - 1 : j \notin T}
<1>3. SUFFICES ASSUME M # {} PROVE FALSE
  OBVIOUS
<1>4. M \subseteq Nat
  OBVIOUS
<1>5. PICK m \in M : \A j \in M : m <= j
  <2> HIDE DEF M
  <2> QED
    BY <1>3, <1>4, LeastNumber
<1>6. m - 1 \in T
  BY <1>1, <1>2, <1>5
<1> QED
  BY <1>5, <1>6

LEMMA Product ==
  ASSUME NEW a \in Nat, NEW b \in Nat, NEW q \in Nat, a < b, q > 0
  PROVE  a * q + q <= b * q
<1>1. (b - a - 1) * q >= 0
  BY SMT
<1>2. (b - a - 1) * q = b * q - a * q - q
  BY SMT
<1> QED
  BY <1>1, <1>2, SMT

\* A quotient and a remainder are the only ones.
LEMMA Division ==
  ASSUME NEW n \in Nat \ {0}, NEW a \in Nat
  PROVE  /\ a \div n \in Nat /\ a % n \in 0 .. n - 1
         /\ a = (a % n) + (a \div n) * n
BY SMT

LEMMA DivisionUnique ==
  ASSUME NEW n \in Nat \ {0}, NEW c \in 0 .. n - 1, NEW r \in Nat
  PROVE  (c + r * n) % n = c /\ (c + r * n) \div n = r
<1> DEFINE a == c + r * n
<1>1. a \in Nat
  BY SMT
<1> DEFINE q == a \div n
           m == a % n
<1>2. q \in Nat /\ m \in 0 .. n - 1 /\ c + r * n = m + q * n
  BY <1>1, Division
<1> HIDE DEF a, q, m
<1>3. ~(q < r)
  <2> SUFFICES ASSUME q < r PROVE FALSE
    OBVIOUS
  <2>1. q * n + n <= r * n
    BY <1>2, Product
  <2>2. q * n \in Int /\ r * n \in Int
    BY <1>2
  <2> QED
    BY <1>2, <2>1, <2>2
<1>4. ~(r < q)
  <2> SUFFICES ASSUME r < q PROVE FALSE
    OBVIOUS
  <2>1. r * n + n <= q * n
    BY <1>2, Product
  <2>2. q * n \in Int /\ r * n \in Int
    BY <1>2
  <2> QED
    BY <1>2, <2>1, <2>2
<1>5. q = r
  BY <1>2, <1>3, <1>4
<1>6. m = c
  BY <1>2, <1>5
<1> QED
  BY <1>5, <1>6 DEF a, q, m

\* The cells of m rows of n are numbered from 0 to m * n - 1.
LEMMA Cells ==
  ASSUME NEW n \in Nat \ {0}, NEW m \in Nat
  PROVE  /\ \A c \in 0 .. n - 1, r \in 0 .. m - 1 : c + r * n \in 0 .. m * n - 1
         /\ \A a \in 0 .. m * n - 1 : a \div n \in 0 .. m - 1
<1>1. m * n \in Nat
  BY SMT
<1>2. ASSUME NEW c \in 0 .. n - 1, NEW r \in 0 .. m - 1
      PROVE  c + r * n \in 0 .. m * n - 1
  <2>1. r * n + n <= m * n /\ r * n \in Nat
    BY Product, SMT
  <2> QED
    BY <1>1, <2>1
<1>3. ASSUME NEW a \in 0 .. m * n - 1, a \div n >= m PROVE FALSE
  <2>1. a \in Nat
    BY <1>1
  <2> DEFINE q == a \div n
  <2>2. q \in Nat /\ a % n \in 0 .. n - 1 /\ a = (a % n) + q * n
    BY <2>1, Division
  <2> HIDE DEF q
  <2>3. m * n <= q * n
    <3>1. CASE q = m
      BY <3>1, <1>1
    <3>2. CASE q > m
      BY <3>2, <2>2, Product, <1>1
    <3> QED
      BY <3>1, <3>2, <1>3, <2>2 DEF q
  <2> QED
    BY <1>1, <2>2, <2>3
<1>4. \A a \in 0 .. m * n - 1 : a \div n \in Nat
  BY <1>1, Division
<1> QED
  BY <1>2, <1>3, <1>4

-----------------------------------------------------------------------------
(* Where the routers are.                                                  *)

Columns == 0 .. num_columns - 1
Rows    == 0 .. num_rows - 1

ColumnOf(a) == a % num_columns
RowOf(a)    == a \div num_columns

\* A mesh that the assertions let pass.
Shaped ==
  /\ mesh \in Meshes
  /\ num_columns \in Nat \ {0} /\ num_rows \in Nat \ {0}
  /\ num_routers \in Nat \ {0}
  /\ num_routers = num_rows * num_columns

LEMMA Shape == mesh \in Meshes /\ ~Mismatch => Shaped
<1> SUFFICES ASSUME mesh \in Meshes, ~Mismatch PROVE Shaped
  OBVIOUS
<1>1. num_routers \in Nat \ {0} /\ num_rows \in Nat
  BY MeshAssumption DEF num_routers, num_rows
<1>2. num_rows # 0 /\ num_columns * num_rows = num_routers
  BY DEF Mismatch
<1>3. num_columns \in Nat
  BY <1>1, <1>2, Division DEF num_columns
<1>4. num_columns # 0
  BY <1>1, <1>2, SMT
<1>5. num_rows * num_columns = num_columns * num_rows
  BY <1>1, <1>3, SMT
<1> QED
  BY <1>1, <1>2, <1>3, <1>4, <1>5 DEF Shaped

LEMMA Coordinates ==
  ASSUME Shaped
  PROVE  /\ \A a \in Routers :
              /\ ColumnOf(a) \in Columns /\ RowOf(a) \in Rows
              /\ Router(ColumnOf(a), RowOf(a)) = a
         /\ \A c \in Columns, r \in Rows :
              /\ Router(c, r) \in Routers
              /\ ColumnOf(Router(c, r)) = c /\ RowOf(Router(c, r)) = r
<1> DEFINE n == num_columns
           m == num_rows
<1>1. n \in Nat \ {0} /\ m \in Nat /\ Routers = 0 .. m * n - 1
  BY DEF Shaped, Routers
<1>2. Columns = 0 .. n - 1 /\ Rows = 0 .. m - 1
  BY DEF Columns, Rows
<1>3. \A a \in Routers : a \in Nat
  BY DEF Routers, Shaped
<1>4. /\ \A c, r : Router(c, r) = c + r * n
      /\ \A a : ColumnOf(a) = a % n /\ RowOf(a) = a \div n
  BY DEF Router, ColumnOf, RowOf
<1> HIDE DEF n, m
<1>5. ASSUME NEW a \in Routers
      PROVE  a % n \in 0 .. n - 1 /\ a \div n \in 0 .. m - 1 /\ (a % n) + (a \div n) * n = a
  BY <1>1, <1>3, Division, Cells
<1>6. ASSUME NEW c \in 0 .. n - 1, NEW r \in 0 .. m - 1
      PROVE  /\ c + r * n \in Routers
             /\ (c + r * n) % n = c /\ (c + r * n) \div n = r
  BY <1>1, Cells, DivisionUnique
<1> QED
  BY <1>2, <1>4, <1>5, <1>6

\* Every loop over the mesh visits every place once.
LEMMA Visits ==
  ASSUME Shaped, NEW d \in Directions
  PROVE  /\ \A p \in Routers : Column(d, p) \in Columns /\ Row(d, p) \in Rows
         /\ \A c \in Columns, r \in Rows :
              \E p \in Routers : Column(d, p) = c /\ Row(d, p) = r
         /\ \A p, q \in Routers :
              Column(d, p) = Column(d, q) /\ Row(d, p) = Row(d, q) => p = q
<1>1. CASE d \in {"East", "West"}
  <2>1. \A p : Column(d, p) = ColumnOf(p) /\ Row(d, p) = RowOf(p)
    BY <1>1 DEF Column, Row, ColumnOf, RowOf
  <2> QED
    BY <2>1, Coordinates
<1>2. CASE d \in {"North", "South"}
  <2> DEFINE n == num_columns
             m == num_rows
  <2>1. \A p : Column(d, p) = p \div m /\ Row(d, p) = p % m
    BY <1>2 DEF Column, Row
  <2>2. /\ n \in Nat \ {0} /\ m \in Nat \ {0} /\ Routers = 0 .. n * m - 1
        /\ Columns = 0 .. n - 1 /\ Rows = 0 .. m - 1
        /\ \A p \in Routers : p \in Nat
    <3>1. num_routers = num_rows * num_columns
      BY DEF Shaped
    <3>2. n \in Nat \ {0} /\ m \in Nat \ {0} /\ num_routers \in Nat
      BY DEF Shaped
    <3>3. num_rows * num_columns = num_columns * num_rows
      BY <3>2, SMT
    <3> QED
      BY <3>1, <3>2, <3>3 DEF Routers, Columns, Rows
  <2> HIDE DEF n, m
  <2>3. ASSUME NEW p \in Routers
        PROVE  p % m \in Rows /\ p \div m \in Columns /\ (p % m) + (p \div m) * m = p
    BY <2>2, Division, Cells
  <2>4. ASSUME NEW c \in 0 .. n - 1, NEW r \in 0 .. m - 1
        PROVE  /\ r + c * m \in Routers
               /\ (r + c * m) % m = r /\ (r + c * m) \div m = c
    <3>1. c \in Nat
      BY <2>2
    <3>2. r + c * m \in Routers
      BY <2>2, Cells
    <3> QED
      BY <2>2, <3>1, <3>2, DivisionUnique
  <2>5. \A p, q \in Routers : p \div m = q \div m /\ p % m = q % m => p = q
    BY <2>3
  <2> QED
    <3>1. \A p \in Routers : Column(d, p) \in Columns /\ Row(d, p) \in Rows
      BY <2>1, <2>3
    <3>2. ASSUME NEW c \in Columns, NEW r \in Rows
          PROVE  \E p \in Routers : Column(d, p) = c /\ Row(d, p) = r
      <4>1. Column(d, r + c * m) = c /\ Row(d, r + c * m) = r
        BY <2>1, <2>2, <2>4
      <4> QED
        BY <2>2, <2>4, <4>1
    <3> QED
      BY <2>1, <2>5, <3>1, <3>2
<1> QED
  BY <1>1, <1>2 DEF Directions

-----------------------------------------------------------------------------
(* Where the links are.  Beside(d, a, b): the router b is the next one from *)
(* a in the direction d.                                                   *)

Beside(d, a, b) ==
  \/ /\ d \in {"East", "West"}
     /\ RowOf(b) = RowOf(a)
     /\ ColumnOf(b) = ColumnOf(a) + IF d = "East" THEN 1 ELSE -1
  \/ /\ d \in {"North", "South"}
     /\ ColumnOf(b) = ColumnOf(a)
     /\ RowOf(b) = RowOf(a) + IF d = "North" THEN 1 ELSE -1

\* Where the link made in a place leads from and to.
SrcOf(d, p) == IF d \in {"East", "North"} THEN Near(d, p) ELSE Far(d, p)
DstOf(d, p) == IF d \in {"East", "North"} THEN Far(d, p) ELSE Near(d, p)

\* The places at the two ends of a link, by column and row.
LEMMA LinkEnds ==
  ASSUME Shaped, NEW d \in Directions, NEW p \in Routers, HasNeighbour(d, p)
  PROVE  /\ Near(d, p) \in Routers /\ Far(d, p) \in Routers
         /\ ColumnOf(Near(d, p)) = Column(d, p) /\ RowOf(Near(d, p)) = Row(d, p)
         /\ ColumnOf(Far(d, p))
              = IF d \in {"East", "West"} THEN Column(d, p) + 1 ELSE Column(d, p)
         /\ RowOf(Far(d, p))
              = IF d \in {"East", "West"} THEN Row(d, p) ELSE Row(d, p) + 1
<1>1. Column(d, p) \in Columns /\ Row(d, p) \in Rows
  BY Visits
<1>2. num_columns \in Nat /\ num_rows \in Nat
  BY DEF Shaped
<1>3. CASE d \in {"East", "West"}
  <2>1. Column(d, p) + 1 \in Columns
    BY <1>1, <1>2, <1>3 DEF HasNeighbour, Columns
  <2> QED
    BY <1>1, <1>3, <2>1, Coordinates DEF Near, Far
<1>4. CASE d \notin {"East", "West"}
  <2>1. Row(d, p) + 1 \in Rows
    BY <1>1, <1>2, <1>4 DEF HasNeighbour, Rows
  <2> QED
    BY <1>1, <1>4, <2>1, Coordinates DEF Near, Far
<1> QED
  BY <1>3, <1>4

LEMMA LinkBeside ==
  ASSUME Shaped, NEW d \in Directions, NEW p \in Routers, HasNeighbour(d, p)
  PROVE  /\ SrcOf(d, p) \in Routers /\ DstOf(d, p) \in Routers
         /\ Beside(d, SrcOf(d, p), DstOf(d, p))
<1>1. Column(d, p) \in Int /\ Row(d, p) \in Int
  BY Visits DEF Columns, Rows, Shaped
<1> QED
  BY <1>1, LinkEnds DEF SrcOf, DstOf, Beside, Directions

\* Between routers next to each other a link is made, in one place only.
LEMMA LinkMade ==
  ASSUME Shaped, NEW d \in Directions, NEW a \in Routers, NEW b \in Routers,
         Beside(d, a, b)
  PROVE  \E p \in Routers :
           HasNeighbour(d, p) /\ SrcOf(d, p) = a /\ DstOf(d, p) = b
<1>1. /\ ColumnOf(a) \in Columns /\ RowOf(a) \in Rows
      /\ ColumnOf(b) \in Columns /\ RowOf(b) \in Rows
      /\ Router(ColumnOf(a), RowOf(a)) = a /\ Router(ColumnOf(b), RowOf(b)) = b
  BY Coordinates
<1>2. num_columns \in Nat /\ num_rows \in Nat
  BY DEF Shaped
<1>3. CASE d \in {"East", "North"}
  <2>1. PICK p \in Routers : Column(d, p) = ColumnOf(a) /\ Row(d, p) = RowOf(a)
    BY <1>1, Visits
  <2>2. HasNeighbour(d, p)
    BY <1>1, <1>2, <1>3, <2>1 DEF HasNeighbour, Beside, Columns, Rows
  <2>3. Near(d, p) = a
    BY <1>1, <2>1 DEF Near
  <2>4. Far(d, p) = b
    BY <1>1, <1>3, <2>1 DEF Far, Beside
  <2> QED
    BY <1>3, <2>2, <2>3, <2>4 DEF SrcOf, DstOf
<1>4. CASE d \in {"West", "South"}
  <2>1. PICK p \in Routers : Column(d, p) = ColumnOf(b) /\ Row(d, p) = RowOf(b)
    BY <1>1, Visits
  <2>0. IF d = "West" THEN RowOf(a) = RowOf(b) /\ ColumnOf(a) = ColumnOf(b) + 1
                      ELSE ColumnOf(a) = ColumnOf(b) /\ RowOf(a) = RowOf(b) + 1
    BY <1>1, <1>2, <1>4 DEF Beside, Columns, Rows
  <2>2. HasNeighbour(d, p)
    BY <1>1, <1>2, <1>4, <2>0, <2>1 DEF HasNeighbour, Columns, Rows
  <2>3. Near(d, p) = b
    BY <1>1, <2>1 DEF Near
  <2>4. Far(d, p) = a
    BY <1>1, <1>4, <2>0, <2>1 DEF Far
  <2> QED
    BY <1>4, <2>2, <2>3, <2>4 DEF SrcOf, DstOf
<1> QED
  BY <1>3, <1>4 DEF Directions

LEMMA LinkMadeOnce ==
  ASSUME Shaped, NEW d \in Directions, NEW p \in Routers, NEW q \in Routers,
         HasNeighbour(d, p), HasNeighbour(d, q),
         SrcOf(d, p) = SrcOf(d, q), DstOf(d, p) = DstOf(d, q)
  PROVE  p = q
<1>1. Near(d, p) = Near(d, q)
  BY DEF SrcOf, DstOf
<1>2. Column(d, p) = Column(d, q) /\ Row(d, p) = Row(d, q)
  BY <1>1, LinkEnds
<1> QED
  BY <1>2, Visits

LEMMA OneDirection ==
  ASSUME Shaped, NEW d \in Directions, NEW e \in Directions,
         NEW a \in Routers, NEW b \in Routers, Beside(d, a, b), Beside(e, a, b)
  PROVE  d = e
<1>1. /\ ColumnOf(a) \in Int /\ RowOf(a) \in Int
      /\ ColumnOf(b) \in Int /\ RowOf(b) \in Int
  BY Coordinates DEF Columns, Rows, Shaped
<1> QED
  BY <1>1 DEF Beside, Directions

LEMMA AdjacentIsBeside ==
  ASSUME Shaped, NEW a \in Routers, NEW b \in Routers
  PROVE  (a # b /\ Adjacent(a, b)) <=> \E d \in Directions : Beside(d, a, b)
<1> DEFINE n == num_columns
           ca == ColumnOf(a)
           ra == RowOf(a)
           cb == ColumnOf(b)
           rb == RowOf(b)
<1>1. /\ ca \in 0 .. n - 1 /\ ra \in Nat /\ cb \in 0 .. n - 1 /\ rb \in Nat
      /\ a = ca + ra * n /\ b = cb + rb * n
      /\ n \in Nat \ {0}
  BY Coordinates DEF Columns, Rows, Shaped, Router
<1>2. a - b \in {1, -1} /\ ra = rb => cb = ca + 1 \/ cb = ca - 1
  <2> HIDE DEF n, ca, ra, cb, rb
  <2> SUFFICES ASSUME a - b \in {1, -1}, ra = rb PROVE cb = ca + 1 \/ cb = ca - 1
    OBVIOUS
  <2>1. a = ca + rb * n /\ rb * n \in Int
    BY <1>1
  <2> QED
    BY <1>1, <2>1
<1>3. (cb = ca + 1 \/ cb = ca - 1) /\ ra = rb => a - b \in {1, -1}
  <2> HIDE DEF n, ca, ra, cb, rb
  <2> SUFFICES ASSUME cb = ca + 1 \/ cb = ca - 1, ra = rb PROVE a - b \in {1, -1}
    OBVIOUS
  <2>1. a = ca + rb * n /\ rb * n \in Int
    BY <1>1
  <2> QED
    BY <1>1, <2>1
<1>4. a - b \in {n, -n} => ca = cb /\ (rb = ra + 1 \/ rb = ra - 1)
  <2>1. CASE a - b = n
    <3>1. a = cb + (rb + 1) * n
      <4> HIDE DEF n, ca, ra, cb, rb
      <4> QED
        BY <1>1, <2>1, SMT
    <3>2. a % n = cb /\ a \div n = rb + 1
      <4> HIDE DEF n, ca, ra, cb, rb
      <4> DEFINE r == rb + 1
      <4>1. r \in Nat /\ a = cb + r * n
        BY <1>1, <3>1
      <4> HIDE DEF r
      <4>2. (cb + r * n) % n = cb /\ (cb + r * n) \div n = r
        BY <1>1, <4>1, DivisionUnique
      <4> QED
        BY <4>1, <4>2 DEF r
    <3> QED
      BY <1>1, <3>2 DEF ColumnOf, RowOf
  <2>2. CASE a - b = -n
    <3>1. b = ca + (ra + 1) * n
      <4> HIDE DEF n, ca, ra, cb, rb
      <4> QED
        BY <1>1, <2>2, SMT
    <3>2. b % n = ca /\ b \div n = ra + 1
      <4> HIDE DEF n, ca, ra, cb, rb
      <4> DEFINE r == ra + 1
      <4>1. r \in Nat /\ b = ca + r * n
        BY <1>1, <3>1
      <4> HIDE DEF r
      <4>2. (ca + r * n) % n = ca /\ (ca + r * n) \div n = r
        BY <1>1, <4>1, DivisionUnique
      <4> QED
        BY <4>1, <4>2 DEF r
    <3> QED
      BY <1>1, <3>2 DEF ColumnOf, RowOf
  <2> QED
    BY <2>1, <2>2
<1>5. ca = cb /\ (rb = ra + 1 \/ rb = ra - 1) => a - b \in {n, -n}
  <2> HIDE DEF n, ca, ra, cb, rb
  <2>1. CASE ca = cb /\ rb = ra + 1
    <3>1. b = ca + ra * n + n /\ ra * n \in Int
      BY <1>1, <2>1, SMT
    <3> QED
      BY <1>1, <3>1
  <2>2. CASE ca = cb /\ rb = ra - 1
    <3>1. b = ca + ra * n - n /\ ra * n \in Int
      BY <1>1, <2>2, SMT
    <3> QED
      BY <1>1, <3>1
  <2> QED
    BY <2>1, <2>2
<1>6. (\E d \in Directions : Beside(d, a, b))
        <=> \/ ra = rb /\ (cb = ca + 1 \/ cb = ca - 1)
            \/ ca = cb /\ (rb = ra + 1 \/ rb = ra - 1)
  <2>1. Beside("East", a, b) <=> rb = ra /\ cb = ca + 1
    BY DEF Beside
  <2>2. Beside("West", a, b) <=> rb = ra /\ cb = ca - 1
    BY <1>1 DEF Beside
  <2>3. Beside("North", a, b) <=> cb = ca /\ rb = ra + 1
    BY DEF Beside
  <2>4. Beside("South", a, b) <=> cb = ca /\ rb = ra - 1
    BY <1>1 DEF Beside
  <2> HIDE DEF ca, ra, cb, rb
  <2> QED
    BY <2>1, <2>2, <2>3, <2>4 DEF Directions
<1>7. Adjacent(a, b) <=> (ra = rb /\ a - b \in {1, -1}) \/ a - b \in {n, -n}
  BY DEF Adjacent, RowOf
<1>8. a - b \in {1, -1} \/ a - b \in {n, -n} => a # b
  <2> HIDE DEF n, ca, ra, cb, rb
  <2> a \in Int /\ b \in Int
    BY DEF Routers, Shaped
  <2> QED
    BY <1>1
<1> HIDE DEF n, ca, ra, cb, rb
<1> QED
  BY <1>2, <1>3, <1>4, <1>5, <1>6, <1>7, <1>8

-----------------------------------------------------------------------------
(* The order in which the controllers are attached.                        *)

\* The list s has every element of S, and each once.
Lists(s, S) ==
  /\ s \in Seq(S)
  /\ \A x \in S : \E k \in 1 .. Len(s) : s[k] = x
  /\ \A k, l \in 1 .. Len(s) : s[k] = s[l] => k = l

OfTypes(m, types) == {i \in 1 .. Len(m.nodes) : m.nodes[i] \in types}

LEMMA IndicesList ==
  ASSUME NEW m \in Meshes, NEW types
  PROVE  Lists(Indices(m, types), OfTypes(m, types))
<1> DEFINE S == {i \in 1 .. Len(m.nodes) : m.nodes[i] \in types}
           n == Cardinality(S)
           UpTo(i) == {j \in S : j <= i}
           rank == [i \in S |-> Cardinality(UpTo(i))]
           list == [k \in 1 .. n |-> CHOOSE i \in S : Cardinality(UpTo(i)) = k]
<1>1. Len(m.nodes) \in Nat
  BY MeshAssumption
<1>2. IsFiniteSet(S) /\ n \in Nat /\ \A i \in S : i \in Nat
  <2>1. IsFiniteSet(1 .. Len(m.nodes))
    BY <1>1, FS_Interval
  <2>2. S \subseteq 1 .. Len(m.nodes)
    OBVIOUS
  <2> HIDE DEF S
  <2>3. IsFiniteSet(S) /\ n \in Nat
    BY <2>1, <2>2, FS_Subset, FS_CardinalityType
  <2> QED
    BY <1>1, <2>2, <2>3
<1>3. Indices(m, types) = list
  BY DEF Indices
<1> HIDE DEF S
<1>4. ASSUME NEW i \in S
      PROVE  /\ IsFiniteSet(UpTo(i)) /\ UpTo(i) \subseteq S /\ i \in UpTo(i)
             /\ Cardinality(UpTo(i)) \in 1 .. n
  <2>1. UpTo(i) \subseteq S /\ i \in UpTo(i)
    BY <1>2
  <2> HIDE DEF UpTo
  <2>2. IsFiniteSet(UpTo(i)) /\ Cardinality(UpTo(i)) <= n
    BY <1>2, <2>1, FS_Subset
  <2>3. Cardinality(UpTo(i)) \in Nat /\ Cardinality(UpTo(i)) # 0
    BY <2>1, <2>2, FS_CardinalityType, FS_EmptySet
  <2> QED
    BY <1>2, <2>1, <2>2, <2>3
<1>5. ASSUME NEW i \in S, NEW j \in S, i < j
      PROVE  Cardinality(UpTo(i)) # Cardinality(UpTo(j))
  <2>1. UpTo(i) \subseteq UpTo(j) /\ j \notin UpTo(i)
    BY <1>2, <1>5
  <2>2. IsFiniteSet(UpTo(j)) /\ j \in UpTo(j)
    BY <1>4
  <2> HIDE DEF UpTo
  <2> QED
    BY <2>1, <2>2, FS_Subset
<1>6. rank \in Injection(S, 1 .. n)
  <2>1. rank \in [S -> 1 .. n]
    BY <1>4
  <2>2. ASSUME NEW i \in S, NEW j \in S, rank[i] = rank[j] PROVE i = j
    <3>1. ~(i < j) /\ ~(j < i)
      BY <1>5, <2>2
    <3> QED
      BY <1>2, <3>1
  <2> HIDE DEF rank, n
  <2> QED
    BY <2>1, <2>2 DEF Injection, IsInjective
<1>7. rank \in Surjection(S, 1 .. n)
  <2>1. IsFiniteSet(1 .. n) /\ Cardinality(1 .. n) = n
    <3>1. 1 \in Int /\ n \in Int /\ n >= 0
      BY <1>2
    <3> HIDE DEF n
    <3>2. IsFiniteSet(1 .. n) /\ Cardinality(1 .. n) = IF 1 > n THEN 0 ELSE n - 1 + 1
      BY <3>1, FS_Interval
    <3> QED
      BY <3>1, <3>2
  <2> HIDE DEF rank
  <2> QED
    BY <1>2, <1>6, <2>1, FS_Injection
<1>8. \A k \in 1 .. n : \E i \in S : Cardinality(UpTo(i)) = k
  BY <1>7 DEF Surjection
<1>9. \A k \in 1 .. n : list[k] \in S /\ Cardinality(UpTo(list[k])) = k
  <2> HIDE DEF UpTo, n
  <2> QED
    BY <1>8
<1>10. list \in Seq(S) /\ Len(list) = n
  <2>1. \A k \in 1 .. n : list[k] \in S
    BY <1>9
  <2> HIDE DEF n, UpTo
  <2> QED
    BY <1>2, <2>1
<1>11. \A i \in S : \E k \in 1 .. n : list[k] = i
  <2> SUFFICES ASSUME NEW i \in S PROVE \E k \in 1 .. n : list[k] = i
    OBVIOUS
  <2>1. Cardinality(UpTo(i)) \in 1 .. n
    BY <1>4
  <2> DEFINE k == Cardinality(UpTo(i))
  <2>2. list[k] \in S /\ Cardinality(UpTo(list[k])) = k
    BY <1>9, <2>1
  <2>3. ~(list[k] < i) /\ ~(i < list[k])
    BY <1>5, <2>2
  <2>4. list[k] = i
    <3> HIDE DEF list, k
    <3> QED
      BY <1>2, <2>2, <2>3
  <2> QED
    BY <2>1, <2>4
<1>12. \A k, l \in 1 .. n : list[k] = list[l] => k = l
  <2> HIDE DEF list, n
  <2> QED
    BY <1>9
<1> HIDE DEF list, n, UpTo
<1> QED
  BY <1>3, <1>10, <1>11, <1>12 DEF S, Lists, OfTypes

LEMMA ListsJoined ==
  ASSUME NEW S, NEW T, S \cap T = {}, NEW s, NEW t, Lists(s, S), Lists(t, T)
  PROVE  Lists(s \o t, S \cup T)
<1> DEFINE U == S \cup T
           st == s \o t
<1>1. s \in Seq(S) /\ t \in Seq(T)
  BY DEF Lists
<1>2. s \in Seq(U) /\ t \in Seq(U)
  BY <1>1, SeqMonotonic, S \subseteq U, T \subseteq U
<1> HIDE DEF U
<1>3. /\ Len(s) \in Nat /\ Len(t) \in Nat
      /\ st \in Seq(U) /\ Len(st) = Len(s) + Len(t)
      /\ \A i \in 1 .. Len(s) + Len(t) :
           st[i] = IF i <= Len(s) THEN s[i] ELSE t[i - Len(s)]
  BY <1>2, LenProperties, ConcatProperties
<1> HIDE DEF st
<1>4. /\ \A i \in 1 .. Len(s) : s[i] \in S
      /\ \A i \in 1 .. Len(t) : t[i] \in T
  BY <1>1, ElementOfSeq
<1>5. ASSUME NEW x \in S \cup T PROVE \E k \in 1 .. Len(st) : st[k] = x
  <2>1. CASE x \in S
    <3>1. PICK k \in 1 .. Len(s) : s[k] = x
      BY <2>1 DEF Lists
    <3> QED
      BY <1>3, <3>1
  <2>2. CASE x \in T
    <3>1. PICK k \in 1 .. Len(t) : t[k] = x
      BY <2>2 DEF Lists
    <3>2. Len(s) + k \in 1 .. Len(st) /\ st[Len(s) + k] = x
      BY <1>3, <3>1
    <3> QED
      BY <3>2
  <2> QED
    BY <2>1, <2>2
<1>6. ASSUME NEW k \in 1 .. Len(st), NEW l \in 1 .. Len(st), st[k] = st[l]
      PROVE  k = l
  <2>1. CASE k <= Len(s) /\ l <= Len(s)
    <3>1. k \in 1 .. Len(s) /\ l \in 1 .. Len(s) /\ s[k] = s[l]
      BY <1>3, <1>6, <2>1
    <3> QED
      BY <3>1 DEF Lists
  <2>2. CASE k > Len(s) /\ l > Len(s)
    <3>1. /\ k - Len(s) \in 1 .. Len(t) /\ l - Len(s) \in 1 .. Len(t)
          /\ t[k - Len(s)] = t[l - Len(s)]
      BY <1>3, <1>6, <2>2
    <3>2. k - Len(s) = l - Len(s)
      BY <3>1 DEF Lists
    <3> QED
      BY <1>3, <3>2
  <2>3. CASE k <= Len(s) /\ l > Len(s)
    <3>1. st[k] \in S /\ st[l] \in T
      BY <1>3, <1>4, <2>3
    <3> QED
      BY <1>6, <3>1
  <2>4. CASE k > Len(s) /\ l <= Len(s)
    <3>1. st[k] \in T /\ st[l] \in S
      BY <1>3, <1>4, <2>4
    <3> QED
      BY <1>6, <3>1
  <2> QED
    BY <1>3, <2>1, <2>2, <2>3, <2>4
<1> QED
  BY <1>3, <1>5, <1>6 DEF Lists, U, st

AttachedOf(m) ==
  {i \in 1 .. Len(m.nodes) : m.class = "MeshDirCorners_XY" => m.nodes[i] # "other"}

\* Every controller of a type the topology knows is attached, and once.
LEMMA OrderList ==
  ASSUME NEW m \in Meshes
  PROVE  Lists(Order(m), AttachedOf(m))
<1>1. m.nodes \in Seq(NodeTypes) /\ \A i \in 1 .. Len(m.nodes) : m.nodes[i] \in NodeTypes
  BY MeshAssumption
<1>2. CASE m.class = "MeshDirCorners_XY"
  <2> DEFINE A == OfTypes(m, {"cache"})
             B == OfTypes(m, {"directory"})
             C == OfTypes(m, {"dma"})
             a == Indices(m, {"cache"})
             b == Indices(m, {"directory"})
             c == Indices(m, {"dma"})
  <2>1. Lists(a, A) /\ Lists(b, B) /\ Lists(c, C)
    BY IndicesList
  <2>2. A \cap B = {} /\ (A \cup B) \cap C = {}
    BY DEF OfTypes
  <2>3. (A \cup B) \cup C = AttachedOf(m)
    BY <1>1, <1>2 DEF OfTypes, AttachedOf, NodeTypes
  <2>4. Order(m) = (a \o b) \o c
    BY <1>2 DEF Order
  <2> HIDE DEF A, B, C, a, b, c
  <2>5. Lists(a \o b, A \cup B)
    BY <2>1, <2>2, ListsJoined
  <2> DEFINE ab == a \o b
             AB == A \cup B
  <2>6. Lists(ab, AB) /\ AB \cap C = {}
    BY <2>2, <2>5
  <2> HIDE DEF ab, AB
  <2>7. Lists(ab \o c, AB \cup C)
    BY <2>1, <2>6, ListsJoined
  <2> QED
    BY <2>3, <2>4, <2>7 DEF ab, AB
<1>3. CASE m.class # "MeshDirCorners_XY"
  <2>1. OfTypes(m, NodeTypes) = AttachedOf(m)
    BY <1>1, <1>3 DEF OfTypes, AttachedOf
  <2> QED
    BY <1>3, <2>1, IndicesList DEF Order
<1> QED
  BY <1>2, <1>3

-----------------------------------------------------------------------------
(* The inductive invariant of building a mesh.                             *)

TypeOK ==
  /\ mesh \in Meshes
  /\ pc \in {"check", "attach", "built", "failed"} \cup Directions
  /\ at \in Nat /\ link_count \in Nat
  /\ pc \notin {"check", "failed"} => ~Mismatch
  /\ pc \in {"check", "attach"} => int_links = {}
  /\ pc = "check" => ext_links = {} /\ at = 0
  /\ pc = "attach" => at <= Len(Order(mesh))
  /\ pc \in Directions => at <= num_routers

\* Links are numbered by link_count, but for those of DMA controllers that
\* MeshDirCorners_XY does not count.
Counted == mesh.class = "MeshDirCorners_XY" => Indices(mesh, {"dma"}) = <<>>

IdsOK ==
  /\ \A l \in int_links : l.id \in Nat /\ l.id < link_count
  /\ \A k, l \in int_links : k.id = l.id => k = l
  /\ Counted =>
       /\ \A l \in ext_links : l.id \in Nat /\ l.id < link_count
       /\ UniqueLinkIds

\* The first so many of the controllers hang off their routers.
HangOff(n) ==
  /\ \A l \in ext_links : \E k \in 1 .. n :
       l.node = Order(mesh)[k] /\ l.router = RouterOf(k)
  /\ \A k \in 1 .. n : \E l \in ext_links :
       l.node = Order(mesh)[k] /\ l.router = RouterOf(k)

ExtOK ==
  /\ pc = "attach" => HangOff(at)
  /\ pc \in Directions \cup {"built"} => HangOff(Len(Order(mesh)))

\* The loops after that of a direction, and the places it has been through.
Later(d) ==
  CASE d = "East"  -> {"West", "North", "South", "built"}
    [] d = "West"  -> {"North", "South", "built"}
    [] d = "North" -> {"South", "built"}
    [] d = "South" -> {"built"}

Visited(d, p) == pc \in Later(d) \/ (pc = d /\ p < at)

\* There is one link for each of those that has a neighbour, and no other.
IntOK ==
  pc \notin {"check", "failed"} =>
    /\ \A l \in int_links : \E d \in Directions, p \in Routers :
         /\ Visited(d, p) /\ HasNeighbour(d, p)
         /\ l.src = SrcOf(d, p) /\ l.dst = DstOf(d, p)
         /\ l.direction = d /\ l.weight = Weight(mesh.class, d)
    /\ \A d \in Directions, p \in Routers :
         Visited(d, p) /\ HasNeighbour(d, p) =>
           \E l \in int_links :
             /\ l.src = SrcOf(d, p) /\ l.dst = DstOf(d, p)
             /\ l.direction = d
    /\ \A k, l \in int_links : k.src = l.src /\ k.dst = l.dst => k = l

MeshInv == TypeOK /\ IdsOK /\ ExtOK /\ IntOK

\* No step changes the options, so the geometry stays what it is.
LEMMA MeshKept ==
  ASSUME mesh' = mesh
  PROVE  /\ (Mismatch)' = Mismatch /\ Routers' = Routers /\ num_routers' = num_routers
         /\ \A d, p : /\ HasNeighbour(d, p)' = HasNeighbour(d, p)
                      /\ SrcOf(d, p)' = SrcOf(d, p)
                      /\ DstOf(d, p)' = DstOf(d, p)
         /\ \A k : RouterOf(k)' = RouterOf(k)
         /\ Counted' = Counted
<1>1. num_routers' = num_routers /\ num_rows' = num_rows
  BY DEF num_routers, num_rows
<1>2. num_columns' = num_columns
  BY <1>1 DEF num_columns
<1>3. \A d, p : Column(d, p)' = Column(d, p) /\ Row(d, p)' = Row(d, p)
  BY <1>1, <1>2 DEF Column, Row
<1>4. \A d, p : Near(d, p)' = Near(d, p) /\ Far(d, p)' = Far(d, p)
  BY <1>2, <1>3 DEF Near, Far, Router
<1>5. \A d, p : HasNeighbour(d, p)' = HasNeighbour(d, p)
  BY <1>1, <1>2, <1>3 DEF HasNeighbour
<1>6. \A k : RouterOf(k)' = RouterOf(k)
  BY <1>1, <1>2 DEF RouterOf, IsRemainder, Remainder, Corners
<1> QED
  BY <1>1, <1>2, <1>4, <1>5, <1>6
     DEF Mismatch, Routers, SrcOf, DstOf, Counted

LEMMA BuildKeepsMesh == [Build]_topology => mesh' = mesh
BY DEF Build, Check, Attach, Join, LoopEnd, topology

LEMMA OrderLen ==
  ASSUME mesh \in Meshes
  PROVE  /\ Len(Order(mesh)) \in Nat
         /\ \A k \in 1 .. Len(Order(mesh)) : Order(mesh)[k] \in 1 .. Len(mesh.nodes)
<1>1. Order(mesh) \in Seq(AttachedOf(mesh))
  BY OrderList DEF Lists
<1> QED
  BY <1>1, LenProperties, ElementOfSeq DEF AttachedOf

LEMMA InitMesh == Init => MeshInv
<1> SUFFICES ASSUME Init PROVE MeshInv
  OBVIOUS
<1>1. TypeOK
  BY DEF Init, TypeOK, Directions
<1>2. IdsOK
  BY DEF Init, IdsOK, UniqueLinkIds, Links
<1>3. ExtOK /\ IntOK
  BY DEF Init, ExtOK, IntOK, Directions
<1> QED
  BY <1>1, <1>2, <1>3 DEF MeshInv

LEMMA NextTypes == TypeOK /\ [Build]_topology => TypeOK'
<1> SUFFICES ASSUME TypeOK, [Build]_topology PROVE TypeOK'
  OBVIOUS
<1>1. mesh' = mesh /\ Mismatch' = Mismatch /\ num_routers' = num_routers
  BY BuildKeepsMesh, MeshKept
<1>2. /\ Len(Order(mesh)) \in Nat /\ num_routers \in Nat
      /\ at \in Nat /\ link_count \in Nat /\ mesh \in Meshes
  BY OrderLen, MeshAssumption DEF TypeOK, num_routers
<1>3. CASE Check
  BY <1>1, <1>2, <1>3 DEF Check, TypeOK, Directions
<1>4. CASE Attach
  <2>1. /\ pc = "attach" /\ pc' \in {"attach", "failed"}
        /\ at < Len(Order(mesh)) /\ at' \in {at, at + 1}
        /\ link_count' \in {link_count, link_count + 1}
        /\ int_links' = int_links
    BY <1>4 DEF Attach
  <2> QED
    BY <1>1, <1>2, <2>1 DEF TypeOK, Directions
<1>5. ASSUME NEW d \in Directions, Join(d) PROVE TypeOK'
  <2>1. /\ pc = d /\ pc' = d /\ at < num_routers /\ at' = at + 1
        /\ link_count' \in {link_count, link_count + 1}
    BY <1>5 DEF Join
  <2> QED
    BY <1>1, <1>2, <2>1 DEF TypeOK, Directions
<1>6. CASE LoopEnd
  <2>1. /\ pc \in {"attach"} \cup Directions /\ pc' \in Directions \cup {"built"}
        /\ at' = 0 /\ UNCHANGED <<link_count, ext_links, int_links>>
    BY <1>6 DEF LoopEnd, After, Directions
  <2> QED
    BY <1>1, <1>2, <2>1 DEF TypeOK, Directions
<1>7. CASE UNCHANGED topology
  BY <1>1, <1>7 DEF topology, TypeOK
<1> QED
  BY <1>3, <1>4, <1>5, <1>6, <1>7 DEF Build

\* A counted controller, in particular every one of the other meshes.
LEMMA CountedNode ==
  ASSUME mesh \in Meshes, Counted, NEW k \in 1 .. Len(Order(mesh))
  PROVE  ~(mesh.class = "MeshDirCorners_XY" /\ mesh.nodes[Order(mesh)[k]] = "dma")
<1> SUFFICES ASSUME mesh.class = "MeshDirCorners_XY",
                    mesh.nodes[Order(mesh)[k]] = "dma"
             PROVE  FALSE
  OBVIOUS
<1>1. Order(mesh)[k] \in OfTypes(mesh, {"dma"})
  BY OrderLen DEF OfTypes
<1>2. Len(Indices(mesh, {"dma"})) = 0
  BY DEF Counted
<1> QED
  BY <1>1, <1>2, IndicesList DEF Lists

LEMMA NextIds == TypeOK /\ IdsOK /\ [Build]_topology => IdsOK'
<1> SUFFICES ASSUME TypeOK, IdsOK, [Build]_topology PROVE IdsOK'
  OBVIOUS
<1>1. mesh' = mesh /\ Counted' = Counted /\ mesh \in Meshes /\ link_count \in Nat
  BY BuildKeepsMesh, MeshKept DEF TypeOK
<1>2. CASE UNCHANGED <<link_count, ext_links, int_links>>
  BY <1>1, <1>2 DEF IdsOK, UniqueLinkIds, Links
<1>3. ASSUME NEW l, l.id = link_count, link_count' = link_count + 1,
             int_links' = int_links \cup {l}, ext_links' = ext_links
      PROVE  IdsOK'
  <2>1. \A m \in int_links : m.id \in Nat /\ m.id < link_count
    BY DEF IdsOK
  <2>2. \A m \in int_links' : m.id \in Nat /\ m.id < link_count'
    BY <1>1, <1>3, <2>1
  <2>3. \A j, m \in int_links' : j.id = m.id => j = m
    BY <1>1, <1>3, <2>1 DEF IdsOK
  <2>4. ASSUME Counted
        PROVE  /\ \A m \in ext_links' : m.id \in Nat /\ m.id < link_count'
               /\ UniqueLinkIds'
    <3>1. \A m \in ext_links : m.id \in Nat /\ m.id < link_count
      BY <2>4 DEF IdsOK
    <3> QED
      BY <1>1, <1>3, <2>1, <2>4, <3>1 DEF IdsOK, UniqueLinkIds, Links
  <2> QED
    BY <1>1, <2>2, <2>3, <2>4 DEF IdsOK
<1>4. CASE Attach
  <2>1. CASE link_count' = link_count /\ ext_links' = ext_links
    BY <1>2, <1>4, <2>1 DEF Attach
  <2>2. CASE ~(link_count' = link_count /\ ext_links' = ext_links)
    <3> DEFINE node == Order(mesh)[at + 1]
               l    == [id |-> link_count, node |-> node, router |-> RouterOf(at + 1)]
               dma  == mesh.class = "MeshDirCorners_XY" /\ mesh.nodes[node] = "dma"
    <3>1. /\ ext_links' = ext_links \cup {l} /\ int_links' = int_links
          /\ link_count' = IF dma THEN link_count ELSE link_count + 1
      BY <1>4, <2>2 DEF Attach
    <3>2. int_links = {} /\ at + 1 \in 1 .. Len(Order(mesh))
      BY <1>1, <1>4, OrderLen DEF TypeOK, Attach
    <3>3. Counted => ~dma
      BY <1>1, <3>2, CountedNode
    <3>4. l.id = link_count
      OBVIOUS
    <3> HIDE DEF l, dma, node
    <3>5. ASSUME Counted
          PROVE  /\ \A m \in ext_links' : m.id \in Nat /\ m.id < link_count'
                 /\ UniqueLinkIds'
      <4>1. \A m \in ext_links : m.id \in Nat /\ m.id < link_count
        BY <3>5 DEF IdsOK
      <4>2. link_count' = link_count + 1
        BY <3>1, <3>3, <3>5
      <4> QED
        BY <1>1, <3>1, <3>2, <3>4, <3>5, <4>1, <4>2 DEF IdsOK, UniqueLinkIds, Links
    <3> QED
      BY <1>1, <3>1, <3>2, <3>5 DEF IdsOK
  <2> QED
    BY <2>1, <2>2
<1>5. ASSUME NEW d \in Directions, Join(d) PROVE IdsOK'
  <2>1. CASE HasNeighbour(d, at)
    <3>1. /\ int_links' = int_links \cup {Link(d, at)}
          /\ link_count' = link_count + 1 /\ ext_links' = ext_links
      BY <1>5, <2>1 DEF Join
    <3>2. Link(d, at).id = link_count
      BY DEF Link
    <3> QED
      BY <1>3, <3>1, <3>2
  <2>2. CASE ~HasNeighbour(d, at)
    BY <1>2, <1>5, <2>2 DEF Join
  <2> QED
    BY <2>1, <2>2
<1> QED
  BY <1>2, <1>4, <1>5 DEF Build, Check, LoopEnd, topology

LEMMA NextExt == TypeOK /\ ExtOK /\ [Build]_topology => ExtOK'
<1> SUFFICES ASSUME TypeOK, ExtOK, [Build]_topology PROVE ExtOK'
  OBVIOUS
<1>1. /\ mesh' = mesh /\ mesh \in Meshes /\ at \in Nat
      /\ Len(Order(mesh)) \in Nat
      /\ \A k : RouterOf(k)' = RouterOf(k)
  BY BuildKeepsMesh, MeshKept, OrderLen DEF TypeOK
<1>2. ASSUME NEW n, HangOff(n), ext_links' = ext_links PROVE HangOff(n)'
  BY <1>1, <1>2 DEF HangOff
<1>3. CASE Check
  <2>1. ext_links' = {} /\ at' = 0 /\ pc' \in {"failed", "attach"}
    BY <1>3 DEF Check, TypeOK
  <2>2. HangOff(0)'
    BY <2>1 DEF HangOff
  <2> QED
    BY <2>1, <2>2 DEF ExtOK, Directions
<1>4. CASE Attach
  <2>1. CASE pc' = "failed"
    BY <2>1 DEF ExtOK, Directions
  <2>2. CASE pc' # "failed"
    <3> DEFINE n == at + 1
    <3>1. /\ pc = "attach" /\ pc' = "attach" /\ at' = n
          /\ ext_links' = ext_links \cup
               {[id |-> link_count, node |-> Order(mesh)[n], router |-> RouterOf(n)]}
      BY <1>4, <2>2 DEF Attach
    <3>2. HangOff(at)
      BY <3>1 DEF ExtOK
    <3>3. 1 .. n = (1 .. at) \cup {n} /\ n \in 1 .. n
      BY <1>1
    <3> DEFINE new == [id |-> link_count, node |-> Order(mesh)[n], router |-> RouterOf(n)]
    <3>4. new.node = Order(mesh)[n] /\ new.router = RouterOf(n)
      OBVIOUS
    <3> HIDE DEF n, new
    <3>5. /\ \A l \in ext_links' : \E k \in 1 .. n :
               l.node = Order(mesh)[k] /\ l.router = RouterOf(k)
          /\ \A k \in 1 .. n : \E l \in ext_links' :
               l.node = Order(mesh)[k] /\ l.router = RouterOf(k)
      BY <3>1, <3>2, <3>3, <3>4 DEF HangOff, new
    <3>6. HangOff(at)'
      BY <1>1, <3>1, <3>5 DEF HangOff
    <3> QED
      BY <3>1, <3>6 DEF ExtOK, Directions
  <2> QED
    BY <2>1, <2>2
<1>5. CASE (\E d \in Directions : Join(d)) \/ LoopEnd
  <2>1. ext_links' = ext_links
    BY <1>5 DEF Join, LoopEnd
  <2>2. pc' \in Directions \cup {"built"}
    BY <1>5 DEF Join, LoopEnd, After, Directions
  <2>3. HangOff(Len(Order(mesh)))
    BY <1>5 DEF Join, LoopEnd, ExtOK
  <2>4. HangOff(Len(Order(mesh)))'
    BY <1>1, <2>1, <2>3 DEF HangOff
  <2> QED
    BY <2>2, <2>4 DEF ExtOK, Directions
<1>6. CASE UNCHANGED topology
  <2>1. /\ pc' = pc /\ at' = at /\ ext_links' = ext_links
        /\ Order(mesh)' = Order(mesh)
    BY <1>1, <1>6 DEF topology
  <2>2. pc = "attach" => HangOff(at)'
    BY <1>1, <2>1 DEF ExtOK, HangOff
  <2>3. pc \in Directions \cup {"built"} => HangOff(Len(Order(mesh)))'
    BY <1>1, <2>1 DEF ExtOK, HangOff
  <2> QED
    BY <2>1, <2>2, <2>3 DEF ExtOK
<1> QED
  BY <1>3, <1>4, <1>5, <1>6 DEF Build

\* A link the loops have made before is not the one of the present place.
LEMMA FreshLink ==
  ASSUME TypeOK, IntOK, Shaped, pc \in Directions, at \in Routers,
         HasNeighbour(pc, at), NEW l \in int_links
  PROVE  ~(l.src = SrcOf(pc, at) /\ l.dst = DstOf(pc, at))
<1> SUFFICES ASSUME l.src = SrcOf(pc, at), l.dst = DstOf(pc, at) PROVE FALSE
  OBVIOUS
<1>1. PICK d \in Directions, p \in Routers :
        /\ Visited(d, p) /\ HasNeighbour(d, p)
        /\ l.src = SrcOf(d, p) /\ l.dst = DstOf(d, p)
  BY DEF IntOK, Directions
<1>2. /\ SrcOf(d, p) \in Routers /\ DstOf(d, p) \in Routers
      /\ Beside(d, SrcOf(d, p), DstOf(d, p))
  BY <1>1, LinkBeside
<1>3. Beside(pc, SrcOf(d, p), DstOf(d, p))
  <2> DEFINE e == pc
             q == at
  <2>1. e \in Directions /\ q \in Routers /\ HasNeighbour(e, q)
    OBVIOUS
  <2> HIDE DEF e, q
  <2>2. Beside(e, SrcOf(e, q), DstOf(e, q))
    BY <2>1, LinkBeside
  <2> QED
    BY <1>1, <2>2 DEF e, q
<1>4. d = pc
  BY <1>2, <1>3, OneDirection
<1>5. p = at
  BY <1>1, <1>4, LinkMadeOnce
<1>6. pc \notin Later(pc)
  BY DEF Later, Directions
<1> QED
  BY <1>1, <1>4, <1>5, <1>6 DEF Visited, TypeOK

LEMMA NextInt == TypeOK /\ IntOK /\ [Build]_topology => IntOK'
<1> SUFFICES ASSUME TypeOK, IntOK, [Build]_topology PROVE IntOK'
  OBVIOUS
<1>1. /\ mesh' = mesh /\ mesh \in Meshes /\ at \in Nat
      /\ Routers' = Routers /\ num_routers' = num_routers
      /\ \A d, p : /\ HasNeighbour(d, p)' = HasNeighbour(d, p)
                   /\ SrcOf(d, p)' = SrcOf(d, p)
                   /\ DstOf(d, p)' = DstOf(d, p)
  BY BuildKeepsMesh, MeshKept DEF TypeOK
<1>2. \A p \in Routers : p \in Nat /\ p < num_routers
  BY MeshAssumption DEF TypeOK, Routers, num_routers
\* What a step adds to the places visited, and to the links.
<1>3. ASSUME pc \notin {"check", "failed"}, int_links' = int_links,
             \A d \in Directions, p \in Routers :
               HasNeighbour(d, p) => (Visited(d, p)' <=> Visited(d, p))
      PROVE  IntOK'
  BY <1>1, <1>3 DEF IntOK
<1>4. CASE Check
  <2>1. int_links' = {} /\ (pc' = "failed" \/ (pc' = "attach" /\ at' = 0))
    BY <1>4 DEF Check, TypeOK
  <2>2. pc' = "attach" => \A d \in Directions, p \in Routers : ~Visited(d, p)'
    BY DEF Visited, Directions, Later
  <2> QED
    BY <1>1, <2>1, <2>2 DEF IntOK
<1>5. CASE Attach
  <2>1. pc = "attach" /\ pc' \in {"attach", "failed"} /\ int_links' = int_links
    BY <1>5 DEF Attach
  <2>2. \A d \in Directions, p \in Routers :
          ~Visited(d, p) /\ (pc' = "attach" => ~Visited(d, p)')
    BY <2>1 DEF Visited, Directions, Later
  <2> QED
    BY <1>1, <2>1, <2>2 DEF IntOK
<1>6. ASSUME NEW e \in Directions, Join(e) PROVE IntOK'
  <2>1. pc = e /\ pc' = e /\ at' = at + 1 /\ at \in Routers
    BY <1>1, <1>6, MeshAssumption DEF Join, Routers, num_routers
  <2>2. \A d \in Directions, p \in Routers :
          Visited(d, p)' <=> Visited(d, p) \/ (d = e /\ p = at)
    <3>1. \A p \in Routers : p < at + 1 <=> p < at \/ p = at
      BY <1>1, <1>2
    <3>2. e \notin Later(e)
      BY DEF Later, Directions
    <3> QED
      BY <2>1, <3>1, <3>2 DEF Visited
  <2>3. CASE ~HasNeighbour(e, at)
    <3>1. int_links' = int_links
      BY <1>6, <2>3 DEF Join
    <3> QED
      BY <1>3, <2>1, <2>2, <2>3, <3>1 DEF Directions
  <2>4. CASE HasNeighbour(e, at)
    <3> DEFINE new == Link(e, at)
    <3>1. int_links' = int_links \cup {new}
      BY <1>6, <2>4 DEF Join
    <3>2. /\ new.src = SrcOf(e, at) /\ new.dst = DstOf(e, at)
          /\ new.direction = e /\ new.weight = Weight(mesh.class, e)
      BY DEF Link, SrcOf, DstOf
    <3>3. \A l \in int_links : ~(l.src = new.src /\ l.dst = new.dst)
      <4>1. Shaped
        BY <2>1, Shape DEF TypeOK, Directions
      <4> QED
        BY <2>1, <2>4, <3>2, <4>1, FreshLink
    <3> HIDE DEF new
    <3>4. pc \notin {"check", "failed"}
      BY <2>1 DEF Directions
    <3>5. ASSUME NEW l \in int_links'
          PROVE  \E d \in Directions, p \in Routers :
                   /\ Visited(d, p)' /\ HasNeighbour(d, p)
                   /\ l.src = SrcOf(d, p) /\ l.dst = DstOf(d, p)
                   /\ l.direction = d /\ l.weight = Weight(mesh.class, d)
      <4>1. CASE l \in int_links
        BY <2>2, <3>4, <4>1 DEF IntOK
      <4>2. CASE l = new
        BY <2>1, <2>2, <2>4, <3>2, <4>2
      <4> QED
        BY <3>1, <4>1, <4>2
    <3>6. ASSUME NEW d \in Directions, NEW p \in Routers,
                 Visited(d, p)', HasNeighbour(d, p)
          PROVE  \E l \in int_links' :
                   /\ l.src = SrcOf(d, p) /\ l.dst = DstOf(d, p)
                   /\ l.direction = d
      <4>1. CASE Visited(d, p)
        BY <3>1, <3>4, <3>6, <4>1 DEF IntOK
      <4>2. CASE d = e /\ p = at
        BY <3>1, <3>2, <4>2
      <4> QED
        BY <2>2, <3>6, <4>1, <4>2
    <3>7. \A k, l \in int_links' : k.src = l.src /\ k.dst = l.dst => k = l
      BY <3>1, <3>3, <3>4 DEF IntOK
    <3> QED
      BY <1>1, <3>5, <3>6, <3>7 DEF IntOK
  <2> QED
    BY <2>3, <2>4
<1>7. CASE LoopEnd
  <2>1. /\ pc' = After(pc) /\ at' = 0 /\ int_links' = int_links
        /\ pc = "attach" \/ (pc \in Directions /\ at = num_routers)
    BY <1>7 DEF LoopEnd
  <2>2. ASSUME NEW d \in Directions, NEW p \in Routers
        PROVE  Visited(d, p)' <=> Visited(d, p)
    <3>1. CASE pc = "attach"
      BY <1>2, <2>1, <3>1 DEF Visited, After, Later, Directions
    <3>2. CASE pc \in Directions
      <4>1. p < at /\ ~(p < at')
        BY <1>2, <2>1, <3>2 DEF Directions
      <4> QED
        BY <2>1, <3>2, <4>1 DEF Visited, After, Later, Directions
    <3> QED
      BY <2>1, <3>1, <3>2
  <2> QED
    BY <1>3, <2>1, <2>2 DEF Directions
<1>8. CASE UNCHANGED topology
  BY <1>1, <1>8 DEF topology, IntOK, Visited
<1> QED
  BY <1>4, <1>5, <1>6, <1>7, <1>8 DEF Build

LEMMA NextMesh == MeshInv /\ [Build]_topology => MeshInv'
BY NextTypes, NextIds, NextExt, NextInt DEF MeshInv

LEMMA MeshInvariant == Spec => []MeshInv
BY InitMesh, NextMesh, PTL DEF Spec

-----------------------------------------------------------------------------
(* The mesh that is built.                                                 *)

\* The links lead from every router to those beside it, in every direction.
LEMMA BuiltLinks ==
  ASSUME MeshInv, pc = "built"
  PROVE  /\ Shaped
         /\ \A l \in int_links :
              /\ l.src \in Routers /\ l.dst \in Routers
              /\ l.direction \in Directions /\ Beside(l.direction, l.src, l.dst)
              /\ l.weight = Weight(mesh.class, l.direction)
         /\ \A d \in Directions, a, b \in Routers : Beside(d, a, b) =>
              \E l \in int_links : l.src = a /\ l.dst = b /\ l.direction = d
         /\ \A k, l \in int_links : k.src = l.src /\ k.dst = l.dst => k = l
<1>1. Shaped
  BY Shape DEF MeshInv, TypeOK
<1>2. \A d \in Directions : \A p : Visited(d, p)
  BY DEF Visited, Later, Directions
<1>3. ASSUME NEW l \in int_links
      PROVE  /\ l.src \in Routers /\ l.dst \in Routers
             /\ l.direction \in Directions /\ Beside(l.direction, l.src, l.dst)
             /\ l.weight = Weight(mesh.class, l.direction)
  BY <1>1, LinkBeside DEF MeshInv, IntOK
<1>4. ASSUME NEW d \in Directions, NEW a \in Routers, NEW b \in Routers, Beside(d, a, b)
      PROVE  \E l \in int_links : l.src = a /\ l.dst = b /\ l.direction = d
  <2>1. PICK p \in Routers : HasNeighbour(d, p) /\ SrcOf(d, p) = a /\ DstOf(d, p) = b
    BY <1>1, <1>4, LinkMade
  <2> QED
    BY <1>2, <2>1 DEF MeshInv, IntOK
<1> QED
  BY <1>1, <1>3, <1>4 DEF MeshInv, IntOK

LEMMA MeshJoined == MeshInv => JoinedAsMesh
<1> SUFFICES ASSUME MeshInv PROVE JoinedAsMesh
  OBVIOUS
<1>1. Counted => UniqueLinkIds
  BY DEF MeshInv, IdsOK
<1>2. ASSUME pc = "built", NEW a \in Routers, NEW b \in Routers
      PROVE  Cardinality({l \in int_links : l.src = a /\ l.dst = b})
               = IF a # b /\ Adjacent(a, b) THEN 1 ELSE 0
  <2> DEFINE S == {l \in int_links : l.src = a /\ l.dst = b}
  <2>1. CASE \E d \in Directions : Beside(d, a, b)
    <3>1. PICK l \in int_links : l.src = a /\ l.dst = b
      BY <1>2, <2>1, BuiltLinks
    <3>2. S = {l}
      BY <1>2, <3>1, BuiltLinks
    <3> HIDE DEF S
    <3>3. Cardinality(S) = 1
      BY <3>2, FS_Singleton
    <3>4. a # b /\ Adjacent(a, b)
      BY <1>2, <2>1, BuiltLinks, AdjacentIsBeside
    <3> QED
      BY <3>3, <3>4 DEF S
  <2>2. CASE ~\E d \in Directions : Beside(d, a, b)
    <3>1. S = {}
      BY <1>2, <2>2, BuiltLinks
    <3> HIDE DEF S
    <3>2. Cardinality(S) = 0
      BY <3>1, FS_EmptySet
    <3>3. ~(a # b /\ Adjacent(a, b))
      BY <1>2, <2>2, BuiltLinks, AdjacentIsBeside
    <3> QED
      BY <3>2, <3>3 DEF S
  <2> QED
    BY <2>1, <2>2
<1> QED
  BY <1>1, <1>2 DEF JoinedAsMesh, Counted

LEMMA BesideRight ==
  ASSUME Shaped, NEW c \in Columns, NEW r \in Rows
  PROVE  /\ c + 1 \in Columns => /\ Beside("East", Router(c, r), Router(c + 1, r))
                                 /\ Beside("West", Router(c + 1, r), Router(c, r))
         /\ r + 1 \in Rows => /\ Beside("North", Router(c, r), Router(c, r + 1))
                              /\ Beside("South", Router(c, r + 1), Router(c, r))
<1>1. c \in Int /\ r \in Int
  BY DEF Columns, Rows, Shaped
<1>2. ColumnOf(Router(c, r)) = c /\ RowOf(Router(c, r)) = r
  BY Coordinates
<1>3. c + 1 \in Columns =>
        ColumnOf(Router(c + 1, r)) = c + 1 /\ RowOf(Router(c + 1, r)) = r
  BY Coordinates
<1>4. r + 1 \in Rows =>
        ColumnOf(Router(c, r + 1)) = c /\ RowOf(Router(c, r + 1)) = r + 1
  BY Coordinates
<1> QED
  BY <1>1, <1>2, <1>3, <1>4 DEF Beside

\* Routers that have all their neighbours with them are all the routers.
LEMMA AllReached ==
  ASSUME Shaped, NEW S \in SUBSET Routers, S # {},
         \A d \in Directions, a \in S, b \in Routers : Beside(d, a, b) => b \in S
  PROVE  S = Routers
<1>1. /\ \A c \in Columns, r \in Rows : Router(c, r) \in Routers
      /\ \A a \in Routers : /\ ColumnOf(a) \in Columns /\ RowOf(a) \in Rows
                            /\ Router(ColumnOf(a), RowOf(a)) = a
  BY Coordinates
<1>2. num_columns \in Nat /\ num_rows \in Nat
  BY DEF Shaped
<1>3. /\ \A c \in Columns : c \in Int /\ (c + 1 < num_columns => c + 1 \in Columns)
                           /\ (c > 0 => c - 1 \in Columns /\ c = (c - 1) + 1)
      /\ \A r \in Rows : r \in Int /\ (r + 1 < num_rows => r + 1 \in Rows)
                        /\ (r > 0 => r - 1 \in Rows /\ r = (r - 1) + 1)
  BY <1>2 DEF Columns, Rows
<1>4. ASSUME NEW c \in Columns, NEW r \in Rows, Router(c, r) \in S
      PROVE  /\ c + 1 \in Columns => Router(c + 1, r) \in S
             /\ r + 1 \in Rows => Router(c, r + 1) \in S
  BY <1>1, <1>4, BesideRight DEF Directions
<1>5. ASSUME NEW c \in Columns, NEW r \in Rows
      PROVE  /\ c + 1 \in Columns /\ Router(c + 1, r) \in S => Router(c, r) \in S
             /\ r + 1 \in Rows /\ Router(c, r + 1) \in S => Router(c, r) \in S
  BY <1>1, BesideRight DEF Directions
<1>6. ASSUME NEW r \in Rows, \E c \in Columns : Router(c, r) \in S
      PROVE  \A c \in Columns : Router(c, r) \in S
  <2> DEFINE T == {c \in Columns : Router(c, r) \in S}
  <2>1. T # {} /\ T \subseteq Columns
    BY <1>6
  <2>2. \A c \in T : c + 1 < num_columns => c + 1 \in T
    BY <1>3, <1>4
  <2>3. \A c \in T : c > 0 => c - 1 \in T
    <3> SUFFICES ASSUME NEW c \in T, c > 0 PROVE c - 1 \in T
      OBVIOUS
    <3> DEFINE b == c - 1
    <3>1. b \in Columns /\ b + 1 \in Columns /\ Router(b + 1, r) \in S
      BY <1>3
    <3> HIDE DEF b
    <3>2. Router(b, r) \in S
      BY <1>5, <3>1
    <3> QED
      BY <3>1, <3>2 DEF b
  <2> HIDE DEF T
  <2>4. T = 0 .. num_columns - 1
    BY <1>2, <2>1, <2>2, <2>3, Spread DEF Columns
  <2> QED
    BY <2>4 DEF T, Columns
<1>7. ASSUME NEW c \in Columns, \E r \in Rows : Router(c, r) \in S
      PROVE  \A r \in Rows : Router(c, r) \in S
  <2> DEFINE T == {r \in Rows : Router(c, r) \in S}
  <2>1. T # {} /\ T \subseteq Rows
    BY <1>7
  <2>2. \A r \in T : r + 1 < num_rows => r + 1 \in T
    BY <1>3, <1>4
  <2>3. \A r \in T : r > 0 => r - 1 \in T
    <3> SUFFICES ASSUME NEW r \in T, r > 0 PROVE r - 1 \in T
      OBVIOUS
    <3> DEFINE b == r - 1
    <3>1. b \in Rows /\ b + 1 \in Rows /\ Router(c, b + 1) \in S
      BY <1>3
    <3> HIDE DEF b
    <3>2. Router(c, b) \in S
      BY <1>5, <3>1
    <3> QED
      BY <3>1, <3>2 DEF b
  <2> HIDE DEF T
  <2>4. T = 0 .. num_rows - 1
    BY <1>2, <2>1, <2>2, <2>3, Spread DEF Rows
  <2> QED
    BY <2>4 DEF T, Rows
<1>8. PICK a \in S : TRUE
  OBVIOUS
<1>9. \A c \in Columns : Router(c, RowOf(a)) \in S
  BY <1>1, <1>6, <1>8
<1>10. \A c \in Columns, r \in Rows : Router(c, r) \in S
  BY <1>1, <1>7, <1>8, <1>9
<1> QED
  BY <1>1, <1>10

LEMMA BuiltConnected == MeshInv /\ pc = "built" => Network!Connected
<1> DEFINE joins == {[src |-> l.src, dst |-> l.dst] : l \in int_links}
<1> SUFFICES ASSUME MeshInv, pc = "built",
                    NEW S \in SUBSET Routers, S \notin {{}, Routers},
                    ~ \E l \in joins : l.src \in S /\ l.dst \notin S
             PROVE  FALSE
  BY DEF Network!Connected
<1>1. ASSUME NEW l \in int_links, l.src \in S PROVE l.dst \in S
  <2>1. [src |-> l.src, dst |-> l.dst] \in joins
    OBVIOUS
  <2> QED
    BY <1>1, <2>1
<1>2. ASSUME NEW d \in Directions, NEW a \in S, NEW b \in Routers, Beside(d, a, b)
      PROVE  b \in S
  <2>1. PICK l \in int_links : l.src = a /\ l.dst = b
    BY <1>2, BuiltLinks
  <2> QED
    BY <1>1, <2>1
<1>3. Shaped
  BY BuiltLinks
<1> QED
  BY <1>2, <1>3, AllReached

LEMMA BuiltAttached == MeshInv /\ pc = "built" => Network!OneRouterEach
<1> DEFINE hangs == {[node |-> l.node, router |-> l.router] : l \in ext_links}
<1> SUFFICES ASSUME MeshInv, pc = "built"
             PROVE  \A n \in Attached : Cardinality({l \in hangs : l.node = n}) = 1
  BY Zenon DEF Network!OneRouterEach, Network!Cardinality, Cardinality
<1> TAKE n \in Attached
<1> DEFINE order == Order(mesh)
<1>1. HangOff(Len(order))
  BY DEF MeshInv, ExtOK
<1>2. Lists(order, Attached)
  BY OrderList DEF MeshInv, TypeOK, Attached, AttachedOf
<1> HIDE DEF order
<1>3. PICK k \in 1 .. Len(order) : order[k] = n
  BY <1>2 DEF Lists
<1>4. PICK l \in ext_links : l.node = n /\ l.router = RouterOf(k)
  BY <1>1, <1>3 DEF HangOff, order
<1>5. \A m \in ext_links : m.node = n => m.router = RouterOf(k)
  <2> SUFFICES ASSUME NEW m \in ext_links, m.node = n PROVE m.router = RouterOf(k)
    OBVIOUS
  <2>1. PICK j \in 1 .. Len(order) : m.node = order[j] /\ m.router = RouterOf(j)
    BY <1>1 DEF HangOff, order
  <2>2. j = k
    BY <1>2, <1>3, <2>1 DEF Lists
  <2> QED
    BY <2>1, <2>2
<1>6. {h \in hangs : h.node = n} = {[node |-> n, router |-> RouterOf(k)]}
  BY <1>4, <1>5
<1> QED
  BY <1>6, FS_Singleton

\* A mesh is built when it is complete.
CompleteWhenBuilt == pc = "built" => Network!Complete

\* The loops only add to the plan of the network.
LEMMA BuildStep ==
  ASSUME MeshInv, [Build]_topology, CompleteWhenBuilt'
  PROVE  [Network!Next]_(Network!network)
<1>1. /\ mesh' = mesh /\ Routers' = Routers /\ Attached' = Attached
  <2>1. mesh' = mesh
    BY BuildKeepsMesh
  <2> QED
    BY <2>1, MeshKept DEF Attached
<1>2. ext_links \subseteq ext_links' /\ int_links \subseteq int_links'
  BY DEF Build, Check, Attach, Join, LoopEnd, topology
<1> DEFINE hangs == {[node |-> l.node, router |-> l.router] : l \in ext_links}
           joins == {[src |-> l.src, dst |-> l.dst] : l \in int_links}
           stage == IF pc \in {"built", "failed"} THEN pc ELSE "planned"
<1>3. hangs \subseteq hangs' /\ joins \subseteq joins'
  BY <1>2
<1>4. CASE stage = "planned" /\ stage' = "planned"
  BY <1>1, <1>3, <1>4 DEF Network!Next, Network!Add
<1>5. CASE stage = "planned" /\ stage' = "failed"
  BY <1>5 DEF Network!Next, Network!GiveUp
<1>6. CASE stage = "planned" /\ stage' = "built"
  <2>1. pc' = "built" /\ pc # "built"
    BY <1>6
  <2>2. LoopEnd
    BY <2>1 DEF Build, Check, Attach, Join, topology, Directions
  <2>3. ext_links' = ext_links /\ int_links' = int_links
    BY <2>2 DEF LoopEnd
  <2>4. hangs' = hangs /\ joins' = joins
    BY <2>3
  <2>5. (Network!Complete)'
    BY <2>1 DEF CompleteWhenBuilt
  <2>6. Network!Complete
    BY <1>1, <2>4, <2>5 DEF Network!Complete, Network!OneRouterEach, Network!Connected
  <2> QED
    BY <1>1, <1>6, <2>4, <2>6 DEF Network!Next, Network!Build
<1>7. CASE stage # "planned"
  <2>1. pc \in {"built", "failed"}
    BY <1>7
  <2>2. UNCHANGED topology
    BY <2>1 DEF Build, Check, Attach, Join, LoopEnd, Directions
  <2>3. hangs' = hangs /\ joins' = joins /\ stage' = stage
    BY <2>2 DEF topology
  <2> QED
    BY <1>1, <2>3 DEF Network!network
<1>8. stage' \in {"planned", "failed", "built"}
  OBVIOUS
<1> QED
  BY <1>4, <1>5, <1>6, <1>7, <1>8

-----------------------------------------------------------------------------
(* How far routers are from each other.  Toward(e, a, d): from a, the       *)
(* direction e brings a packet closer to d.                                 *)

Gap(x, y)  == IF x <= y THEN y - x ELSE x - y
Dist(a, d) == Gap(ColumnOf(a), ColumnOf(d)) + Gap(RowOf(a), RowOf(d))

Toward(e, a, d) ==
  CASE e = "East"  -> ColumnOf(a) < ColumnOf(d)
    [] e = "West"  -> ColumnOf(a) > ColumnOf(d)
    [] e = "North" -> RowOf(a) < RowOf(d)
    [] e = "South" -> RowOf(a) > RowOf(d)

LEMMA Place ==
  ASSUME Shaped, NEW a \in Routers
  PROVE  /\ num_columns \in Nat \ {0} /\ num_rows \in Nat \ {0}
         /\ ColumnOf(a) \in Nat /\ ColumnOf(a) < num_columns
         /\ RowOf(a) \in Nat /\ RowOf(a) < num_rows
<1>1. num_columns \in Nat \ {0} /\ num_rows \in Nat \ {0}
  BY DEF Shaped
<1>2. ColumnOf(a) \in Columns /\ RowOf(a) \in Rows
  BY Coordinates
<1> QED
  BY <1>1, <1>2 DEF Columns, Rows

\* No two routers are further from each other than there are routers.
LEMMA DistBound ==
  ASSUME Shaped, NEW a \in Routers, NEW d \in Routers
  PROVE  /\ Dist(a, d) \in 0 .. num_routers
         /\ Dist(a, d) = 0 <=> a = d
<1> DEFINE C == num_columns
           R == num_rows
<1>1. /\ ColumnOf(a) \in Nat /\ ColumnOf(a) < C /\ RowOf(a) \in Nat /\ RowOf(a) < R
      /\ ColumnOf(d) \in Nat /\ ColumnOf(d) < C /\ RowOf(d) \in Nat /\ RowOf(d) < R
      /\ C \in Nat \ {0} /\ R \in Nat \ {0} /\ num_routers = R * C
  BY Place DEF Shaped
<1> HIDE DEF C, R
<1>2. (R - 1) * (C - 1) >= 0 /\ (R - 1) * (C - 1) = R * C - R - C + 1
  BY <1>1, SMT
<1>3. Dist(a, d) \in Nat /\ Dist(a, d) <= R + C - 2
  BY <1>1 DEF Dist, Gap
<1> DEFINE N == R * C
<1>4. N \in Nat /\ N - R - C + 1 >= 0
  BY <1>1, <1>2, SMT
<1>5. Dist(a, d) \in 0 .. num_routers
  <2>1. num_routers = N /\ R \in Nat /\ C \in Nat
    BY <1>1
  <2> HIDE DEF N
  <2>2. Dist(a, d) <= N
    BY <1>3, <1>4, <2>1
  <2> QED
    BY <1>3, <1>4, <2>1, <2>2
<1>6. Dist(a, d) = 0 => ColumnOf(a) = ColumnOf(d) /\ RowOf(a) = RowOf(d)
  <2>1. \A x, y \in Int : Gap(x, y) \in Nat /\ (Gap(x, y) = 0 => x = y)
    BY DEF Gap
  <2>2. /\ ColumnOf(a) \in Int /\ RowOf(a) \in Int
        /\ ColumnOf(d) \in Int /\ RowOf(d) \in Int
    BY Place
  <2> DEFINE u == Gap(ColumnOf(a), ColumnOf(d))
             v == Gap(RowOf(a), RowOf(d))
  <2>3. /\ u \in Nat /\ (u = 0 => ColumnOf(a) = ColumnOf(d))
        /\ v \in Nat /\ (v = 0 => RowOf(a) = RowOf(d))
    BY <2>1, <2>2
  <2>4. Dist(a, d) = u + v
    BY DEF Dist
  <2> HIDE DEF u, v
  <2> QED
    BY <2>3, <2>4
<1>7. Dist(a, d) = 0 => a = d
  BY <1>6, Coordinates
<1>8. a = d => Dist(a, d) = 0
  BY Place DEF Dist, Gap
<1> QED
  BY <1>5, <1>7, <1>8

\* A hop changes the distance by one, and shortens it in the directions toward
\* the destination.
LEMMA HopDist ==
  ASSUME Shaped, NEW e \in Directions, NEW a \in Routers, NEW b \in Routers,
         NEW d \in Routers, Beside(e, a, b)
  PROVE  /\ Dist(a, d) <= Dist(b, d) + 1
         /\ Dist(b, d) + 1 = Dist(a, d) <=> Toward(e, a, d)
<1>1. /\ ColumnOf(a) \in Int /\ RowOf(a) \in Int
      /\ ColumnOf(b) \in Int /\ RowOf(b) \in Int
      /\ ColumnOf(d) \in Int /\ RowOf(d) \in Int
  BY Place
<1>2. CASE e = "East"
  <2>1. RowOf(b) = RowOf(a) /\ ColumnOf(b) = ColumnOf(a) + 1
    BY <1>2 DEF Beside
  <2> QED
    BY <1>1, <1>2, <2>1 DEF Dist, Gap, Toward
<1>3. CASE e = "West"
  <2>1. RowOf(b) = RowOf(a) /\ ColumnOf(b) = ColumnOf(a) - 1
    BY <1>1, <1>3 DEF Beside
  <2> QED
    BY <1>1, <1>3, <2>1 DEF Dist, Gap, Toward
<1>4. CASE e = "North"
  <2>1. ColumnOf(b) = ColumnOf(a) /\ RowOf(b) = RowOf(a) + 1
    BY <1>4 DEF Beside
  <2> QED
    BY <1>1, <1>4, <2>1 DEF Dist, Gap, Toward
<1>5. CASE e = "South"
  <2>1. ColumnOf(b) = ColumnOf(a) /\ RowOf(b) = RowOf(a) - 1
    BY <1>1, <1>5 DEF Beside
  <2> QED
    BY <1>1, <1>5, <2>1 DEF Dist, Gap, Toward
<1> QED
  BY <1>2, <1>3, <1>4, <1>5 DEF Directions

\* There is a neighbour in every direction toward a router.
LEMMA TowardBeside ==
  ASSUME Shaped, NEW e \in Directions, NEW a \in Routers, NEW d \in Routers,
         Toward(e, a, d)
  PROVE  \E b \in Routers : Beside(e, a, b)
<1> DEFINE c == ColumnOf(a)
           r == RowOf(a)
<1>1. /\ c \in Nat /\ c < num_columns /\ r \in Nat /\ r < num_rows
      /\ ColumnOf(d) \in Nat /\ ColumnOf(d) < num_columns
      /\ RowOf(d) \in Nat /\ RowOf(d) < num_rows
      /\ num_columns \in Nat /\ num_rows \in Nat
  BY Place
<1>2. ASSUME NEW x \in Columns, NEW y \in Rows
      PROVE  /\ Router(x, y) \in Routers
             /\ ColumnOf(Router(x, y)) = x /\ RowOf(Router(x, y)) = y
  BY Coordinates
<1>3. CASE e = "East"
  <2>1. c + 1 \in Columns /\ r \in Rows
    BY <1>1, <1>3 DEF Toward, Columns, Rows
  <2>2. Beside(e, a, Router(c + 1, r))
    BY <1>1, <1>2, <1>3, <2>1 DEF Beside
  <2> QED
    BY <1>2, <2>1, <2>2
<1>4. CASE e = "West"
  <2>1. c - 1 \in Columns /\ r \in Rows
    BY <1>1, <1>4 DEF Toward, Columns, Rows
  <2>2. Beside(e, a, Router(c - 1, r))
    BY <1>1, <1>2, <1>4, <2>1 DEF Beside
  <2> QED
    BY <1>2, <2>1, <2>2
<1>5. CASE e = "North"
  <2>1. c \in Columns /\ r + 1 \in Rows
    BY <1>1, <1>5 DEF Toward, Columns, Rows
  <2>2. Beside(e, a, Router(c, r + 1))
    BY <1>1, <1>2, <1>5, <2>1 DEF Beside
  <2> QED
    BY <1>2, <2>1, <2>2
<1>6. CASE e = "South"
  <2>1. c \in Columns /\ r - 1 \in Rows
    BY <1>1, <1>6 DEF Toward, Columns, Rows
  <2>2. Beside(e, a, Router(c, r - 1))
    BY <1>1, <1>2, <1>6, <2>1 DEF Beside
  <2> QED
    BY <1>2, <2>1, <2>2
<1> QED
  BY <1>3, <1>4, <1>5, <1>6 DEF Directions

\* Routers that are not the same have a direction toward each other.
LEMMA SomeToward ==
  ASSUME Shaped, NEW a \in Routers, NEW d \in Routers, a # d
  PROVE  \E e \in Directions : Toward(e, a, d)
<1>1. ColumnOf(a) # ColumnOf(d) \/ RowOf(a) # RowOf(d)
  BY Coordinates
<1>2. /\ ColumnOf(a) \in Int /\ RowOf(a) \in Int
      /\ ColumnOf(d) \in Int /\ RowOf(d) \in Int
  BY Place
<1>3. \/ ColumnOf(a) < ColumnOf(d) \/ ColumnOf(a) > ColumnOf(d)
      \/ RowOf(a) < RowOf(d) \/ RowOf(a) > RowOf(d)
  BY <1>1, <1>2
<1>4. \/ Toward("East", a, d) \/ Toward("West", a, d)
      \/ Toward("North", a, d) \/ Toward("South", a, d)
  BY <1>3 DEF Toward
<1> QED
  BY <1>4 DEF Directions

-----------------------------------------------------------------------------
(* The routes.  On a mesh, the hops to a destination are the distance to    *)
(* it, so that a shortest path goes toward it at every hop.                 *)

\* The routers at most n hops from d.
Ball(d, n) == {r \in Routers : Dist(r, d) <= n}

LEMMA BallGrows ==
  ASSUME MeshInv, pc = "built", NEW d \in Routers, NEW n \in Nat, n > 0
  PROVE  Ball(d, n)
           = Ball(d, n - 1) \cup {l.src : l \in {k \in int_links : k.dst \in Ball(d, n - 1)}}
<1> DEFINE B == Ball(d, n - 1)
           new == {l.src : l \in {k \in int_links : k.dst \in B}}
<1>1. Shaped
  BY BuiltLinks
<1>2. \A r \in Routers : Dist(r, d) \in Nat
  BY <1>1, DistBound
<1>3. \A l \in int_links :
        /\ l.src \in Routers /\ l.dst \in Routers
        /\ l.direction \in Directions /\ Beside(l.direction, l.src, l.dst)
  BY BuiltLinks
<1>4. ASSUME NEW r \in Ball(d, n) PROVE r \in B \cup new
  <2>0. r \in Routers /\ Dist(r, d) <= n
    BY DEF Ball
  <2>1. CASE Dist(r, d) <= n - 1
    BY <2>0, <2>1 DEF Ball
  <2>2. CASE Dist(r, d) = n
    <3>1. r # d
      BY <1>1, <2>0, <2>2, DistBound
    <3>2. PICK e \in Directions : Toward(e, r, d)
      BY <1>1, <2>0, <3>1, SomeToward
    <3>3. PICK b \in Routers : Beside(e, r, b)
      BY <1>1, <2>0, <3>2, TowardBeside
    <3>4. Dist(b, d) + 1 = n
      BY <1>1, <2>0, <2>2, <3>2, <3>3, HopDist
    <3>5. b \in B
      BY <1>2, <3>4 DEF Ball
    <3>6. PICK l \in int_links : l.src = r /\ l.dst = b
      BY <2>0, <3>3, BuiltLinks
    <3> QED
      BY <3>5, <3>6
  <2> QED
    BY <1>2, <2>0, <2>1, <2>2
<1>5. ASSUME NEW r \in B \cup new PROVE r \in Ball(d, n)
  <2>1. CASE r \in B
    BY <1>2, <2>1 DEF Ball
  <2>2. CASE r \in new
    <3>1. PICK l \in int_links : l.dst \in B /\ r = l.src
      BY <2>2
    <3>2. l.dst \in Routers /\ Dist(l.dst, d) <= n - 1
      BY <3>1 DEF Ball
    <3>3. Dist(l.src, d) <= Dist(l.dst, d) + 1
      BY <1>1, <1>3, HopDist
    <3>4. r \in Routers /\ Dist(r, d) <= n
      BY <1>2, <1>3, <3>1, <3>2, <3>3
    <3> QED
      BY <3>4 DEF Ball
  <2> QED
    BY <2>1, <2>2
<1> QED
  BY <1>4, <1>5

\* The recursive definition of Within has the balls as its solution.
LEMMA WithinBalls ==
  ASSUME MeshInv, pc = "built", NEW d \in Routers
  PROVE  \A n \in 0 .. num_routers : Within(d)[n] = Ball(d, n)
<1> DEFINE N == num_routers
           from(B) == {l.src : l \in {k \in int_links : k.dst \in B}}
           Solves(W) == W = [n \in 0 .. N |-> IF n = 0 THEN {d}
                                              ELSE W[n - 1] \cup from(W[n - 1])]
           balls == [n \in 0 .. N |-> Ball(d, n)]
<1>1. Shaped /\ N \in Nat
  BY BuiltLinks DEF Shaped
<1>2. Within(d) = CHOOSE W : Solves(W)
  BY DEF Within
<1>3. Ball(d, 0) = {d}
  <2>1. \A r \in Routers : Dist(r, d) \in Nat /\ (Dist(r, d) = 0 <=> r = d)
    BY <1>1, DistBound
  <2> QED
    BY <2>1 DEF Ball
<1>4. Solves(balls)
  <2>1. ASSUME NEW n \in 0 .. N
        PROVE  balls[n] = IF n = 0 THEN {d} ELSE balls[n - 1] \cup from(balls[n - 1])
    <3>1. CASE n = 0
      BY <1>1, <1>3, <3>1
    <3>2. CASE n # 0
      <4>1. n \in Nat /\ n > 0 /\ n - 1 \in 0 .. N
        BY <1>1, <3>2
      <4>2. Ball(d, n) = Ball(d, n - 1) \cup from(Ball(d, n - 1))
        BY <4>1, BallGrows
      <4> QED
        BY <3>2, <4>1, <4>2
    <3> QED
      BY <3>1, <3>2
  <2> QED
    BY <2>1
<1>5. Solves(Within(d))
  <2> HIDE DEF Solves, balls
  <2> QED
    BY <1>2, <1>4
<1> DEFINE W == Within(d)
<1> HIDE DEF W
<1>6. \A n \in 0 .. N :
        W[n] = IF n = 0 THEN {d} ELSE W[n - 1] \cup from(W[n - 1])
  BY <1>5 DEF W
\* A least n at which they differ would have none before it.
<1> DEFINE T == {n \in 0 .. N : W[n] # Ball(d, n)}
<1>7. SUFFICES ASSUME T # {} PROVE FALSE
  BY DEF W
<1>8. PICK n \in T : \A m \in T : n <= m
  <2>1. T \subseteq Nat
    BY <1>1
  <2> HIDE DEF T
  <2> QED
    BY <1>7, <2>1, LeastNumber
<1>9. n \in 0 .. N /\ W[n] # Ball(d, n)
  BY <1>8
<1>10. n # 0
  BY <1>1, <1>3, <1>6, <1>9
<1>11. n \in Nat /\ n > 0 /\ n - 1 \in 0 .. N /\ ~(n <= n - 1)
  BY <1>1, <1>9, <1>10
<1>12. W[n - 1] = Ball(d, n - 1)
  BY <1>8, <1>11
<1>13. Ball(d, n) = Ball(d, n - 1) \cup from(Ball(d, n - 1))
  BY <1>11, BallGrows
<1>14. W[n] = W[n - 1] \cup from(W[n - 1])
  BY <1>6, <1>9, <1>10
<1> HIDE DEF from, T, Solves
<1> QED
  BY <1>9, <1>12, <1>13, <1>14

LEMMA HopsDist ==
  ASSUME MeshInv, pc = "built", NEW r \in Routers, NEW d \in Routers
  PROVE  Hops(r, d) = Dist(r, d)
<1>1. /\ Shaped /\ num_routers \in Nat
      /\ Dist(r, d) \in 0 .. num_routers
  BY BuiltLinks, DistBound DEF Shaped
<1>2. ASSUME NEW n \in 0 .. num_routers
      PROVE  (r \in Within(d)[n] /\ (n > 0 => r \notin Within(d)[n - 1]))
               <=> n = Dist(r, d)
  <2>1. r \in Within(d)[n] <=> Dist(r, d) <= n
    BY WithinBalls DEF Ball
  <2>2. n > 0 => (r \notin Within(d)[n - 1] <=> ~(Dist(r, d) <= n - 1))
    <3> SUFFICES ASSUME n > 0
                 PROVE  r \notin Within(d)[n - 1] <=> ~(Dist(r, d) <= n - 1)
      OBVIOUS
    <3>1. n - 1 \in 0 .. num_routers
      BY <1>1
    <3> QED
      BY <3>1, WithinBalls DEF Ball
  <2> QED
    BY <1>1, <2>1, <2>2
<1> QED
  BY <1>1, <1>2 DEF Hops

\* A link to choose leads toward the destination, and no direction toward it is
\* preferred to that of the link.
LEMMA ChoicesToward ==
  ASSUME MeshInv, pc = "built", NEW r \in Routers, NEW d \in Routers,
         NEW i \in Choices(r, d)
  PROVE  \E l \in int_links :
           /\ l.id = i /\ l.src = r /\ Toward(l.direction, r, d)
           /\ \A e \in Directions : Toward(e, r, d) =>
                Weight(mesh.class, l.direction) <= Weight(mesh.class, e)
<1> DEFINE shortest == {l \in int_links : l.src = r /\ r # d
                                            /\ Hops(l.dst, d) + 1 = Hops(r, d)}
<1>1. PICK l \in shortest : l.id = i /\ \A k \in shortest : l.weight <= k.weight
  BY DEF Choices
<1>2. Shaped
  BY BuiltLinks
<1>3. ASSUME NEW k \in int_links, k.src = r
      PROVE  Hops(k.dst, d) + 1 = Hops(r, d) <=> Toward(k.direction, r, d)
  <2>1. k.dst \in Routers /\ k.direction \in Directions /\ Beside(k.direction, r, k.dst)
    BY <1>3, BuiltLinks
  <2>2. Hops(k.dst, d) = Dist(k.dst, d) /\ Hops(r, d) = Dist(r, d)
    BY <2>1, HopsDist
  <2> QED
    BY <1>2, <2>1, <2>2, HopDist
<1>4. ASSUME NEW e \in Directions, Toward(e, r, d)
      PROVE  Weight(mesh.class, l.direction) <= Weight(mesh.class, e)
  <2>1. PICK b \in Routers : Beside(e, r, b)
    BY <1>2, <1>4, TowardBeside
  <2>2. PICK k \in int_links : k.src = r /\ k.dst = b /\ k.direction = e
    BY <2>1, BuiltLinks
  <2>3. k \in shortest
    BY <1>1, <1>3, <1>4, <2>2
  <2>4. l.weight <= k.weight
    BY <1>1, <2>3
  <2>5. l.weight = Weight(mesh.class, l.direction) /\ k.weight = Weight(mesh.class, e)
    BY <2>2, BuiltLinks
  <2> QED
    BY <2>4, <2>5
<1> QED
  BY <1>1, <1>3, <1>4

-----------------------------------------------------------------------------
(* Why packets never wait in a circle.  The links are ranked: first those   *)
(* to the West, then column by column those to the North and South, and     *)
(* those to the East that leave the column.  Every packet goes up.          *)

Step == num_rows + 2

RankOf(e, a) ==
  CASE e = "West"  -> - ColumnOf(a)
    [] e = "North" -> ColumnOf(a) * Step + RowOf(a)
    [] e = "South" -> ColumnOf(a) * Step + num_rows - RowOf(a)
    [] e = "East"  -> ColumnOf(a) * Step + num_rows + 1

HighestRank == num_columns * Step

\* A direction that is toward d, and none of less weight is.
Preferred(e, a, d) ==
  /\ Toward(e, a, d)
  /\ \A f \in Directions : Toward(f, a, d) =>
       Weight(mesh.class, e) <= Weight(mesh.class, f)

LEMMA RankBound ==
  ASSUME Shaped, NEW e \in Directions, NEW a \in Routers
  PROVE  /\ RankOf(e, a) \in Int /\ HighestRank \in Int
         /\ RankOf(e, a) <= HighestRank
         /\ e # "West" => RankOf(e, a) >= 0
<1> DEFINE c == ColumnOf(a)
           r == RowOf(a)
           C == num_columns
           R == num_rows
           K == Step
           x == c * K
           top == C * K
<1>1. /\ c \in Nat /\ c < C /\ C \in Nat /\ R \in Nat /\ r \in Nat /\ r < R
      /\ K \in Nat /\ K > 0 /\ K = R + 2
  BY Place DEF Step
<1>2. RankOf(e, a) \in {-c, x + r, x + R - r, x + R + 1}
      /\ (e # "West" => RankOf(e, a) \in {x + r, x + R - r, x + R + 1})
  BY DEF RankOf, Directions
<1>3. HighestRank = top
  BY DEF HighestRank
<1> HIDE DEF c, r, C, R, K
<1>4. x \in Nat /\ top \in Nat /\ x + K <= top
  BY <1>1, Product, SMT
<1> HIDE DEF x, top
<1> QED
  BY <1>1, <1>2, <1>3, <1>4

\* What the weights rule out: in Mesh_westfirst a packet goes West before it
\* goes anywhere else, in the other classes it leaves its column only once.
LEMMA PreferredFirst ==
  ASSUME Shaped, NEW e \in Directions, NEW a \in Routers, NEW d \in Routers,
         Preferred(e, a, d)
  PROVE  /\ e # "West" => ColumnOf(a) <= ColumnOf(d)
         /\ e \in {"North", "South"} /\ mesh.class # "Mesh_westfirst" =>
              ColumnOf(a) = ColumnOf(d)
<1>1. ColumnOf(a) \in Int /\ ColumnOf(d) \in Int
  BY Place
<1>2. e # "West" => ~Toward("West", a, d)
  <2> SUFFICES ASSUME e # "West", Toward("West", a, d) PROVE FALSE
    OBVIOUS
  <2>1. Weight(mesh.class, e) <= Weight(mesh.class, "West")
    BY DEF Preferred, Directions
  <2>2. CASE mesh.class = "Mesh_westfirst"
    <3>1. Weight(mesh.class, e) = 2 /\ Weight(mesh.class, "West") = 1
      BY <2>2 DEF Weight
    <3> QED
      BY <2>1, <3>1
  <2>3. CASE mesh.class # "Mesh_westfirst" /\ e = "East"
    BY <1>1, <2>3 DEF Preferred, Toward
  <2>4. CASE mesh.class # "Mesh_westfirst" /\ e # "East"
    <3>1. Weight(mesh.class, e) = 2 /\ Weight(mesh.class, "West") = 1
      BY <2>4 DEF Weight
    <3> QED
      BY <2>1, <3>1
  <2> QED
    BY <2>2, <2>3, <2>4
<1>3. e \in {"North", "South"} /\ mesh.class # "Mesh_westfirst" =>
        ~Toward("East", a, d)
  <2> SUFFICES ASSUME e \in {"North", "South"}, mesh.class # "Mesh_westfirst",
                      Toward("East", a, d)
               PROVE  FALSE
    OBVIOUS
  <2>1. Weight(mesh.class, e) <= Weight(mesh.class, "East")
    BY DEF Preferred, Directions
  <2>2. Weight(mesh.class, e) = 2 /\ Weight(mesh.class, "East") = 1
    BY DEF Weight
  <2> QED
    BY <2>1, <2>2
<1> QED
  BY <1>1, <1>2, <1>3 DEF Toward

LEMMA RankGrows ==
  ASSUME Shaped, NEW e \in Directions, NEW f \in Directions,
         NEW a \in Routers, NEW b \in Routers, NEW d \in Routers,
         Beside(e, a, b), Preferred(e, a, d), Preferred(f, b, d)
  PROVE  RankOf(e, a) < RankOf(f, b)
<1> DEFINE ca == ColumnOf(a)
           ra == RowOf(a)
           cb == ColumnOf(b)
           rb == RowOf(b)
           cd == ColumnOf(d)
           rd == RowOf(d)
           R  == num_rows
           K  == Step
           xa == ca * K
           xb == cb * K
<1>1. /\ ca \in Nat /\ cb \in Nat /\ cd \in Nat
      /\ ra \in Nat /\ ra < R /\ rb \in Nat /\ rb < R /\ rd \in Nat /\ rd < R
      /\ R \in Nat /\ K \in Nat /\ K = R + 2
  BY Place DEF Step
<1>2. /\ RankOf(f, b) \in Int
      /\ f # "West" => RankOf(f, b) >= 0
      /\ f = "West" => RankOf(f, b) = -cb
      /\ f = "North" => RankOf(f, b) = xb + rb
      /\ f = "South" => RankOf(f, b) = xb + R - rb
      /\ f = "East" => RankOf(f, b) = xb + R + 1
  BY RankBound DEF RankOf
<1>3. /\ e = "West" => RankOf(e, a) = -ca
      /\ e = "North" => RankOf(e, a) = xa + ra
      /\ e = "South" => RankOf(e, a) = xa + R - ra
      /\ e = "East" => RankOf(e, a) = xa + R + 1
  BY DEF RankOf
<1>4. /\ e = "West" => ca > cd
      /\ e = "East" => ca < cd
      /\ e = "North" => ra < rd
      /\ e = "South" => ra > rd
      /\ f = "West" => cb > cd
      /\ f = "East" => cb < cd
      /\ f = "North" => rb < rd
      /\ f = "South" => rb > rd
  BY DEF Preferred, Toward
<1>5. /\ e # "West" => ca <= cd
      /\ e \in {"North", "South"} /\ mesh.class # "Mesh_westfirst" => ca = cd
  BY PreferredFirst
<1>6. /\ e = "East" => rb = ra /\ cb = ca + 1
      /\ e = "West" => rb = ra /\ cb = ca - 1
      /\ e = "North" => cb = ca /\ rb = ra + 1
      /\ e = "South" => cb = ca /\ rb = ra - 1
  <2>1. ColumnOf(a) \in Int /\ RowOf(a) \in Int
    BY <1>1
  <2> QED
    BY <2>1 DEF Beside
<1> HIDE DEF ca, ra, cb, rb, cd, rd, R, K
<1>7. /\ xa \in Nat /\ xb \in Nat
      /\ cb = ca + 1 => xb = xa + K
      /\ cb = ca => xb = xa
  BY <1>1, SMT
<1> HIDE DEF xa, xb
<1>8. CASE e = "West"
  <2>1. f = "West" => RankOf(f, b) = -(ca - 1)
    BY <1>1, <1>2, <1>6, <1>8
  <2> QED
    BY <1>1, <1>2, <1>3, <1>4, <1>8, <2>1
<1>9. CASE e = "East"
  <2>1. f \in {"East", "North", "South"} /\ xb = xa + K
    BY <1>1, <1>4, <1>6, <1>7, <1>9 DEF Directions
  <2> QED
    BY <1>1, <1>2, <1>3, <1>7, <1>9, <2>1
<1>10. CASE e = "North"
  <2>1. f \in {"East", "North"} /\ xb = xa
    BY <1>1, <1>4, <1>5, <1>6, <1>7, <1>10 DEF Directions
  <2> QED
    BY <1>1, <1>2, <1>3, <1>6, <1>7, <1>10, <2>1
<1>11. CASE e = "South"
  <2>1. f \in {"East", "South"} /\ xb = xa
    BY <1>1, <1>4, <1>5, <1>6, <1>7, <1>11 DEF Directions
  <2> QED
    BY <1>1, <1>2, <1>3, <1>6, <1>7, <1>11, <2>1
<1> QED
  BY <1>8, <1>9, <1>10, <1>11 DEF Directions

-----------------------------------------------------------------------------
(* The inductive invariant of the traffic.                                 *)

\* Once the tables are there the network stays as it is, and a packet is in the
\* buffer of a link only if the link is one to choose on the way it goes.
TrafficInv ==
  /\ table = <<>> => buffer = <<>>
  /\ table # <<>> =>
       /\ pc = "built"
       /\ table = [r \in Routers |-> [d \in Routers |-> Choices(r, d)]]
       /\ ends = [i \in LinkIds |-> (CHOOSE l \in int_links : l.id = i).dst]
       /\ buffer \in [LinkIds -> Routers \cup {Empty}]
       /\ \A l \in int_links :
            buffer[l.id] # Empty => l.id \in Choices(l.src, buffer[l.id])

LEMMA EmptyTables == DOMAIN <<>> = {}
OBVIOUS

LEMMA NoRouterEmpty == Shaped => Empty \notin Routers /\ Routers # {}
BY DEF Shaped, Routers, Empty

\* A link is told by its identifier.
LEMMA LinkById ==
  ASSUME MeshInv, NEW l \in int_links
  PROVE  /\ l.id \in LinkIds
         /\ \A k \in int_links : k.id = l.id => k = l
         /\ (CHOOSE k \in int_links : k.id = l.id) = l
<1>1. \A k \in int_links : k.id = l.id => k = l
  BY DEF MeshInv, IdsOK
<1> QED
  BY <1>1 DEF LinkIds

\* Where a packet may go on: over a link from where it is.
LEMMA WantedLinks ==
  ASSUME MeshInv, TrafficInv, table # <<>>, NEW l \in int_links
  PROVE  /\ buffer[l.id] \in Routers \cup {Empty}
         /\ ends[l.id] = l.dst /\ l.dst \in Routers
         /\ buffer[l.id] # Empty => Wanted(l.id) = Choices(l.dst, buffer[l.id])
<1>1. /\ pc = "built"
      /\ table = [r \in Routers |-> [d \in Routers |-> Choices(r, d)]]
      /\ ends = [i \in LinkIds |-> (CHOOSE k \in int_links : k.id = i).dst]
      /\ buffer \in [LinkIds -> Routers \cup {Empty}]
  BY DEF TrafficInv
<1>2. l.dst \in Routers
  BY <1>1, BuiltLinks
<1>3. l.id \in LinkIds /\ (CHOOSE k \in int_links : k.id = l.id) = l
  BY LinkById
<1>4. buffer[l.id] \in Routers \cup {Empty}
  BY <1>1, <1>3
<1>5. ends[l.id] = l.dst
  BY <1>1, <1>3
<1>6. ASSUME buffer[l.id] # Empty PROVE Wanted(l.id) = Choices(l.dst, buffer[l.id])
  <2>1. buffer[l.id] \in Routers
    BY <1>4, <1>6
  <2>2. Wanted(l.id) = table[l.dst][buffer[l.id]]
    BY <1>5, <1>6 DEF Wanted
  <2> QED
    BY <1>1, <1>2, <2>1, <2>2
<1> QED
  BY <1>2, <1>4, <1>5, <1>6

LEMMA InitTraffic == TrafficInit => TrafficInv
BY DEF TrafficInit, TrafficInv

\* The network does not change, so neither do the routes.
LEMMA RoutesKept ==
  ASSUME UNCHANGED topology
  PROVE  /\ pc' = pc /\ int_links' = int_links
         /\ Routers' = Routers /\ LinkIds' = LinkIds
         /\ \A r, d : Choices(r, d)' = Choices(r, d)
<1>1. pc' = pc /\ int_links' = int_links /\ num_routers' = num_routers
  BY DEF topology, num_routers
<1>2. \A d : Within(d)' = Within(d)
  BY <1>1 DEF Within
<1>3. \A r, d : Hops(r, d)' = Hops(r, d)
  BY <1>1, <1>2 DEF Hops
<1>4. \A r, d : Choices(r, d)' = Choices(r, d)
  BY <1>1, <1>3 DEF Choices
<1> QED
  BY <1>1, <1>4 DEF Routers, LinkIds

LEMMA NextTraffic == MeshInv /\ TrafficInv /\ [Next]_vars => TrafficInv'
<1> SUFFICES ASSUME MeshInv, TrafficInv, [Next]_vars PROVE TrafficInv'
  OBVIOUS
\* A step that leaves the tables and only changes buffers.
<1>1. ASSUME UNCHANGED <<topology, table, ends>>,
             table # <<>>,
             buffer' \in [LinkIds -> Routers \cup {Empty}],
             \A l \in int_links : \/ buffer'[l.id] = buffer[l.id]
                                  \/ buffer'[l.id] = Empty
                                  \/ l.id \in Choices(l.src, buffer'[l.id])
      PROVE  TrafficInv'
  <2>1. /\ pc' = pc /\ int_links' = int_links
        /\ Routers' = Routers /\ LinkIds' = LinkIds
        /\ \A r, d : Choices(r, d)' = Choices(r, d)
    BY <1>1, RoutesKept
  <2>2. table' = table /\ ends' = ends
    BY <1>1
  <2>3. \A l \in int_links :
          buffer'[l.id] # Empty => l.id \in Choices(l.src, buffer'[l.id])
    BY <1>1 DEF TrafficInv
  <2>4. /\ pc = "built"
        /\ table = [r \in Routers |-> [d \in Routers |-> Choices(r, d)]]
        /\ ends = [i \in LinkIds |-> (CHOOSE l \in int_links : l.id = i).dst]
    BY <1>1 DEF TrafficInv
  <2>5. [r \in Routers |-> [d \in Routers |-> Choices(r, d)]]'
          = [r \in Routers |-> [d \in Routers |-> Choices(r, d)]]
    BY <2>1
  <2>6. [i \in LinkIds |-> (CHOOSE l \in int_links : l.id = i).dst]'
          = [i \in LinkIds |-> (CHOOSE l \in int_links : l.id = i).dst]
    BY <2>1
  <2> QED
    BY <1>1, <2>1, <2>2, <2>3, <2>4, <2>5, <2>6 DEF TrafficInv
<1>2. ASSUME table # <<>>
      PROVE  /\ Shaped /\ pc = "built"
             /\ buffer \in [LinkIds -> Routers \cup {Empty}]
             /\ DOMAIN buffer = LinkIds
  <2>1. pc = "built" /\ buffer \in [LinkIds -> Routers \cup {Empty}]
    BY <1>2 DEF TrafficInv
  <2> QED
    BY <2>1, BuiltLinks
<1>3. CASE Build /\ UNCHANGED traffic
  <2>1. pc # "built"
    BY <1>3 DEF Build, Check, Attach, Join, LoopEnd, Directions
  <2>2. table = <<>> /\ buffer = <<>>
    BY <2>1 DEF TrafficInv
  <2> QED
    BY <1>3, <2>2 DEF TrafficInv, traffic
<1>4. CASE Route
  <2>1. /\ pc = "built" /\ UNCHANGED topology
        /\ table' = [r \in Routers |-> [d \in Routers |-> Choices(r, d)]]
        /\ ends' = [i \in LinkIds |-> (CHOOSE l \in int_links : l.id = i).dst]
        /\ buffer' = [i \in LinkIds |-> Empty]
    BY <1>4 DEF Route
  <2>2. /\ pc' = pc /\ int_links' = int_links
        /\ Routers' = Routers /\ LinkIds' = LinkIds
        /\ \A r, d : Choices(r, d)' = Choices(r, d)
    BY <2>1, RoutesKept
  <2>3. table' # <<>>
    <3>1. DOMAIN table' = Routers /\ Routers # {}
      BY <2>1, BuiltLinks, NoRouterEmpty
    <3> QED
      BY <3>1, EmptyTables
  <2>4. [r \in Routers |-> [d \in Routers |-> Choices(r, d)]]'
          = [r \in Routers |-> [d \in Routers |-> Choices(r, d)]]
    BY <2>2
  <2>5. [i \in LinkIds |-> (CHOOSE l \in int_links : l.id = i).dst]'
          = [i \in LinkIds |-> (CHOOSE l \in int_links : l.id = i).dst]
    BY <2>2
  <2>6. buffer' \in [LinkIds -> Routers \cup {Empty}]
    BY <2>1
  <2>7. \A l \in int_links : buffer'[l.id] = Empty
    BY <2>1 DEF LinkIds
  <2> QED
    BY <2>1, <2>2, <2>3, <2>4, <2>5, <2>6, <2>7 DEF TrafficInv
<1>5. CASE Send
  <2>1. table # <<>> /\ UNCHANGED <<topology, table, ends>>
    BY <1>5 DEF Send
  <2>2. PICK r \in Routers, d \in Routers : \E i \in table[r][d] :
          /\ buffer[i] = Empty
          /\ buffer' = [buffer EXCEPT ![i] = d]
    BY <1>5 DEF Send
  <2>3. PICK i \in table[r][d] : buffer' = [buffer EXCEPT ![i] = d]
    BY <2>2
  <2>4. i \in Choices(r, d)
    BY <2>1, <2>3 DEF TrafficInv
  <2>5. PICK l \in int_links : l.id = i /\ l.src = r
    BY <1>2, <2>1, <2>4, ChoicesToward
  <2>6. i \in LinkIds /\ \A k \in int_links : k.id = i => k = l
    BY <2>5, LinkById
  <2>7. buffer' \in [LinkIds -> Routers \cup {Empty}]
    BY <1>2, <2>1, <2>3
  <2>8. \A k \in int_links : IF k = l THEN buffer'[k.id] = d
                                      ELSE buffer'[k.id] = buffer[k.id]
    <3>1. \A k \in int_links : k.id \in LinkIds
      BY DEF LinkIds
    <3> QED
      BY <1>2, <2>1, <2>3, <2>5, <2>6, <3>1
  <2>9. \A k \in int_links : \/ buffer'[k.id] = buffer[k.id]
                             \/ buffer'[k.id] = Empty
                             \/ k.id \in Choices(k.src, buffer'[k.id])
    BY <2>4, <2>5, <2>8
  <2> QED
    BY <1>1, <2>1, <2>7, <2>9
<1>6. CASE Stop
  <2>1. table # <<>> /\ UNCHANGED <<topology, table, ends>> /\ buffer' = buffer
    BY <1>6 DEF Stop
  <2> QED
    BY <1>1, <1>2, <2>1
<1>7. ASSUME NEW i \in DOMAIN buffer, Move(i) \/ Arrive(i) PROVE TrafficInv'
  <2>1. table # <<>>
    BY EmptyTables DEF TrafficInv
  <2>2. UNCHANGED <<topology, table, ends>>
    BY <1>7 DEF Move, Arrive
  <2>3. i \in LinkIds
    BY <1>2, <2>1
  <2>4. PICK l \in int_links : l.id = i
    BY <2>3 DEF LinkIds
  <2>5. \A k \in int_links : k.id \in LinkIds
    BY DEF LinkIds
  <2>6. CASE Arrive(i)
    <3>1. buffer' = [buffer EXCEPT ![i] = Empty]
      BY <2>6 DEF Arrive
    <3>2. buffer' \in [LinkIds -> Routers \cup {Empty}]
      BY <1>2, <2>1, <3>1
    <3>3. \A k \in int_links : buffer'[k.id] = buffer[k.id] \/ buffer'[k.id] = Empty
      BY <1>2, <2>1, <2>5, <3>1
    <3> QED
      BY <1>1, <2>1, <2>2, <3>2, <3>3
  <2>7. CASE Move(i)
    <3>1. PICK j \in Wanted(i) :
            buffer' = [buffer EXCEPT ![i] = Empty, ![j] = buffer[i]]
      BY <2>7 DEF Move
    <3>2. buffer[i] # Empty
      BY <3>1 DEF Wanted
    <3>3. /\ buffer[i] \in Routers /\ l.dst \in Routers
          /\ j \in Choices(l.dst, buffer[i])
      BY <2>1, <2>4, <3>1, <3>2, WantedLinks
    <3>4. PICK m \in int_links : m.id = j /\ m.src = l.dst
      BY <1>2, <2>1, <3>3, ChoicesToward
    <3>5. j \in LinkIds /\ \A k \in int_links : k.id = j => k = m
      BY <3>4, LinkById
    <3>6. buffer' \in [LinkIds -> Routers \cup {Empty}]
      BY <1>2, <2>1, <3>1, <3>3
    <3>7. ASSUME NEW k \in int_links
          PROVE  \/ buffer'[k.id] = buffer[k.id]
                 \/ buffer'[k.id] = Empty
                 \/ k.id \in Choices(k.src, buffer'[k.id])
      <4>1. k.id \in LinkIds
        BY <2>5
      <4>2. CASE k.id = j
        <5>1. buffer'[j] = buffer[i]
          BY <1>2, <2>1, <3>1, <3>5
        <5>2. k.src = l.dst
          BY <3>4, <3>5, <4>2
        <5> QED
          BY <3>3, <4>2, <5>1, <5>2
      <4>3. CASE k.id # j
        BY <1>2, <2>1, <3>1, <4>1, <4>3
      <4> QED
        BY <4>2, <4>3
    <3> QED
      BY <1>1, <2>1, <2>2, <3>6, <3>7
  <2> QED
    BY <1>7, <2>6, <2>7
<1>8. CASE UNCHANGED vars
  <2>1. UNCHANGED <<topology, table, ends>> /\ buffer' = buffer
    BY <1>8 DEF vars, traffic
  <2>2. CASE table = <<>>
    BY <2>1, <2>2 DEF TrafficInv
  <2>3. CASE table # <<>>
    BY <1>1, <1>2, <2>1, <2>3
  <2> QED
    BY <2>2, <2>3
<1> QED
  BY <1>3, <1>4, <1>5, <1>6, <1>7, <1>8 DEF Next

LEMMA TrafficInvariant == TrafficSpec => [](MeshInv /\ TrafficInv)
<1>1. TrafficInit => Init
  BY DEF TrafficInit
<1>2. [Next]_vars => [Build]_topology
  BY DEF Next, Route, Send, Stop, Move, Arrive, vars
<1> QED
  BY <1>1, <1>2, InitMesh, NextMesh, InitTraffic, NextTraffic, PTL DEF TrafficSpec

\* A packet waits for buffers of greater rank only, so those of the greatest
\* rank in a set do not wait for the set.
LEMMA SomeMayLeave ==
  ASSUME MeshInv, TrafficInv, NEW S \in SUBSET Occupied, S # {}
  PROVE  \E i \in S : Wanted(i) = {} \/ ~(Wanted(i) \subseteq S)
<1>1. table # <<>>
  BY EmptyTables DEF TrafficInv, Occupied
<1>2. Shaped /\ pc = "built" /\ DOMAIN buffer = LinkIds
  <2>1. pc = "built" /\ buffer \in [LinkIds -> Routers \cup {Empty}]
    BY <1>1 DEF TrafficInv
  <2> QED
    BY <2>1, BuiltLinks
<1> DEFINE L == {l \in int_links : l.id \in S}
           Height(l) == HighestRank - RankOf(l.direction, l.src)
           T == {Height(l) : l \in L}
<1>3. \A i \in S : buffer[i] # Empty /\ \E l \in L : l.id = i
  BY <1>2 DEF Occupied, LinkIds
<1>4. \A l \in int_links :
        /\ l.src \in Routers /\ l.dst \in Routers
        /\ l.direction \in Directions /\ Beside(l.direction, l.src, l.dst)
  BY <1>2, BuiltLinks
<1>5. \A l \in int_links :
        RankOf(l.direction, l.src) \in Int /\ HighestRank \in Int /\ Height(l) \in Nat
  BY <1>2, <1>4, RankBound
<1>6. PICK l \in L : \A k \in L : Height(l) <= Height(k)
  <2>1. T # {} /\ T \subseteq Nat
    BY <1>3, <1>5
  <2>2. PICK x \in T : \A y \in T : x <= y
    <3> HIDE DEF T
    <3> QED
      BY <2>1, LeastNumber
  <2> QED
    BY <2>2
<1>7. l \in int_links /\ l.id \in S /\ buffer[l.id] # Empty
  BY <1>3, <1>6
<1> DEFINE d == buffer[l.id]
<1>8. /\ d \in Routers /\ l.id \in Choices(l.src, d)
      /\ Wanted(l.id) = Choices(l.dst, d)
  BY <1>1, <1>7, WantedLinks DEF TrafficInv
<1>9. Preferred(l.direction, l.src, d)
  <2> HIDE DEF d
  <2>1. PICK k \in int_links :
          /\ k.id = l.id /\ Toward(k.direction, l.src, d)
          /\ \A e \in Directions : Toward(e, l.src, d) =>
               Weight(mesh.class, k.direction) <= Weight(mesh.class, e)
    BY <1>2, <1>4, <1>7, <1>8, ChoicesToward
  <2>2. k = l
    BY <1>7, <2>1, LinkById
  <2> QED
    BY <2>1, <2>2 DEF Preferred
<1>10. ASSUME NEW j \in Wanted(l.id), j \in S PROVE FALSE
  <2> HIDE DEF d
  <2>1. PICK m \in int_links :
          /\ m.id = j /\ m.src = l.dst /\ Toward(m.direction, l.dst, d)
          /\ \A e \in Directions : Toward(e, l.dst, d) =>
               Weight(mesh.class, m.direction) <= Weight(mesh.class, e)
    BY <1>2, <1>4, <1>7, <1>8, <1>10, ChoicesToward
  <2>2. Preferred(m.direction, l.dst, d)
    BY <2>1 DEF Preferred
  <2>3. RankOf(l.direction, l.src) < RankOf(m.direction, l.dst)
    BY <1>2, <1>4, <1>7, <1>8, <1>9, <2>1, <2>2, RankGrows
  <2>4. Height(l) <= Height(m)
    BY <1>6, <1>10, <2>1
  <2> QED
    BY <1>5, <1>7, <2>1, <2>3, <2>4
<1> QED
  BY <1>7, <1>10

LEMMA NoneInCircle == MeshInv /\ TrafficInv => NoCircularWait
<1> SUFFICES ASSUME MeshInv, TrafficInv PROVE NoCircularWait
  OBVIOUS
<1> DEFINE wanted == [i \in Occupied |-> Wanted(i)]
<1>1. ASSUME NEW S \in (SUBSET Occupied) \ {{}}
      PROVE  \E i \in S : wanted[i] = {} \/ ~(wanted[i] \subseteq S)
  <2>1. PICK i \in S : Wanted(i) = {} \/ ~(Wanted(i) \subseteq S)
    <3>1. S \in SUBSET Occupied /\ S # {}
      OBVIOUS
    <3> QED
      BY <3>1, SomeMayLeave
  <2>2. wanted[i] = Wanted(i)
    OBVIOUS
  <2> QED
    BY <2>1, <2>2
<1> QED
  BY <1>1 DEF NoCircularWait

-----------------------------------------------------------------------------
(* What holds of every mesh.                                               *)

\* The loops of makeTopology() join the routers as a mesh, and where every link
\* is counted no two links share an identifier: by the invariant each link
\* stands for one place of one loop, and two routers next to each other are so
\* in one direction, in one place.
THEOREM MeshBuilt == Spec => []JoinedAsMesh
BY MeshInvariant, MeshJoined, PTL

\* makeTopology() builds a network as RubyNetwork asks for: the loops only add
\* to the plan, and the network is built with every controller on one router
\* and all routers joined.
THEOREM NetworkBuilt == Spec => BuildsNetwork
<1>1. Init => Network!Init
  BY DEF Init, Network!Init
<1>2. MeshInv => CompleteWhenBuilt
  BY BuiltConnected, BuiltAttached DEF CompleteWhenBuilt, Network!Complete
<1>3. MeshInv /\ [Build]_topology /\ CompleteWhenBuilt'
        => [Network!Next]_(Network!network)
  BY BuildStep
<1>4. Spec => []MeshInv
  BY MeshInvariant
<1>5. Spec => [][Build]_topology
  BY DEF Spec
<1>6. []MeshInv => []CompleteWhenBuilt
  BY <1>2, PTL
<1>7. [][Build]_topology /\ []MeshInv /\ []CompleteWhenBuilt
        => [][Network!Next]_(Network!network)
  BY <1>3, PTL
<1>8. Spec => Init
  BY DEF Spec
<1> QED
  BY <1>1, <1>4, <1>5, <1>6, <1>7, <1>8, PTL DEF BuildsNetwork, Network!Spec

\* Packets leave the network they run on as it is built.
LEMMA TrafficOnMesh == TrafficSpec => Spec
<1>1. TrafficInit => Init
  BY DEF TrafficInit
<1>2. [Next]_vars => [Build]_topology
  BY DEF Next, Route, Send, Stop, Move, Arrive, vars
<1> QED
  BY <1>1, <1>2, PTL DEF TrafficSpec, Spec

\* However many packets the controllers send, and whichever links the network
\* chooses among those of equal weight, there are never packets that all wait
\* for each other: every packet on its way goes to links of greater rank, on
\* meshes of every size with the weights of makeTopology().
THEOREM NoDeadlock == TrafficSpec => []NoCircularWait
BY TrafficInvariant, NoneInCircle, PTL
=============================================================================
