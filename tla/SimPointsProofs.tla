--------------------------- MODULE SimPointsProofs ---------------------------
(***************************************************************************)
(* Proofs about the two runs of the SimPoint method, for all analyses,     *)
(* lengths and programs.                                                   *)
(***************************************************************************)
EXTENDS SimPoints, TLAPS, FiniteSetTheorems, FunctionTheorems, SequenceTheorems

LEMMA ConstantsOK ==
  /\ IntervalLength \in Nat /\ IntervalLength > 0
  /\ WarmupLength \in Nat /\ ProgramLength \in Nat /\ SwitchInsts \in Nat
  /\ MaxGuest \in Nat
  /\ \A a \in Analyses : a.intervals \in Seq(Nat \cup {Bad})
BY SimPointsAssumption

-----------------------------------------------------------------------------
(***************************************************************************)
(* A simpoint begins where its interval does, its warm-up included.        *)
(***************************************************************************)
Points == {p \in [interval : Nat, start : Nat, warmup : Nat] :
             p.start + p.warmup = p.interval * IntervalLength}

LEMMA SimpointOK == \A interval \in Nat : Simpoint(interval) \in Points
<1> SUFFICES ASSUME NEW interval \in Nat PROVE Simpoint(interval) \in Points
  OBVIOUS
<1> DEFINE from == interval * IntervalLength
<1>1. from \in Nat
  BY ConstantsOK
<1>2. CASE from - WarmupLength > 0
  BY <1>1, <1>2, ConstantsOK DEF Simpoint, Points
<1>3. CASE ~(from - WarmupLength > 0)
  BY <1>1, <1>3, ConstantsOK DEF Simpoint, Points
<1> QED
  BY <1>2, <1>3

-----------------------------------------------------------------------------
(***************************************************************************)
(* The sort.  UpTo(s, i) are the positions that do not come after i; their *)
(* number is the place of i, and no two positions share a place.           *)
(***************************************************************************)
UpTo(s, i) == {j \in 1 .. Len(s) : \/ s[j].start < s[i].start
                                   \/ s[j].start = s[i].start /\ j <= i}

LEMMA PlaceOK ==
  ASSUME NEW s \in Seq(Points)
  PROVE  /\ Len(s) \in Nat
         /\ \A i \in 1 .. Len(s) :
              /\ s[i] \in Points /\ s[i].start \in Nat
              /\ UpTo(s, i) \subseteq 1 .. Len(s)
              /\ IsFiniteSet(UpTo(s, i))
              /\ Position(s, i) = Cardinality(UpTo(s, i))
              /\ Position(s, i) \in 1 .. Len(s)
<1>1. Len(s) \in Nat /\ \A i \in 1 .. Len(s) : s[i] \in Points
  BY ElementOfSeq, LenProperties
<1>2. /\ IsFiniteSet(1 .. Len(s))
      /\ Cardinality(1 .. Len(s)) = Len(s)
  <2>1. 1 \in Int /\ Len(s) \in Int
    BY <1>1
  <2>2. /\ IsFiniteSet(1 .. Len(s))
        /\ Cardinality(1 .. Len(s)) = IF 1 > Len(s) THEN 0 ELSE Len(s) - 1 + 1
    BY <2>1, FS_Interval, Zenon
  <2> QED
    BY <1>1, <2>2
<1>3. ASSUME NEW i \in 1 .. Len(s)
      PROVE  /\ s[i] \in Points /\ s[i].start \in Nat
             /\ UpTo(s, i) \subseteq 1 .. Len(s)
             /\ IsFiniteSet(UpTo(s, i))
             /\ Position(s, i) = Cardinality(UpTo(s, i))
             /\ Position(s, i) \in 1 .. Len(s)
  <2>1. s[i] \in Points /\ s[i].start \in Nat
    BY <1>1 DEF Points
  <2>2. UpTo(s, i) \subseteq 1 .. Len(s) /\ i \in UpTo(s, i)
    BY <1>1, <2>1 DEF UpTo
  <2>3. /\ IsFiniteSet(UpTo(s, i))
        /\ Cardinality(UpTo(s, i)) \in Nat
        /\ Cardinality(UpTo(s, i)) <= Len(s)
        /\ Cardinality(UpTo(s, i)) # 0
    BY <1>2, <2>2, FS_Subset, FS_CardinalityType, FS_EmptySet
  <2>4. Position(s, i) = Cardinality(UpTo(s, i))
    BY DEF Position, UpTo
  <2> QED
    BY <1>1, <2>1, <2>2, <2>3, <2>4
<1> QED
  BY <1>1, <1>3

\* Whoever comes later has the larger place.
LEMMA PlacesOrdered ==
  ASSUME NEW s \in Seq(Points), NEW i \in 1 .. Len(s), NEW j \in 1 .. Len(s),
         i \in UpTo(s, j), i # j
  PROVE  Position(s, i) < Position(s, j)
<1>1. /\ s[i].start \in Nat /\ s[j].start \in Nat /\ i \in Int /\ j \in Int
      /\ \A k \in 1 .. Len(s) : s[k].start \in Nat /\ k \in Int
      /\ IsFiniteSet(UpTo(s, i)) /\ IsFiniteSet(UpTo(s, j))
      /\ Position(s, i) = Cardinality(UpTo(s, i))
      /\ Position(s, j) = Cardinality(UpTo(s, j))
  BY PlaceOK
<1>2. UpTo(s, i) \subseteq UpTo(s, j)
  BY <1>1 DEF UpTo
<1>3. j \in UpTo(s, j) /\ j \notin UpTo(s, i)
  BY <1>1 DEF UpTo
<1>4. /\ Cardinality(UpTo(s, i)) <= Cardinality(UpTo(s, j))
      /\ Cardinality(UpTo(s, i)) # Cardinality(UpTo(s, j))
  BY <1>1, <1>2, <1>3, FS_Subset
<1>5. Cardinality(UpTo(s, i)) \in Nat /\ Cardinality(UpTo(s, j)) \in Nat
  BY <1>1, FS_CardinalityType
<1> QED
  BY <1>1, <1>4, <1>5

Placed(s, k) == CHOOSE i \in 1 .. Len(s) : Position(s, i) = k

LEMMA PlacesFilled ==
  ASSUME NEW s \in Seq(Points)
  PROVE  /\ \A k \in 1 .. Len(s) : /\ Placed(s, k) \in 1 .. Len(s)
                                   /\ Position(s, Placed(s, k)) = k
         /\ \A i \in 1 .. Len(s) : Placed(s, Position(s, i)) = i
<1> DEFINE n == Len(s)
           place == [i \in 1 .. n |-> Position(s, i)]
<1>1. n \in Nat /\ place \in [1 .. n -> 1 .. n]
  BY PlaceOK
<1>2. \A i, j \in 1 .. n : place[i] = place[j] => i = j
  <2> SUFFICES ASSUME NEW i \in 1 .. n, NEW j \in 1 .. n, i # j
               PROVE  Position(s, i) # Position(s, j)
    OBVIOUS
  <2>1. /\ s[i].start \in Nat /\ s[j].start \in Nat
        /\ Position(s, i) \in Int /\ Position(s, j) \in Int
    BY PlaceOK
  <2>2. i \in UpTo(s, j) \/ j \in UpTo(s, i)
    BY <2>1 DEF UpTo
  <2> QED
    BY <2>1, <2>2, PlacesOrdered
<1>3. place \in Surjection(1 .. n, 1 .. n)
  <2>1. place \in Injection(1 .. n, 1 .. n)
    BY <1>1, <1>2, Fun_IsInj
  <2>2. IsFiniteSet(1 .. n)
    BY <1>1, FS_Interval
  <2> QED
    BY <2>1, <2>2, FS_Injection
<1>4. \A k \in 1 .. n : \E i \in 1 .. n : place[i] = k
  <2> HIDE DEF place
  <2> QED
    BY <1>3, Fun_SurjectionProperties
<1>5. \A k \in 1 .. n : Placed(s, k) \in 1 .. n /\ Position(s, Placed(s, k)) = k
  BY <1>4 DEF Placed
<1>6. \A i \in 1 .. n : Placed(s, Position(s, i)) = i
  <2> SUFFICES ASSUME NEW i \in 1 .. n PROVE Placed(s, Position(s, i)) = i
    OBVIOUS
  <2>1. Position(s, i) \in 1 .. n
    BY PlaceOK
  <2>2. /\ Placed(s, Position(s, i)) \in 1 .. n
        /\ Position(s, Placed(s, Position(s, i))) = Position(s, i)
    BY <1>5, <2>1
  <2> QED
    BY <1>2, <2>2
<1> QED
  BY <1>5, <1>6

\* The sorted list has the same simpoints, in the order of their starts.
LEMMA SortedOK ==
  ASSUME NEW s \in Seq(Points)
  PROVE  /\ SortedByStart(s) \in Seq(Points)
         /\ Len(SortedByStart(s)) = Len(s)
         /\ \A k, l \in 1 .. Len(s) :
              k <= l => SortedByStart(s)[k].start <= SortedByStart(s)[l].start
         /\ \A i \in 1 .. Len(s) : \E k \in 1 .. Len(s) :
              SortedByStart(s)[k] = s[i]
         /\ \A k \in 1 .. Len(s) : \E i \in 1 .. Len(s) :
              SortedByStart(s)[k] = s[i]
<1> DEFINE n == Len(s)
           t == SortedByStart(s)
<1>1. n \in Nat /\ t = [k \in 1 .. n |-> s[Placed(s, k)]]
  BY PlaceOK DEF SortedByStart, Placed
<1>2. \A k \in 1 .. n : Placed(s, k) \in 1 .. n /\ t[k] = s[Placed(s, k)]
  BY <1>1, PlacesFilled
<1>3. t \in [1 .. n -> Points]
  BY <1>1, <1>2, PlaceOK
<1>4. t \in Seq(Points) /\ Len(t) = n
  BY <1>1, <1>3
<1>5. ASSUME NEW k \in 1 .. n, NEW l \in 1 .. n, k <= l
      PROVE  t[k].start <= t[l].start
  <2> DEFINE i == Placed(s, k)
             j == Placed(s, l)
  <2>1. /\ i \in 1 .. n /\ j \in 1 .. n
        /\ s[i].start \in Nat /\ s[j].start \in Nat
        /\ Position(s, i) = k /\ Position(s, j) = l
    BY PlacesFilled, PlaceOK
  <2>2. ~(s[j].start < s[i].start)
    <3> SUFFICES ASSUME s[j].start < s[i].start PROVE FALSE
      OBVIOUS
    <3>1. j \in UpTo(s, i) /\ i # j
      BY <2>1 DEF UpTo
    <3>2. l < k
      BY <2>1, <3>1, PlacesOrdered
    <3> QED
      BY <1>5, <3>2
  <2>3. s[i].start <= s[j].start
    BY <2>1, <2>2
  <2>4. t[k] = s[i] /\ t[l] = s[j]
    BY <1>2
  <2> QED
    BY <2>3, <2>4
<1>6. ASSUME NEW i \in 1 .. n PROVE \E k \in 1 .. n : t[k] = s[i]
  <2>1. Position(s, i) \in 1 .. n /\ Placed(s, Position(s, i)) = i
    BY PlaceOK, PlacesFilled
  <2> QED
    BY <1>2, <2>1
<1> QED
  BY <1>2, <1>4, <1>5, <1>6

-----------------------------------------------------------------------------
(***************************************************************************)
(* The names of the checkpoints.  They are sorted as strings, which is not *)
(* the order of the indices, but an order: the first, the second and the   *)
(* third character decide, and they tell the index.                        *)
(***************************************************************************)
First(i)  == IF i < 100 THEN i \div 10 ELSE i \div 100
Second(i) == IF i < 100 THEN i % 10 ELSE (i \div 10) % 10
Third(i)  == IF i < 100 THEN 10 ELSE i % 10

LEMMA DivMod ==
  ASSUME NEW i \in Nat
  PROVE  /\ i \div 10 \in Nat /\ i % 10 \in 0 .. 9 /\ i = 10 * (i \div 10) + (i % 10)
         /\ i \div 100 \in Nat /\ (i \div 10) % 10 \in 0 .. 9
         /\ i = 100 * (i \div 100) + 10 * ((i \div 10) % 10) + (i % 10)
OBVIOUS

LEMMA CharactersTellIndex ==
  ASSUME NEW i \in Nat, NEW j \in Nat,
         First(i) = First(j), Second(i) = Second(j), Third(i) = Third(j)
  PROVE  i = j
BY DivMod DEF First, Second, Third

LEMMA CharactersOK ==
  ASSUME NEW i \in Nat
  PROVE  First(i) \in Nat /\ Second(i) \in Nat /\ Third(i) \in Nat
BY DivMod DEF First, Second, Third

LEMMA NameIsAppend ==
  ASSUME NEW i, NEW n \in Nat, Digits(i) \in Seq(Nat), Len(Digits(i)) = n
  PROVE  /\ DOMAIN Name(i) = 1 .. n + 1
         /\ \A p \in 1 .. n : Name(i)[p] = Digits(i)[p]
         /\ Name(i)[n + 1] = 10
<1>1. PICK d \in Seq(Nat) : d = Digits(i)
  OBVIOUS
<1>2. Name(i) = Append(d, 10) /\ Len(d) = n
  BY <1>1 DEF Name
<1>3. /\ Append(d, 10) \in Seq(Nat)
      /\ Len(Append(d, 10)) = n + 1
      /\ \A p \in 1 .. n : Append(d, 10)[p] = d[p]
      /\ Append(d, 10)[n + 1] = 10
  BY <1>2, AppendProperties
<1>4. DOMAIN Append(d, 10) = 1 .. n + 1
  BY <1>3, LenProperties
<1> QED
  BY <1>1, <1>2, <1>3, <1>4

LEMMA NameOK ==
  ASSUME NEW i \in Nat
  PROVE  /\ Name(i)[1] = First(i) /\ Name(i)[2] = Second(i) /\ Name(i)[3] = Third(i)
         /\ DOMAIN Name(i) = IF i < 100 THEN 1 .. 3 ELSE 1 .. 4
         /\ i >= 100 => Name(i)[4] = 10
<1>1. CASE i < 100
  <2>1. /\ Digits(i) = <<i \div 10, i % 10>>
        /\ i \div 10 \in Nat /\ i % 10 \in Nat
    BY <1>1, DivMod DEF Digits
  <2>2. /\ Digits(i) \in Seq(Nat) /\ Len(Digits(i)) = 2
        /\ Digits(i)[1] = i \div 10 /\ Digits(i)[2] = i % 10
    BY <2>1
  <2>3. /\ DOMAIN Name(i) = 1 .. 2 + 1
        /\ \A p \in 1 .. 2 : Name(i)[p] = Digits(i)[p]
        /\ Name(i)[2 + 1] = 10
    BY <2>2, 2 \in Nat, NameIsAppend, Zenon
  <2> QED
    BY <1>1, <2>2, <2>3 DEF First, Second, Third
<1>2. CASE ~(i < 100)
  <2>1. /\ Digits(i) = <<i \div 100, (i \div 10) % 10, i % 10>>
        /\ i \div 100 \in Nat /\ (i \div 10) % 10 \in Nat /\ i % 10 \in Nat
    BY <1>2, DivMod DEF Digits
  <2>2. /\ Digits(i) \in Seq(Nat) /\ Len(Digits(i)) = 3
        /\ Digits(i)[1] = i \div 100 /\ Digits(i)[2] = (i \div 10) % 10
        /\ Digits(i)[3] = i % 10
    BY <2>1
  <2>3. /\ DOMAIN Name(i) = 1 .. 3 + 1
        /\ \A p \in 1 .. 3 : Name(i)[p] = Digits(i)[p]
        /\ Name(i)[3 + 1] = 10
    BY <2>2, 3 \in Nat, NameIsAppend, Zenon
  <2> QED
    BY <1>2, <2>2, <2>3 DEF First, Second, Third
<1> QED
  BY <1>1, <1>2

LEMMA BeforeByCharacters ==
  ASSUME NEW i \in Nat, NEW j \in Nat
  PROVE  Before(i, j) <=>
           \/ First(i) < First(j)
           \/ First(i) = First(j) /\ Second(i) < Second(j)
           \/ First(i) = First(j) /\ Second(i) = Second(j) /\ Third(i) < Third(j)
<1>1. /\ First(i) \in Nat /\ Second(i) \in Nat /\ Third(i) \in Nat
      /\ First(j) \in Nat /\ Second(j) \in Nat /\ Third(j) \in Nat
  BY CharactersOK
<1>2. /\ {1, 2, 3} \subseteq DOMAIN Name(i) \cap DOMAIN Name(j)
      /\ \A p \in DOMAIN Name(i) \cap DOMAIN Name(j) :
           /\ p \in 1 .. 4
           /\ p = 4 => Name(i)[4] = 10 /\ Name(j)[4] = 10
  BY NameOK
<1>3. /\ Name(i)[1] = First(i) /\ Name(i)[2] = Second(i) /\ Name(i)[3] = Third(i)
      /\ Name(j)[1] = First(j) /\ Name(j)[2] = Second(j) /\ Name(j)[3] = Third(j)
  BY NameOK
<1>4. ASSUME Before(i, j)
      PROVE  \/ First(i) < First(j)
             \/ First(i) = First(j) /\ Second(i) < Second(j)
             \/ First(i) = First(j) /\ Second(i) = Second(j) /\ Third(i) < Third(j)
  <2>1. PICK p \in DOMAIN Name(i) \cap DOMAIN Name(j) :
               /\ Name(i)[p] < Name(j)[p]
               /\ \A q \in 1 .. p - 1 : Name(i)[q] = Name(j)[q]
    BY <1>4 DEF Before
  <2>2. p \in {1, 2, 3}
    BY <1>2, <2>1
  <2> QED
    BY <1>3, <2>1, <2>2
<1>5. ASSUME NEW p \in {1, 2, 3}, Name(i)[p] < Name(j)[p],
             \A q \in 1 .. p - 1 : Name(i)[q] = Name(j)[q]
      PROVE  Before(i, j)
  BY <1>2, <1>5 DEF Before
<1>6. First(i) < First(j) => Before(i, j)
  BY <1>3, <1>5
<1>7. First(i) = First(j) /\ Second(i) < Second(j) => Before(i, j)
  BY <1>3, <1>5
<1>8. First(i) = First(j) /\ Second(i) = Second(j) /\ Third(i) < Third(j) =>
        Before(i, j)
  BY <1>3, <1>5
<1> QED
  BY <1>4, <1>6, <1>7, <1>8

-----------------------------------------------------------------------------
(***************************************************************************)
(* The first run.  The stops left are the starts of the simpoints left,    *)
(* but for the start at which the program stands, which several of them    *)
(* may share.                                                              *)
(***************************************************************************)
Starting(k) == simpoints[k].start

Sorted ==
  \A k, l \in 1 .. Len(simpoints) : k <= l => Starting(k) <= Starting(l)

Left == index + 1 .. Len(simpoints)

StopsOK(here) ==
  /\ \A t \in stops : t # here /\ \E k \in Left : t = Starting(k)
  /\ \A k \in Left : /\ here <= Starting(k)
                     /\ Starting(k) = here \/ Starting(k) \in stops

TakeOK ==
  /\ pc \in {"take", "write"} => Sorted
  /\ pc = "take" =>
       /\ StopsOK(last)
       /\ index < Len(simpoints) /\ Current.start = last => inst = last
  /\ pc = "write" =>
       /\ StopsOK(inst)
       /\ index < Len(simpoints) /\ Current.start = inst
  /\ pc = "taken" =>
       \A k \in 1 .. Len(simpoints) : k <= index \/ Starting(k) > ProgramLength

\* The checkpoints on disk are those of the simpoints done.
Record(k) ==
  [index |-> k - 1, interval |-> simpoints[k].interval, start |-> Starting(k),
   warmup |-> simpoints[k].warmup, inst |-> Starting(k)]

WrittenOK ==
  /\ IsFiniteSet(cptdir)
  /\ \A c \in cptdir : \E k \in 1 .. index : c = Record(k)
  /\ \A k \in 1 .. index : Record(k) \in cptdir

TypeOK ==
  /\ pc \in {"parse", "take", "write", "taken", "fatal", "switch", "warmup",
             "measure", "exited", "done"}
  /\ files \in Analyses /\ line \in Nat
  /\ simpoints \in Seq(Points)
  /\ index \in Nat /\ index <= Len(simpoints)
  /\ pc = "parse" => index = 0 /\ last = -1
  /\ inst \in Int /\ last \in Int
  /\ stops \subseteq Int

\* The second run: where it stands and when it stops next.
Late(n) == 0 <= n /\ n <= SwitchInsts

ResumedFrom(c) ==
  /\ resumed = {c}
  /\ pc = "switch" => inst = c.start
  /\ pc = "warmup" =>
       /\ Late(inst - c.start)
       /\ stops = {inst + c.warmup, inst + c.warmup + IntervalLength}
  /\ pc = "measure" =>
       /\ measured = <<inst>> /\ Late(inst - c.warmup - c.start)
       /\ stops = {inst + IntervalLength}
  /\ pc = "done" =>
       \E m \in Int : /\ measured = <<m, m + IntervalLength>>
                      /\ Late(m - c.warmup - c.start)

SecondRun == {"switch", "warmup", "measure", "done"}

ResumeOK == pc \in SecondRun => \E c \in cptdir : ResumedFrom(c)

IInv == TypeOK /\ TakeOK /\ WrittenOK /\ ResumeOK

LEMMA Facts ==
  ASSUME IInv
  PROVE  /\ Len(simpoints) \in Nat /\ index \in Nat /\ index <= Len(simpoints)
         /\ \A k \in 1 .. Len(simpoints) :
              /\ simpoints[k] \in Points
              /\ Starting(k) \in Nat /\ simpoints[k].interval \in Nat
              /\ simpoints[k].warmup \in Nat
              /\ Starting(k) + simpoints[k].warmup =
                   simpoints[k].interval * IntervalLength
<1>1. simpoints \in Seq(Points) /\ index \in Nat /\ index <= Len(simpoints)
  BY DEF IInv, TypeOK
<1>2. /\ Len(simpoints) \in Nat
      /\ \A k \in 1 .. Len(simpoints) : simpoints[k] \in Points
  BY <1>1, ElementOfSeq, LenProperties
<1> QED
  BY <1>1, <1>2 DEF Points, Starting

LEMMA NextStopIs ==
  ASSUME stops \subseteq Int, NEW m \in stops, \A t \in stops : m <= t
  PROVE  NextStop = m
<1>1. NextStop \in stops /\ \A t \in stops : NextStop <= t
  BY DEF NextStop
<1>2. NextStop <= m /\ m <= NextStop
  BY <1>1
<1> QED
  BY <1>1, <1>2

LEMMA InitInv == Init => IInv
<1> SUFFICES ASSUME Init PROVE IInv
  OBVIOUS
<1>1. <<>> \in Seq(Points) /\ Len(<<>>) = 0
  BY EmptySeq
<1>2. TypeOK
  BY <1>1 DEF Init, TypeOK
<1>3. TakeOK /\ ResumeOK
  BY DEF Init, TakeOK, ResumeOK, SecondRun
<1>4. WrittenOK
  BY FS_EmptySet DEF Init, WrittenOK
<1> QED
  BY <1>2, <1>3, <1>4 DEF IInv

-----------------------------------------------------------------------------
LEMMA ReadLineOK == IInv /\ ReadLine => IInv'
<1> SUFFICES ASSUME IInv, ReadLine PROVE IInv'
  OBVIOUS
<1>1. /\ pc = "parse" /\ pc' \in {"parse", "fatal"}
      /\ UNCHANGED <<files, inst, stops, index, last, cptdir>>
      /\ files \in Analyses /\ line \in Nat /\ index = 0 /\ last = -1
      /\ inst \in Int /\ stops \subseteq Int
      /\ simpoints \in Seq(Points)
  BY DEF IInv, TypeOK, ReadLine
<1>2. simpoints' \in Seq(Points) /\ line' \in Nat
  <2>1. CASE UNCHANGED <<line, simpoints>>
    BY <1>1, <2>1
  <2>2. CASE ~UNCHANGED <<line, simpoints>>
    <3> DEFINE n == line + 1
    <3>1. /\ line < Len(files.intervals) /\ files.intervals[n] # Bad
          /\ line' = n
          /\ simpoints' = Append(simpoints, Simpoint(files.intervals[n]))
      BY <2>2 DEF ReadLine
    <3>2. files.intervals \in Seq(Nat \cup {Bad})
      BY <1>1, ConstantsOK
    <3>3. n \in 1 .. Len(files.intervals)
      BY <1>1, <3>1, <3>2, LenProperties
    <3>4. files.intervals[n] \in Nat
      BY <3>1, <3>2, <3>3, ElementOfSeq
    <3>5. Simpoint(files.intervals[n]) \in Points
      BY <3>4, SimpointOK
    <3> QED
      BY <1>1, <3>1, <3>5, AppendProperties
  <2> QED
    BY <2>1, <2>2
<1>3. TypeOK'
  <2>1. Len(simpoints') \in Nat
    BY <1>2, LenProperties
  <2> QED
    BY <1>1, <1>2, <2>1 DEF TypeOK
<1>4. TakeOK' /\ ResumeOK'
  BY <1>1 DEF TakeOK, ResumeOK, SecondRun
<1>5. WrittenOK'
  BY <1>1 DEF IInv, WrittenOK
<1> QED
  BY <1>3, <1>4, <1>5 DEF IInv

LEMMA StartOK == IInv /\ Start => IInv'
<1> SUFFICES ASSUME IInv, Start PROVE IInv'
  OBVIOUS
<1>1. /\ pc = "parse" /\ pc' = "take"
      /\ UNCHANGED <<files, line, inst, index, last, cptdir>>
      /\ files \in Analyses /\ line \in Nat /\ index = 0 /\ last = -1
      /\ inst \in Int
      /\ simpoints \in Seq(Points) /\ simpoints' = SortedByStart(simpoints)
      /\ stops' = {simpoints[k].start : k \in 1 .. Len(simpoints)}
  BY DEF IInv, TypeOK, Start
<1>2. /\ simpoints' \in Seq(Points) /\ Len(simpoints') = Len(simpoints)
      /\ \A k, l \in 1 .. Len(simpoints) :
           k <= l => simpoints'[k].start <= simpoints'[l].start
      /\ \A i \in 1 .. Len(simpoints) : \E k \in 1 .. Len(simpoints) :
           simpoints'[k] = simpoints[i]
      /\ \A k \in 1 .. Len(simpoints) : \E i \in 1 .. Len(simpoints) :
           simpoints'[k] = simpoints[i]
  BY <1>1, SortedOK
<1>3. /\ Len(simpoints) \in Nat
      /\ \A k \in 1 .. Len(simpoints) : simpoints[k].start \in Nat
  BY Facts DEF Starting
<1>4. \A k \in 1 .. Len(simpoints) : /\ simpoints'[k].start \in Nat
                                     /\ simpoints'[k].start \in stops'
  BY <1>1, <1>2, <1>3
<1>5. \A t \in stops' : t \in Nat /\ \E k \in 1 .. Len(simpoints) : t = simpoints'[k].start
  <2> SUFFICES ASSUME NEW t \in stops'
               PROVE  t \in Nat /\ \E k \in 1 .. Len(simpoints) : t = simpoints'[k].start
    OBVIOUS
  <2>1. PICK i \in 1 .. Len(simpoints) : t = simpoints[i].start
    BY <1>1
  <2>2. PICK k \in 1 .. Len(simpoints) : simpoints'[k] = simpoints[i]
    BY <1>2
  <2> QED
    BY <1>3, <2>1, <2>2
<1>6. TypeOK'
  BY <1>1, <1>2, <1>3, <1>5 DEF TypeOK
<1>7. TakeOK'
  <2>1. Left' = 1 .. Len(simpoints)
    BY <1>1, <1>2, <1>3 DEF Left
  <2>2. StopsOK(last)'
    <3>1. \A t \in stops' : t # last' /\ \E k \in Left' : t = simpoints'[k].start
      <4>1. last' = -1 /\ \A t \in Nat : t # -1
        BY <1>1
      <4> QED
        BY <1>5, <2>1, <4>1, Zenon
    <3>2. \A k \in Left' : last' <= simpoints'[k].start /\ simpoints'[k].start \in stops'
      <4>1. last' = -1 /\ \A t \in Nat : -1 <= t
        BY <1>1
      <4> QED
        BY <1>4, <2>1, <4>1, Zenon
    <3> QED
      BY <3>1, <3>2 DEF StopsOK, Starting
  <2>3. Sorted'
    BY <1>2 DEF Sorted, Starting
  <2>4. index' < Len(simpoints') => Current'.start # last'
    <3> SUFFICES ASSUME 0 < Len(simpoints) PROVE simpoints'[1].start # last'
      BY <1>1, <1>2 DEF Current
    <3> QED
      BY <1>1, <1>3, <1>4
  <2> QED
    BY <1>1, <2>2, <2>3, <2>4 DEF TakeOK
<1>8. WrittenOK' /\ ResumeOK'
  BY <1>1 DEF IInv, WrittenOK, ResumeOK, SecondRun
<1> QED
  BY <1>6, <1>7, <1>8 DEF IInv

-----------------------------------------------------------------------------
(***************************************************************************)
(* Taking the checkpoints.                                                 *)
(***************************************************************************)
\* The next stop is the start of the current simpoint, unless that is where
\* the program stands.
LEMMA NextIsCurrent ==
  ASSUME IInv, pc = "take", index < Len(simpoints), ~Shared
  PROVE  /\ index + 1 \in Left /\ Starting(index + 1) = Current.start
         /\ Current.start \in stops
         /\ NextStop = Current.start
         /\ Current.start \in Nat
         /\ \A k \in Left : Current.start <= Starting(k)
<1>1. /\ Len(simpoints) \in Nat /\ index \in Nat
      /\ Sorted /\ StopsOK(last) /\ stops \subseteq Int
  BY Facts DEF IInv, TakeOK, TypeOK
<1>2. /\ index + 1 \in Left /\ index + 1 \in 1 .. Len(simpoints)
      /\ \A k \in Left : k \in 1 .. Len(simpoints) /\ index + 1 <= k
  BY <1>1 DEF Left
<1>3. Current.start = Starting(index + 1)
  BY DEF Current, Starting
<1>4. Current.start \in stops /\ Current.start \in Nat
  BY <1>1, <1>2, <1>3, Facts DEF StopsOK, Shared
<1>5. \A k \in Left : Current.start <= Starting(k)
  BY <1>1, <1>2, <1>3 DEF Sorted
<1>6. \A t \in stops : Current.start <= t
  BY <1>1, <1>5 DEF StopsOK
<1> QED
  BY <1>1, <1>2, <1>3, <1>4, <1>5, <1>6, NextStopIs

LEMMA TakeSharedOK == IInv /\ TakeShared => IInv'
<1> SUFFICES ASSUME IInv, TakeShared PROVE IInv'
  OBVIOUS
<1>1. /\ pc = "take" /\ pc' = "write" /\ index < Len(simpoints)
      /\ Current.start = last
      /\ UNCHANGED <<files, line, simpoints, inst, stops, index, last, cptdir>>
  BY DEF TakeShared, Shared
<1>2. inst = last /\ StopsOK(last) /\ Sorted
  BY <1>1 DEF IInv, TakeOK
<1>3. TypeOK'
  BY <1>1 DEF IInv, TypeOK
<1>4. TakeOK'
  BY <1>1, <1>2 DEF TakeOK, StopsOK, Sorted, Starting, Left, Current
<1>5. WrittenOK' /\ ResumeOK'
  BY <1>1 DEF IInv, WrittenOK, Record, Starting, ResumeOK, SecondRun
<1> QED
  BY <1>3, <1>4, <1>5 DEF IInv

LEMMA TakeRunOK == IInv /\ TakeRun => IInv'
<1> SUFFICES ASSUME IInv, TakeRun PROVE IInv'
  OBVIOUS
<1>1. /\ pc = "take" /\ index < Len(simpoints) /\ ~Shared
      /\ UNCHANGED <<files, line, simpoints, index, last, cptdir>>
      /\ StopsOK(last) /\ Sorted /\ stops \subseteq Int
  BY DEF TakeRun, IInv, TakeOK, TypeOK
<1>2. /\ index + 1 \in Left /\ Starting(index + 1) = Current.start
      /\ Current.start \in stops
      /\ NextStop = Current.start
      /\ Current.start \in Nat
      /\ \A k \in Left : Current.start <= Starting(k)
  BY <1>1, NextIsCurrent
<1>3. WrittenOK'
  BY <1>1 DEF IInv, WrittenOK, Record, Starting
<1>4. CASE StopFound /\ pc' = "write"
  <2>1. inst' = Current.start /\ stops' = stops \ {Current.start}
    BY <1>2, <1>4 DEF StopFound
  <2>2. TypeOK'
    BY <1>1, <1>2, <1>4, <2>1 DEF IInv, TypeOK
  <2>3. StopsOK(inst)'
    <3>1. \A k \in Left : Starting(k) # last
      <4> SUFFICES ASSUME NEW k \in Left PROVE Starting(k) # last
        OBVIOUS
      <4>1. /\ last <= Starting(index + 1) /\ Starting(index + 1) # last
            /\ Starting(index + 1) <= Starting(k)
        BY <1>1, <1>2 DEF StopsOK, Shared
      <4>2. Starting(k) \in Nat /\ last \in Int /\ Starting(index + 1) \in Nat
        BY <1>2, Facts DEF IInv, TypeOK, Left
      <4> QED
        BY <4>1, <4>2
    <3>2. \A k \in Left : Starting(k) \in stops
      BY <1>1, <3>1 DEF StopsOK
    <3>3. \A t \in stops' : t # inst' /\ \E k \in Left : t = Starting(k)
      BY <1>1, <2>1 DEF StopsOK
    <3>4. \A k \in Left : /\ inst' <= Starting(k)
                          /\ Starting(k) = inst' \/ Starting(k) \in stops'
      BY <1>2, <2>1, <3>2
    <3> QED
      BY <1>1, <3>3, <3>4 DEF StopsOK, Left, Starting
  <2>4. TakeOK'
    BY <1>1, <1>4, <2>1, <2>3 DEF TakeOK, Sorted, Starting, Current
  <2>5. ResumeOK'
    BY <1>4 DEF ResumeOK, SecondRun
  <2> QED
    BY <1>3, <2>2, <2>4, <2>5 DEF IInv
<1>5. CASE GuestCheckpoint /\ UNCHANGED pc
  <2>1. TypeOK'
    BY <1>1, <1>5 DEF IInv, TypeOK, GuestCheckpoint
  <2>2. TakeOK'
    BY <1>1, <1>5 DEF TakeOK, StopsOK, Sorted, Starting, Left, Current, Shared,
                      GuestCheckpoint
  <2>3. ResumeOK'
    BY <1>1, <1>5 DEF ResumeOK, SecondRun
  <2> QED
    BY <1>3, <2>1, <2>2, <2>3 DEF IInv
<1>6. CASE ProgramEnd /\ pc' = "taken"
  <2>1. /\ ~(Current.start <= ProgramLength)
        /\ stops' = stops /\ inst' = ProgramLength
    BY <1>2, <1>6 DEF ProgramEnd, HasStop
  <2>2. TypeOK'
    BY <1>1, <1>6, <2>1, ConstantsOK DEF IInv, TypeOK
  <2>3. \A k \in 1 .. Len(simpoints) : k <= index \/ Starting(k) > ProgramLength
    <3> SUFFICES ASSUME NEW k \in 1 .. Len(simpoints), ~(k <= index)
                 PROVE  Starting(k) > ProgramLength
      OBVIOUS
    <3>1. k \in Left
      BY Facts DEF Left
    <3>2. Starting(k) \in Nat /\ Current.start <= Starting(k)
      BY <1>2, <3>1, Facts
    <3> QED
      BY <1>2, <2>1, <3>2, ConstantsOK
  <2>4. TakeOK'
    BY <1>1, <1>6, <2>3 DEF TakeOK, Starting
  <2>5. ResumeOK'
    BY <1>6 DEF ResumeOK, SecondRun
  <2> QED
    BY <1>3, <2>2, <2>4, <2>5 DEF IInv
<1> QED
  BY <1>4, <1>5, <1>6 DEF TakeRun

LEMMA WriteOK == IInv /\ Write => IInv'
<1> SUFFICES ASSUME IInv, Write PROVE IInv'
  OBVIOUS
<1>1. /\ pc = "write" /\ pc' = "take" /\ index < Len(simpoints)
      /\ index' = index + 1 /\ last' = Current.start /\ Current.start = inst
      /\ UNCHANGED <<files, line, simpoints, inst, stops>>
      /\ StopsOK(inst) /\ Sorted
  BY DEF Write, IInv, TakeOK
<1>2. /\ Len(simpoints) \in Nat /\ index \in Nat
      /\ index + 1 \in 1 .. Len(simpoints) /\ Starting(index + 1) = inst
  BY <1>1, Facts DEF Current, Starting
<1>3. cptdir' = cptdir \cup {Record(index + 1)}
  BY <1>1, <1>2 DEF Write, Record, Current, Starting
<1>4. TypeOK'
  BY <1>1, <1>2 DEF IInv, TypeOK
<1>5. StopsOK(last)'
  <2>1. /\ Left' \subseteq Left
        /\ \A k \in Left : k \in Left' \/ k = index + 1
    BY <1>1, <1>2 DEF Left
  <2>2. \A t \in stops : t # inst /\ \E k \in Left' : t = Starting(k)
    BY <1>1, <1>2, <2>1 DEF StopsOK
  <2>3. \A k \in Left' : /\ inst <= Starting(k)
                         /\ Starting(k) = inst \/ Starting(k) \in stops
    BY <1>1, <2>1 DEF StopsOK
  <2> QED
    BY <1>1, <2>2, <2>3 DEF StopsOK, Starting
<1>6. TakeOK'
  BY <1>1, <1>5 DEF TakeOK, Sorted, Starting
<1>7. WrittenOK'
  <2>1. IsFiniteSet(cptdir')
    BY <1>3, FS_AddElement DEF IInv, WrittenOK
  <2>2. \A k \in 1 .. index' : k \in 1 .. index \/ k = index + 1
    BY <1>1, <1>2
  <2>3. \A k \in 1 .. index : k \in 1 .. index'
    BY <1>1, <1>2
  <2>4. index + 1 \in 1 .. index'
    BY <1>1, <1>2
  <2>5. \A k : Record(k)' = Record(k)
    BY <1>1 DEF Record, Starting
  <2>6. \A c \in cptdir' : \E k \in 1 .. index' : c = Record(k)
    BY <1>3, <2>3, <2>4 DEF IInv, WrittenOK
  <2>7. \A k \in 1 .. index' : Record(k) \in cptdir'
    BY <1>3, <2>2 DEF IInv, WrittenOK
  <2> QED
    BY <2>1, <2>5, <2>6, <2>7 DEF WrittenOK
<1>8. ResumeOK'
  BY <1>1 DEF ResumeOK, SecondRun
<1> QED
  BY <1>4, <1>6, <1>7, <1>8 DEF IInv

LEMMA AllTakenOK == IInv /\ AllTaken => IInv'
<1> SUFFICES ASSUME IInv, AllTaken PROVE IInv'
  OBVIOUS
<1>1. /\ pc' = "taken" /\ index = Len(simpoints)
      /\ UNCHANGED <<files, line, simpoints, inst, stops, index, last, cptdir>>
  BY DEF AllTaken
<1>2. TypeOK' /\ WrittenOK' /\ ResumeOK'
  BY <1>1 DEF IInv, TypeOK, WrittenOK, Record, Starting, ResumeOK, SecondRun
<1>3. TakeOK'
  BY <1>1, Facts DEF TakeOK
<1> QED
  BY <1>2, <1>3 DEF IInv

-----------------------------------------------------------------------------
(***************************************************************************)
(* The second run.                                                         *)
(***************************************************************************)
LEMMA RecordOK ==
  ASSUME IInv, NEW c \in cptdir
  PROVE  /\ c.index \in Nat /\ c.start \in Nat /\ c.warmup \in Nat
         /\ c.interval \in Nat /\ c.inst = c.start
         /\ c.start + c.warmup = c.interval * IntervalLength
<1>1. PICK k \in 1 .. index : c = Record(k)
  BY DEF IInv, WrittenOK
<1>2. k \in 1 .. Len(simpoints) /\ k - 1 \in Nat
  BY Facts
<1> QED
  BY <1>1, <1>2, Facts DEF Record

LEMMA RecordsDiffer ==
  ASSUME IInv, NEW c \in cptdir, NEW d \in cptdir, c.index = d.index
  PROVE  c = d
<1>1. PICK k \in 1 .. index : c = Record(k)
  BY DEF IInv, WrittenOK
<1>2. PICK l \in 1 .. index : d = Record(l)
  BY DEF IInv, WrittenOK
<1>3. k = l
  BY <1>1, <1>2, Facts DEF Record
<1> QED
  BY <1>1, <1>2, <1>3

\* A number selects one checkpoint: the names are in a strict order.
Predecessors(c) == {d \in cptdir : Before(d.index, c.index)}

LEMMA Precedes ==
  ASSUME IInv, NEW c \in cptdir, NEW d \in cptdir, Before(c.index, d.index)
  PROVE  Cardinality(Predecessors(c)) < Cardinality(Predecessors(d))
<1>1. \A e \in cptdir : /\ e.index \in Nat
                        /\ First(e.index) \in Nat /\ Second(e.index) \in Nat
                        /\ Third(e.index) \in Nat
  BY RecordOK, CharactersOK
<1>2. Predecessors(c) \subseteq Predecessors(d)
  <2> SUFFICES ASSUME NEW e \in cptdir, Before(e.index, c.index)
               PROVE  Before(e.index, d.index)
    BY DEF Predecessors
  <2> QED
    BY <1>1, BeforeByCharacters
<1>3. c \in Predecessors(d) /\ c \notin Predecessors(c)
  <2>1. ~Before(c.index, c.index)
    BY <1>1, BeforeByCharacters
  <2> QED
    BY <2>1 DEF Predecessors
<1>4. IsFiniteSet(Predecessors(c)) /\ IsFiniteSet(Predecessors(d))
  <2>1. IsFiniteSet(cptdir)
    BY DEF IInv, WrittenOK
  <2> QED
    BY <2>1, FS_Subset DEF Predecessors
<1>5. /\ Cardinality(Predecessors(c)) <= Cardinality(Predecessors(d))
      /\ Cardinality(Predecessors(c)) # Cardinality(Predecessors(d))
  BY <1>2, <1>3, <1>4, FS_Subset
<1> QED
  BY <1>4, <1>5, FS_CardinalityType

LEMMA NthIsOne ==
  ASSUME IInv, NEW n, NEW c \in Nth(n), NEW d \in Nth(n)
  PROVE  c = d
<1>1. /\ c \in cptdir /\ d \in cptdir
      /\ Cardinality(Predecessors(c)) = Cardinality(Predecessors(d))
  BY DEF Nth, Predecessors
<1>2. Cardinality(Predecessors(c)) \in Nat
  <2>1. IsFiniteSet(cptdir)
    BY DEF IInv, WrittenOK
  <2> QED
    BY <2>1, FS_Subset, FS_CardinalityType DEF Predecessors
<1>3. ~Before(c.index, d.index) /\ ~Before(d.index, c.index)
  BY <1>1, <1>2, Precedes
<1>4. c.index \in Nat /\ d.index \in Nat
  BY <1>1, RecordOK
<1>5. c.index = d.index
  <2> DEFINE i == c.index
             j == d.index
  <2>1. /\ First(i) \in Nat /\ Second(i) \in Nat /\ Third(i) \in Nat
        /\ First(j) \in Nat /\ Second(j) \in Nat /\ Third(j) \in Nat
    BY <1>4, CharactersOK
  <2>2. First(i) = First(j) /\ Second(i) = Second(j) /\ Third(i) = Third(j)
    BY <1>3, <1>4, <2>1, BeforeByCharacters
  <2> QED
    BY <1>4, <2>2, CharactersTellIndex
<1> QED
  BY <1>1, <1>5, RecordsDiffer

\* What the second run leaves alone.
LEMMA SecondFrame ==
  ASSUME IInv, UNCHANGED <<files, line, simpoints, index, last, cptdir>>,
         pc' \in {"fatal", "switch", "warmup", "measure", "exited", "done"},
         inst' \in Int, stops' \subseteq Int
  PROVE  TypeOK' /\ TakeOK' /\ WrittenOK'
<1>1. TypeOK'
  BY DEF IInv, TypeOK
<1>2. TakeOK'
  BY DEF TakeOK
<1>3. WrittenOK'
  BY DEF IInv, WrittenOK, Record, Starting
<1> QED
  BY <1>1, <1>2, <1>3

LEMMA RestoreOK == IInv /\ Restore => IInv'
<1> SUFFICES ASSUME IInv, Restore PROVE IInv'
  OBVIOUS
<1>1. UNCHANGED <<files, line, simpoints, index, last, cptdir>>
  BY DEF Restore
<1>2. inst \in Int /\ stops \subseteq Int
  BY DEF IInv, TypeOK
<1>3. CASE pc' = "fatal" /\ UNCHANGED <<inst, stops>>
  <2>1. ResumeOK'
    BY <1>3 DEF ResumeOK, SecondRun
  <2> QED
    BY <1>1, <1>2, <1>3, <2>1, SecondFrame DEF IInv
<1>4. ASSUME NEW n, NEW c \in Nth(n), resumed' = Nth(n), inst' = c.inst,
             stops' = {c.inst + c.warmup, c.inst + c.warmup + IntervalLength},
             pc' = "switch"
      PROVE  IInv'
  <2>1. resumed' = {c}
    BY <1>4, NthIsOne
  <2>2. c \in cptdir
    BY DEF Nth
  <2>3. c.start \in Nat /\ c.warmup \in Nat /\ c.inst = c.start
    BY <2>2, RecordOK
  <2>4. inst' \in Int /\ stops' \subseteq Int
    BY <1>4, <2>3, ConstantsOK
  <2>5. ResumeOK'
    <3>1. ResumedFrom(c)'
      BY <1>4, <2>1, <2>3 DEF ResumedFrom
    <3> QED
      BY <1>1, <2>2, <3>1 DEF ResumeOK
  <2> QED
    BY <1>1, <1>4, <2>4, <2>5, SecondFrame DEF IInv
<1> QED
  BY <1>3, <1>4 DEF Restore

LEMMA SwitchOK == IInv /\ Switch => IInv'
<1> SUFFICES ASSUME IInv, Switch PROVE IInv'
  OBVIOUS
<1>1. /\ UNCHANGED <<files, line, simpoints, index, last, cptdir, resumed>>
      /\ pc = "switch" /\ pc' = "warmup"
      /\ inst' \in inst .. inst + SwitchInsts
      /\ stops' = {inst' + Warmup, inst' + Warmup + IntervalLength}
  BY DEF Switch
<1>2. PICK c \in cptdir : ResumedFrom(c)
  BY <1>1 DEF IInv, ResumeOK, SecondRun
<1>3. /\ resumed = {c} /\ inst = c.start /\ Warmup = c.warmup
      /\ c.start \in Nat /\ c.warmup \in Nat
  BY <1>1, <1>2, RecordOK DEF ResumedFrom, Warmup
<1>4. inst' \in Int /\ stops' \subseteq Int /\ Late(inst' - c.start)
  BY <1>1, <1>3, ConstantsOK DEF Late
<1>5. ResumeOK'
  <2>1. ResumedFrom(c)'
    BY <1>1, <1>3, <1>4 DEF ResumedFrom, Late
  <2> QED
    BY <1>1, <2>1 DEF ResumeOK
<1> QED
  BY <1>1, <1>4, <1>5, SecondFrame DEF IInv

\* Any event but a stop ends the run.
LEMMA OtherExitOK ==
  ASSUME IInv, GuestCheckpoint \/ ProgramEnd, pc' = "exited",
         UNCHANGED <<files, line, simpoints, index, last, cptdir>>
  PROVE  IInv'
<1>1. stops' = stops /\ stops \subseteq Int
  BY DEF IInv, TypeOK, GuestCheckpoint, ProgramEnd
<1>2. inst' \in Int
  BY ConstantsOK DEF GuestCheckpoint, ProgramEnd
<1>3. ResumeOK'
  BY DEF ResumeOK, SecondRun
<1> QED
  BY <1>1, <1>2, <1>3, SecondFrame DEF IInv

LEMMA WarmUpOK == IInv /\ WarmUp => IInv'
<1> SUFFICES ASSUME IInv, WarmUp PROVE IInv'
  OBVIOUS
<1>1. /\ UNCHANGED <<files, line, simpoints, index, last, cptdir, resumed>>
      /\ pc = "warmup"
  BY DEF WarmUp
<1>2. CASE StopFound /\ pc' = "measure" /\ measured' = <<inst'>>
  <2>1. PICK c \in cptdir : ResumedFrom(c)
    BY <1>1 DEF IInv, ResumeOK, SecondRun
  <2>2. /\ resumed = {c} /\ Late(inst - c.start) /\ inst \in Int
        /\ stops = {inst + c.warmup, inst + c.warmup + IntervalLength}
        /\ c.start \in Nat /\ c.warmup \in Nat
    BY <1>1, <2>1, RecordOK DEF ResumedFrom, IInv, TypeOK
  <2>3. NextStop = inst + c.warmup
    <3>1. /\ stops \subseteq Int /\ inst + c.warmup \in stops
          /\ \A t \in stops : inst + c.warmup <= t
      BY <2>2, ConstantsOK
    <3> QED
      BY <3>1, NextStopIs
  <2>4. inst' = inst + c.warmup /\ stops' = {inst' + IntervalLength}
    BY <1>2, <2>2, <2>3, ConstantsOK DEF StopFound
  <2>5. inst' \in Int /\ stops' \subseteq Int /\ Late(inst' - c.warmup - c.start)
    BY <2>2, <2>4, ConstantsOK DEF Late
  <2>6. ResumeOK'
    <3>1. ResumedFrom(c)'
      BY <1>1, <1>2, <2>2, <2>4, <2>5 DEF ResumedFrom, Late
    <3> QED
      BY <1>1, <3>1 DEF ResumeOK
  <2> QED
    BY <1>1, <1>2, <2>5, <2>6, SecondFrame DEF IInv
<1> QED
  BY <1>1, <1>2, OtherExitOK DEF WarmUp

LEMMA MeasureOK == IInv /\ Measure => IInv'
<1> SUFFICES ASSUME IInv, Measure PROVE IInv'
  OBVIOUS
<1>1. /\ UNCHANGED <<files, line, simpoints, index, last, cptdir, resumed>>
      /\ pc = "measure"
  BY DEF Measure
<1>2. CASE StopFound /\ pc' = "done" /\ measured' = Append(measured, inst')
  <2>1. PICK c \in cptdir : ResumedFrom(c)
    BY <1>1 DEF IInv, ResumeOK, SecondRun
  <2>2. /\ resumed = {c} /\ Late(inst - c.warmup - c.start) /\ inst \in Int
        /\ measured = <<inst>> /\ stops = {inst + IntervalLength}
    BY <1>1, <2>1 DEF ResumedFrom, IInv, TypeOK
  <2>3. NextStop = inst + IntervalLength
    BY <2>2 DEF NextStop
  <2>4. inst' = inst + IntervalLength /\ stops' = {}
    BY <1>2, <2>2, <2>3 DEF StopFound
  <2>5. measured' = <<inst, inst + IntervalLength>>
    <3> DEFINE end == inst + IntervalLength
    <3>1. end \in Int
      BY <2>2, ConstantsOK
    <3>2. measured' = Append(<<inst>>, end)
      BY <1>2, <2>2, <2>4
    <3> HIDE DEF end
    <3>3. Append(<<inst>>, end) = <<inst, end>>
      <4> DEFINE s == Append(<<inst>>, end)
                 t == <<inst, end>>
      <4>1. /\ <<inst>> \in Seq(Int) /\ Len(<<inst>>) = 1 /\ <<inst>>[1] = inst
            /\ t \in Seq(Int) /\ Len(t) = 2 /\ t[1] = inst /\ t[2] = end
        BY <2>2, <3>1
      <4>2. s \in Seq(Int) /\ Len(s) = 2 /\ s[1] = inst /\ s[2] = end
        BY <3>1, <4>1, AppendProperties
      <4> HIDE DEF s, t
      <4>3. \A i \in 1 .. Len(s) : s[i] = t[i]
        BY <4>1, <4>2
      <4>4. s = t
        BY <4>1, <4>2, <4>3, SeqEqual
      <4> QED
        BY <4>4 DEF s, t
    <3> QED
      BY <3>2, <3>3 DEF end
  <2>6. inst' \in Int /\ stops' \subseteq Int
    BY <2>2, <2>4, ConstantsOK
  <2>7. ResumeOK'
    <3>1. ResumedFrom(c)'
      BY <1>1, <1>2, <2>2, <2>5 DEF ResumedFrom, Late
    <3> QED
      BY <1>1, <3>1 DEF ResumeOK
  <2> QED
    BY <1>1, <1>2, <2>6, <2>7, SecondFrame DEF IInv
<1> QED
  BY <1>1, <1>2, OtherExitOK DEF Measure

LEMMA StutterOK == IInv /\ UNCHANGED vars => IInv'
BY DEF vars, IInv, TypeOK, TakeOK, Sorted, StopsOK, Left, Current, WrittenOK,
       Record, Starting, ResumeOK, ResumedFrom, SecondRun, Late

LEMMA Inductive == Spec => []IInv
<1>1. IInv /\ [Next]_vars => IInv'
  BY ReadLineOK, StartOK, TakeSharedOK, TakeRunOK, WriteOK, AllTakenOK,
     RestoreOK, SwitchOK, WarmUpOK, MeasureOK, StutterOK DEF Next
<1> QED
  BY InitInv, <1>1, PTL DEF Spec

-----------------------------------------------------------------------------
(***************************************************************************)
(* The theorems.                                                           *)
(***************************************************************************)

\* Whatever the analysis, the simpoints that share a start and the checkpoint
\* instructions of the program: every checkpoint takeSimpointCheckpoints
\* writes holds the program at the start its name gives, and a simpoint
\* without a checkpoint is one the program ends before.
THEOREM CheckpointsAtStart == Spec => []WrittenAtStart
<1>1. IInv => WrittenAtStart
  <2> SUFFICES ASSUME IInv PROVE WrittenAtStart
    OBVIOUS
  <2>1. \A c \in cptdir : c.inst = c.start
    BY RecordOK
  <2>2. ASSUME pc = "taken", NEW k \in 1 .. Len(simpoints),
               ~(simpoints[k].start > ProgramLength)
        PROVE  \E c \in cptdir :
                 c.index = k - 1 /\ c.interval = simpoints[k].interval
    <3>1. k \in 1 .. index
      BY <2>2, Facts DEF IInv, TakeOK, Starting
    <3>2. Record(k) \in cptdir
      BY <3>1 DEF IInv, WrittenOK
    <3> QED
      BY <3>2 DEF Record
  <2> QED
    BY <2>1, <2>2 DEF WrittenAtStart
<1> QED
  BY Inductive, <1>1, PTL

\* The statistics restoreSimpointCheckpoint dumps are those of one interval,
\* the one the analysis chose, late at most by what the CPU of the checkpoint
\* executes before it hands over.
THEOREM IntervalMeasured == Spec => []MeasuresItsInterval
<1>1. IInv => MeasuresItsInterval
  <2> SUFFICES ASSUME IInv, pc = "done", NEW d \in resumed
               PROVE  /\ measured[2] - measured[1] = IntervalLength
                      /\ measured[1] - d.interval * IntervalLength \in 0 .. SwitchInsts
    BY DEF MeasuresItsInterval
  <2>1. PICK c \in cptdir : ResumedFrom(c)
    BY DEF IInv, ResumeOK, SecondRun
  <2>2. PICK m \in Int : /\ measured = <<m, m + IntervalLength>>
                         /\ Late(m - c.warmup - c.start)
    BY <2>1 DEF ResumedFrom
  <2>3. d = c
    BY <2>1 DEF ResumedFrom
  <2>4. /\ c.start \in Nat /\ c.warmup \in Nat
        /\ c.start + c.warmup = c.interval * IntervalLength
    BY RecordOK
  <2>5. m - c.interval * IntervalLength = m - c.warmup - c.start
    <3> DEFINE from == c.interval * IntervalLength
    <3>1. from = c.start + c.warmup
      BY <2>4
    <3> HIDE DEF from
    <3>2. m - from = m - c.warmup - c.start
      BY <2>2, <2>4, <3>1
    <3> QED
      BY <3>2 DEF from
  <2>6. m - c.warmup - c.start \in 0 .. SwitchInsts
    BY <2>2, <2>4, ConstantsOK DEF Late
  <2>7. measured[1] = m /\ measured[2] = m + IntervalLength
    BY <2>2
  <2>8. measured[1] - d.interval * IntervalLength \in 0 .. SwitchInsts
    BY <2>3, <2>5, <2>6, <2>7
  <2>9. measured[2] - measured[1] = IntervalLength
    BY <2>2, <2>7, ConstantsOK
  <2> QED
    BY <2>8, <2>9
<1> QED
  BY Inductive, <1>1, PTL
-----------------------------------------------------------------------------
(***************************************************************************)
(* The number of a checkpoint.  Up to 100 simpoints the names are in the   *)
(* order of the indices, so that a checkpoint has as many before it as its *)
(* index says.                                                             *)
(***************************************************************************)
FewEnough ==
  /\ Len(simpoints) <= Len(files.intervals)
  /\ pc = "parse" => Len(simpoints) = line

NumberedOK == FewEnough /\ ResumesTheNth

LEMMA BeforeIsLess ==
  ASSUME NEW i \in Nat, NEW j \in Nat, i < 100, j < 100
  PROVE  Before(i, j) <=> i < j
<1>1. /\ i \div 10 \in Nat /\ i % 10 \in 0 .. 9 /\ i = 10 * (i \div 10) + (i % 10)
      /\ j \div 10 \in Nat /\ j % 10 \in 0 .. 9 /\ j = 10 * (j \div 10) + (j % 10)
  BY DivMod
<1>2. Before(i, j) <=> \/ i \div 10 < j \div 10
                       \/ i \div 10 = j \div 10 /\ i % 10 < j % 10
  BY BeforeByCharacters DEF First, Second, Third
<1> QED
  BY <1>1, <1>2

LEMMA IndexIsNumber ==
  ASSUME IInv, Len(simpoints) <= 100, NEW c \in cptdir
  PROVE  Cardinality(Predecessors(c)) = c.index
<1>1. /\ Len(simpoints) \in Nat /\ index \in Nat /\ index <= 100
  BY Facts
<1>2. \A d \in cptdir : d.index \in Nat /\ d.index < index
  <2> SUFFICES ASSUME NEW d \in cptdir PROVE d.index \in Nat /\ d.index < index
    OBVIOUS
  <2>1. PICK k \in 1 .. index : d = Record(k)
    BY DEF IInv, WrittenOK
  <2> QED
    BY <1>1, <2>1 DEF Record
<1>3. \A d \in cptdir : Before(d.index, c.index) <=> d.index < c.index
  BY <1>1, <1>2, BeforeIsLess
<1> DEFINE S == Predecessors(c)
           T == 0 .. c.index - 1
           g == [d \in S |-> d.index]
<1>4. IsFiniteSet(S)
  <2>1. IsFiniteSet(cptdir) /\ S \subseteq cptdir
    BY DEF IInv, WrittenOK, Predecessors
  <2> QED
    BY <2>1, FS_Subset
<1>5. S = {d \in cptdir : d.index < c.index}
  BY <1>3 DEF Predecessors
<1>6. g \in [S -> T]
  BY <1>2, <1>5
<1>7. \A t \in T : \E d \in S : g[d] = t
  <2> SUFFICES ASSUME NEW t \in T PROVE \E d \in S : d.index = t
    OBVIOUS
  <2>1. t + 1 \in 1 .. index
    BY <1>1, <1>2
  <2>2. Record(t + 1) \in cptdir /\ Record(t + 1).index = t
    BY <2>1 DEF IInv, WrittenOK, Record
  <2>3. t < c.index
    BY <1>2
  <2> QED
    BY <1>5, <2>2, <2>3
<1>8. \A d, e \in S : g[d] = g[e] => d = e
  BY <1>5, RecordsDiffer
<1> HIDE DEF g
<1>9. g \in Surjection(S, T) /\ g \in Injection(S, T)
  BY <1>6, <1>7, <1>8, Fun_IsSurj, Fun_IsInj
<1>10. Cardinality(S) = Cardinality(T)
  BY <1>4, <1>9, FS_Surjection
<1>11. Cardinality(T) = c.index
  <2> DEFINE e == c.index - 1
  <2>1. c.index \in Nat /\ 0 \in Int /\ e \in Int
    BY <1>2
  <2> HIDE DEF e
  <2>2. Cardinality(0 .. e) = IF 0 > e THEN 0 ELSE e - 0 + 1
    BY <2>1, FS_Interval, Zenon
  <2> QED
    BY <2>1, <2>2 DEF e
<1> QED
  BY <1>10, <1>11

LEMMA NumberedStep ==
  ASSUME \A a \in Analyses : Len(a.intervals) <= 100,
         IInv, NumberedOK, [Next]_vars
  PROVE  NumberedOK'
<1>1. CASE ReadLine
  <2>1. /\ UNCHANGED <<files, number, resumed>> /\ pc = "parse"
        /\ Len(simpoints) = line /\ line \in Nat
        /\ simpoints \in Seq(Points)
    BY <1>1 DEF ReadLine, NumberedOK, FewEnough, IInv, TypeOK
  <2>2. CASE UNCHANGED <<line, simpoints>>
    BY <2>1, <2>2 DEF NumberedOK, FewEnough, ResumesTheNth
  <2>3. CASE ~UNCHANGED <<line, simpoints>>
    <3>1. /\ line < Len(files.intervals) /\ line' = line + 1
          /\ files.intervals[line + 1] # Bad
          /\ simpoints' = Append(simpoints, Simpoint(files.intervals[line + 1]))
      BY <1>1, <2>3 DEF ReadLine
    <3>2. files.intervals \in Seq(Nat \cup {Bad})
      BY ConstantsOK DEF IInv, TypeOK
    <3>3. Simpoint(files.intervals[line + 1]) \in Points
      <4>1. line + 1 \in 1 .. Len(files.intervals)
        BY <2>1, <3>1, <3>2, LenProperties
      <4>2. files.intervals[line + 1] \in Nat
        BY <3>1, <3>2, <4>1, ElementOfSeq
      <4> QED
        BY <4>2, SimpointOK
    <3>4. Len(simpoints') = line + 1
      BY <2>1, <3>1, <3>3, AppendProperties
    <3>5. Len(files.intervals) \in Nat
      BY <3>2, LenProperties
    <3> QED
      BY <2>1, <3>1, <3>4, <3>5 DEF NumberedOK, FewEnough, ResumesTheNth
  <2> QED
    BY <2>2, <2>3
<1>2. CASE Start
  <2>1. /\ UNCHANGED <<files, number, resumed>> /\ pc' = "take"
        /\ simpoints' = SortedByStart(simpoints) /\ simpoints \in Seq(Points)
    BY <1>2 DEF Start, IInv, TypeOK
  <2>2. Len(simpoints') = Len(simpoints)
    BY <2>1, SortedOK
  <2> QED
    BY <2>1, <2>2 DEF NumberedOK, FewEnough, ResumesTheNth
<1>3. CASE Restore
  <2>1. /\ UNCHANGED <<files, simpoints>> /\ pc' # "parse"
        /\ \E n \in 1 .. Cardinality(cptdir) + 1 : number' = n /\ resumed' = Nth(n)
    BY <1>3 DEF Restore
  <2>2. FewEnough'
    BY <2>1 DEF NumberedOK, FewEnough
  <2>3. Len(simpoints) <= 100
    <3>1. /\ files.intervals \in Seq(Nat \cup {Bad}) /\ Len(files.intervals) <= 100
          /\ Len(simpoints) <= Len(files.intervals)
      BY ConstantsOK DEF IInv, TypeOK, NumberedOK, FewEnough
    <3>2. Len(files.intervals) \in Nat /\ Len(simpoints) \in Nat
      BY <3>1, LenProperties, Facts
    <3> QED
      BY <3>1, <3>2
  <2>4. PICK n \in 1 .. Cardinality(cptdir) + 1 : number' = n /\ resumed' = Nth(n)
    BY <2>1
  <2>5. ASSUME NEW c \in Nth(n) PROVE c.index = n - 1
    <3>1. c \in cptdir /\ Cardinality(Predecessors(c)) = n - 1
      BY DEF Nth, Predecessors
    <3> QED
      BY <2>3, <3>1, IndexIsNumber
  <2> QED
    BY <2>2, <2>4, <2>5 DEF NumberedOK, ResumesTheNth
<1>4. CASE TakeShared \/ TakeRun \/ Write \/ AllTaken \/ Switch \/ WarmUp \/ Measure
           \/ UNCHANGED vars
  <2>1. UNCHANGED <<files, simpoints, line, number, resumed>>
    BY <1>4 DEF TakeShared, TakeRun, Write, AllTaken, Switch, WarmUp, Measure, vars
  <2>2. pc' = "parse" => pc = "parse"
    BY <1>4 DEF TakeShared, TakeRun, Write, AllTaken, Switch, WarmUp, Measure, vars
  <2> QED
    BY <2>1, <2>2 DEF NumberedOK, FewEnough, ResumesTheNth
<1> QED
  BY <1>1, <1>2, <1>3, <1>4 DEF Next

\* --checkpoint-restore N resumes the N-th simpoint in program order, however
\* many simpoints were left out and whatever shares a start, as long as the
\* indices in the names have two digits.
THEOREM NumberedInOrder ==
  ASSUME \A a \in Analyses : Len(a.intervals) <= 100
  PROVE  Spec => []ResumesTheNth
<1>1. Init => NumberedOK
  <2> SUFFICES ASSUME Init PROVE NumberedOK
    OBVIOUS
  <2>1. files.intervals \in Seq(Nat \cup {Bad})
    BY ConstantsOK DEF Init
  <2>2. Len(files.intervals) \in Nat
    BY <2>1, LenProperties
  <2> QED
    BY <2>2 DEF Init, NumberedOK, FewEnough, ResumesTheNth
<1>2. IInv /\ NumberedOK /\ [Next]_vars => NumberedOK'
  BY NumberedStep
<1>3. NumberedOK => ResumesTheNth
  BY DEF NumberedOK
<1> QED
  BY Inductive, <1>1, <1>2, <1>3, PTL DEF Spec
=============================================================================
