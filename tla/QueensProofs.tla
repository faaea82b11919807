---------------------------- MODULE QueensProofs ----------------------------
(***************************************************************************)
(* Proofs about the queens benchmark, for every board size and every set   *)
(* of command lines.                                                       *)
(***************************************************************************)
EXTENDS Queens, TLAPS, SequenceTheorems, FiniteSetTheorems

(***************************************************************************)
(* The ranks whose queen stands on the board: those below the level being  *)
(* filled, and the level itself while find(level+1) is returning to it.    *)
(***************************************************************************)
Placed == IF pc = "unwind" THEN 0 .. level ELSE 0 .. level - 1

Searching == pc \in {"enter", "scan", "unwind"}

\* Where the search can be.
ControlOK ==
  /\ pc = "args" => found = {}
  /\ Searching => level <= queens /\ queens > 0
  /\ pc \in {"scan", "unwind"} => level < queens
  /\ pc = "unwind" => f[level] < queens

\* A queen on the board owns its file and its diagonals ...
QueensOwnLines ==
  Searching => \A r \in Placed :
    /\ f[r] < queens
    /\ queen[r] = f[r]
    /\ file[queen[r]] = r
    /\ fordiag[ForDiag(r, queen[r])] = r
    /\ bakdiag[BakDiag(r, queen[r])] = r

\* ... and nothing else is owned: find() takes every mark back.
OthersAreEmpty ==
  Searching =>
    /\ \A c \in Files :
         \/ file[c] = EMPTY
         \/ file[c] \in Placed /\ queen[file[c]] = c
    /\ \A d \in Diags :
         \/ fordiag[d] = EMPTY
         \/ fordiag[d] \in Placed /\ ForDiag(fordiag[d], queen[fordiag[d]]) = d
    /\ \A d \in Diags :
         \/ bakdiag[d] = EMPTY
         \/ bakdiag[d] \in Placed /\ BakDiag(bakdiag[d], queen[bakdiag[d]]) = d

IInv ==
  /\ TypeOK
  /\ ControlOK
  /\ QueensOwnLines
  /\ OthersAreEmpty
  /\ CountedBoardsArePeaceful

-----------------------------------------------------------------------------
(***************************************************************************)
(* Types.                                                                  *)
(***************************************************************************)
LEMMA SizesOK ==
  /\ MAXQUEENS \in Nat /\ MAXQUEENS > 0
  /\ MAXDIAGS = MAXQUEENS + MAXQUEENS - 1
  /\ EMPTY = MAXQUEENS + 1
BY QueensAssumption DEF MAXDIAGS, EMPTY

\* Squares of the board touch the file and diagonal arrays in bounds.
LEMMA DiagonalsExist ==
  ASSUME queens \in 0 .. MAXQUEENS,
         NEW r \in 0 .. queens - 1, NEW c \in 0 .. queens - 1
  PROVE  /\ r \in Files /\ c \in Files
         /\ ForDiag(r, c) \in Diags
         /\ BakDiag(r, c) \in Diags
BY SizesOK DEF Files, Diags, ForDiag, BakDiag

LEMMA ArgumentsOK ==
  ASSUME argv \in Seq(Argument), argv # <<>>
  PROVE  Head(argv) \in Argument /\ Tail(argv) \in Seq(Argument)
BY HeadTailProperties

LEMMA InitInv == Init => IInv
<1> SUFFICES ASSUME Init PROVE IInv
  OBVIOUS
<1>1. TypeOK
  <2>1. 0 \in Files /\ 0 \in 0 .. EMPTY /\ 0 \in 0 .. MAXQUEENS
    BY SizesOK DEF Files
  <2>2. /\ f \in [0 .. MAXQUEENS -> 0 .. MAXQUEENS]
        /\ queen \in [Files -> Files] /\ file \in [Files -> 0 .. EMPTY]
        /\ fordiag \in [Diags -> 0 .. EMPTY] /\ bakdiag \in [Diags -> 0 .. EMPTY]
    BY <2>1 DEF Init
  <2>3. argv \in Seq(Argument)
    BY QueensAssumption DEF Init
  <2> QED
    BY <2>1, <2>2, <2>3 DEF Init, TypeOK
<1>2. ControlOK /\ QueensOwnLines /\ OthersAreEmpty
  BY DEF Init, ControlOK, QueensOwnLines, OthersAreEmpty, Searching
<1>3. CountedBoardsArePeaceful
  BY DEF Init, CountedBoardsArePeaceful
<1> QED
  BY <1>1, <1>2, <1>3 DEF IInv

LEMMA MarkOK ==
  ASSUME TypeOK, NEW r \in 0 .. queens - 1, NEW c \in 0 .. queens - 1,
         NEW o \in 0 .. EMPTY, Mark(r, c, o)
  PROVE  /\ file' \in [Files -> 0 .. EMPTY]
         /\ fordiag' \in [Diags -> 0 .. EMPTY]
         /\ bakdiag' \in [Diags -> 0 .. EMPTY]
BY DEF Mark, TypeOK

\* Every variable keeps its type.
LEMMA StepTypeOK == IInv /\ [Next]_vars => TypeOK'
<1> SUFFICES ASSUME IInv, [Next]_vars PROVE TypeOK'
  OBVIOUS
<1> TypeOK /\ ControlOK /\ QueensOwnLines
  BY DEF IInv
<1> USE SizesOK
<1>1. CASE ScanOption
  <2>1. argv' \in Seq(Argument)
    BY <1>1, ArgumentsOK DEF ScanOption, TypeOK
  <2>2. printing' \in BOOLEAN /\ findall' \in BOOLEAN
    BY <1>1, Zenon DEF ScanOption
  <2> QED
    BY <1>1, <2>1, <2>2 DEF ScanOption, TypeOK, board
<1>2. CASE ScanNumber
  <2>1. argv' \in Seq(Argument)
    BY <1>2, ArgumentsOK DEF ScanNumber, TypeOK
  <2>2. queens' \in 0 .. MAXQUEENS
    BY <1>2 DEF ScanNumber, LegalNumber
  <2>3. UNCHANGED <<printing, findall, pc, level, f, board, solutions, status>>
    BY <1>2 DEF ScanNumber
  <2> QED
    BY <2>1, <2>2, <2>3 DEF TypeOK, board
<1>3. CASE RejectArguments
  BY <1>3 DEF RejectArguments, Exit, TypeOK, flags, board
<1>4. CASE StartSearch
  BY <1>4 DEF StartSearch, TypeOK, flags
<1>5. CASE EnterRank
  <2>1. f' \in [0 .. MAXQUEENS -> 0 .. MAXQUEENS]
    <3>1. f \in [0 .. MAXQUEENS -> 0 .. MAXQUEENS] /\ 0 \in 0 .. MAXQUEENS
      BY SizesOK DEF TypeOK
    <3>2. f' = [f EXCEPT ![level] = 0]
      BY <1>5 DEF EnterRank
    <3> QED
      BY <3>1, <3>2
  <2>2. UNCHANGED <<flags, level, board, solutions, status>> /\ pc' = "scan"
    BY <1>5 DEF EnterRank
  <2> QED
    BY <2>1, <2>2 DEF TypeOK, flags, board
<1>6. CASE CountSolution
  <2>1. level' \in 0 .. MAXQUEENS
    <3>1. level > 0 /\ level \in 0 .. MAXQUEENS
      BY <1>6 DEF CountSolution, TypeOK, ControlOK, Searching
    <3> QED
      BY <1>6, <3>1 DEF CountSolution
  <2>2. solutions' \in Nat
    BY <1>6 DEF CountSolution, TypeOK
  <2>3. pc' \in {"unwind", "exit"} /\ status' \in {0, status}
    BY <1>6 DEF CountSolution, Exit
  <2>4. UNCHANGED <<flags, f, board>>
    BY <1>6 DEF CountSolution
  <2> QED
    BY <2>1, <2>2, <2>3, <2>4 DEF TypeOK, flags, board
<1>7. CASE SkipSquare
  <2>1. f' \in [0 .. MAXQUEENS -> 0 .. MAXQUEENS]
    <3>1. f[level] + 1 \in 0 .. MAXQUEENS
      <4>1. f[level] \in 0 .. MAXQUEENS /\ queens \in 0 .. MAXQUEENS
        BY DEF TypeOK
      <4> QED
        BY <1>7, <4>1 DEF SkipSquare
    <3> QED
      BY <1>7, <3>1 DEF SkipSquare, TypeOK
  <2>2. UNCHANGED <<flags, pc, level, board, solutions, status>>
    BY <1>7 DEF SkipSquare
  <2> QED
    BY <2>1, <2>2 DEF TypeOK, flags, board
<1>8. CASE PlaceQueen
  <2>1. level \in 0 .. queens - 1 /\ f[level] \in 0 .. queens - 1
    BY <1>8 DEF PlaceQueen, TypeOK, ControlOK, Searching
  <2>2. level \in 0 .. EMPTY
    BY <1>8 DEF TypeOK
  <2>3. /\ file' \in [Files -> 0 .. EMPTY]
        /\ fordiag' \in [Diags -> 0 .. EMPTY]
        /\ bakdiag' \in [Diags -> 0 .. EMPTY]
    BY <1>8, <2>1, <2>2, MarkOK DEF PlaceQueen
  <2>4. queen' \in [Files -> Files]
    BY <1>8, <2>1, DiagonalsExist DEF PlaceQueen, TypeOK
  <2> QED
    <3>1. level' \in 0 .. MAXQUEENS
      BY <1>8, <2>1 DEF PlaceQueen, TypeOK
    <3>2. UNCHANGED <<flags, f, solutions, status>> /\ pc' = "enter"
      BY <1>8 DEF PlaceQueen
    <3> QED
      BY <2>3, <2>4, <3>1, <3>2 DEF TypeOK, flags
<1>9. CASE RemoveQueen
  <2>1. level \in 0 .. queens - 1 /\ f[level] \in 0 .. queens - 1
    BY <1>9 DEF RemoveQueen, TypeOK, ControlOK, Searching
  <2>2. /\ file' \in [Files -> 0 .. EMPTY]
        /\ fordiag' \in [Diags -> 0 .. EMPTY]
        /\ bakdiag' \in [Diags -> 0 .. EMPTY]
    BY <1>9, <2>1, MarkOK DEF RemoveQueen
  <2> QED
    <3>1. f' \in [0 .. MAXQUEENS -> 0 .. MAXQUEENS]
      <4>1. f[level] + 1 \in 0 .. MAXQUEENS
        <5>1. f[level] \in Int /\ queens \in 0 .. MAXQUEENS
          BY <2>1 DEF TypeOK
        <5> QED
          BY <2>1, <5>1
      <4> QED
        BY <1>9, <4>1 DEF RemoveQueen, TypeOK
    <3>2. UNCHANGED <<flags, level, queen, solutions, status>> /\ pc' = "scan"
      BY <1>9 DEF RemoveQueen
    <3> QED
      BY <2>2, <3>1, <3>2 DEF TypeOK, flags
<1>10. CASE ReturnToCaller
  <2>1. level' \in 0 .. MAXQUEENS
    BY <1>10 DEF ReturnToCaller, TypeOK
  <2>2. UNCHANGED <<flags, f, board, solutions, status>> /\ pc' = "unwind"
    BY <1>10 DEF ReturnToCaller
  <2> QED
    BY <2>1, <2>2 DEF TypeOK, flags, board
<1>11. CASE Report
  BY <1>11 DEF Report, Exit, TypeOK, flags, board
<1>12. CASE UNCHANGED vars
  BY <1>12 DEF TypeOK, vars, flags, board
<1> QED
  BY <1>1, <1>2, <1>3, <1>4, <1>5, <1>6, <1>7, <1>8, <1>9, <1>10, <1>11,
     <1>12 DEF Next

-----------------------------------------------------------------------------
(***************************************************************************)
(* Control.                                                                *)
(***************************************************************************)
LEMMA StepControlOK == IInv /\ [Next]_vars => ControlOK'
<1> SUFFICES ASSUME IInv, [Next]_vars PROVE ControlOK'
  OBVIOUS
<1>a. TypeOK /\ ControlOK /\ QueensOwnLines
  BY DEF IInv
<1>b. queens \in Nat /\ level \in Nat /\ f \in [0 .. MAXQUEENS -> 0 .. MAXQUEENS]
  BY <1>a DEF TypeOK
<1>1. CASE ScanOption \/ ScanNumber
  BY <1>1, <1>a DEF ScanOption, ScanNumber, ControlOK, Searching
<1>2. CASE RejectArguments \/ Report
  BY <1>2 DEF RejectArguments, Report, Exit, ControlOK, Searching
<1>3. CASE StartSearch
  BY <1>3, <1>b DEF StartSearch, flags, ControlOK, Searching
<1>4. CASE EnterRank
  BY <1>4, <1>a, <1>b DEF EnterRank, flags, ControlOK, Searching
<1>5. CASE CountSolution
  <2>1. CASE findall
    <3>1. level = queens /\ level > 0
      BY <1>5, <1>a DEF CountSolution, ControlOK, Searching
    <3>2. f[level - 1] < queens
      BY <1>5, <1>a, <1>b, <3>1
      DEF CountSolution, QueensOwnLines, Placed, Searching
    <3> QED
      BY <1>5, <2>1, <1>b, <3>1, <3>2
      DEF CountSolution, flags, ControlOK, Searching
  <2>2. CASE ~findall
    BY <1>5, <2>2 DEF CountSolution, Exit, ControlOK, Searching
  <2> QED
    BY <2>1, <2>2
<1>6. CASE SkipSquare
  BY <1>6, <1>a, <1>b DEF SkipSquare, flags, ControlOK, Searching
<1>7. CASE PlaceQueen
  BY <1>7, <1>a, <1>b DEF PlaceQueen, flags, ControlOK, Searching
<1>8. CASE RemoveQueen
  BY <1>8, <1>a, <1>b DEF RemoveQueen, flags, ControlOK, Searching
<1>9. CASE ReturnToCaller
  <2>1. f[level - 1] < queens
    BY <1>9, <1>a, <1>b DEF ReturnToCaller, QueensOwnLines, Placed, Searching
  <2> QED
    BY <1>9, <1>a, <1>b, <2>1 DEF ReturnToCaller, flags, ControlOK, Searching
<1>10. CASE UNCHANGED vars
  BY <1>10, <1>a DEF vars, flags, ControlOK, Searching
<1> QED
  BY <1>1, <1>2, <1>3, <1>4, <1>5, <1>6, <1>7, <1>8, <1>9, <1>10 DEF Next

-----------------------------------------------------------------------------
(***************************************************************************)
(* Ownership.                                                              *)
(***************************************************************************)
Ownership == QueensOwnLines /\ OthersAreEmpty

\* Steps that leave the board and the placed ranks alone keep ownership.
LEMMA SameBoardOK ==
  ASSUME IInv, Searching, Placed' = Placed, UNCHANGED <<flags, board>>,
         \A r \in Placed : f'[r] = f[r]
  PROVE  Ownership'
<1>1. QueensOwnLines'
  BY DEF IInv, QueensOwnLines, board, flags, ForDiag, BakDiag
<1>2. OthersAreEmpty'
  BY DEF IInv, OthersAreEmpty, board, flags, ForDiag, BakDiag
<1> QED
  BY <1>1, <1>2 DEF Ownership

\* A free square lies on lines nobody owns.
LEMMA FreeLinesAreEmpty ==
  ASSUME IInv, pc = "scan", f[level] < queens, Free(level, f[level])
  PROVE  /\ level \in 0 .. queens - 1 /\ f[level] \in 0 .. queens - 1
         /\ file[f[level]] = EMPTY
         /\ fordiag[ForDiag(level, f[level])] = EMPTY
         /\ bakdiag[BakDiag(level, f[level])] = EMPTY
<1>1. level \in 0 .. queens - 1 /\ f[level] \in 0 .. queens - 1
  <2>1. /\ queens \in 0 .. MAXQUEENS /\ level \in 0 .. MAXQUEENS
        /\ f \in [0 .. MAXQUEENS -> 0 .. MAXQUEENS]
        /\ level < queens
    BY DEF IInv, TypeOK, ControlOK
  <2>2. f[level] \in 0 .. MAXQUEENS
    BY <2>1
  <2> QED
    BY <2>1, <2>2, SizesOK
<1>2. /\ f[level] \in Files
      /\ ForDiag(level, f[level]) \in Diags
      /\ BakDiag(level, f[level]) \in Diags
  BY <1>1, DiagonalsExist DEF IInv, TypeOK
<1>3. Placed = 0 .. level - 1
  BY DEF Placed
<1> QED
  BY <1>1, <1>2, <1>3 DEF IInv, OthersAreEmpty, Searching, Free

LEMMA PlaceQueenOK == IInv /\ PlaceQueen => Ownership'
<1> SUFFICES ASSUME IInv, PlaceQueen PROVE Ownership'
  OBVIOUS
<1>1. /\ level \in 0 .. queens - 1 /\ f[level] \in 0 .. queens - 1
      /\ file[f[level]] = EMPTY
      /\ fordiag[ForDiag(level, f[level])] = EMPTY
      /\ bakdiag[BakDiag(level, f[level])] = EMPTY
  BY FreeLinesAreEmpty DEF PlaceQueen
<1>2. Placed = 0 .. level - 1 /\ Placed' = 0 .. level
  BY <1>1 DEF PlaceQueen, Placed
<1>3. /\ f[level] \in Files /\ level \in Files
      /\ ForDiag(level, f[level]) \in Diags
      /\ BakDiag(level, f[level]) \in Diags
  BY <1>1, DiagonalsExist DEF IInv, TypeOK
<1>4. UNCHANGED <<queens, f>> /\ Searching /\ Searching'
  BY DEF PlaceQueen, flags, Searching
<1>5. \A r \in Placed' : ForDiag(r, queen[r])' = ForDiag(r, queen'[r])
                      /\ BakDiag(r, queen[r])' = BakDiag(r, queen'[r])
  BY <1>4 DEF ForDiag, BakDiag
<1>6. ASSUME NEW r \in Placed'
      PROVE  /\ f[r] < queens
             /\ queen'[r] = f[r]
             /\ file'[queen'[r]] = r
             /\ fordiag'[ForDiag(r, queen'[r])] = r
             /\ bakdiag'[BakDiag(r, queen'[r])] = r
  <2>1. CASE r = level
    BY <1>1, <1>3, <2>1 DEF PlaceQueen, Mark, IInv, TypeOK
  <2>2. CASE r # level
    <3>1. r \in Placed /\ r # EMPTY
      BY <1>1, <1>2, <2>2, SizesOK DEF IInv, TypeOK
    <3>2. /\ f[r] < queens /\ queen[r] = f[r] /\ file[queen[r]] = r
          /\ fordiag[ForDiag(r, queen[r])] = r
          /\ bakdiag[BakDiag(r, queen[r])] = r
      BY <1>4, <3>1 DEF IInv, QueensOwnLines
    <3>3. queen'[r] = queen[r] /\ r \in 0 .. queens - 1
                               /\ queen[r] \in 0 .. queens - 1
      <4>1. /\ queens \in 0 .. MAXQUEENS /\ level \in 0 .. MAXQUEENS
            /\ f \in [0 .. MAXQUEENS -> 0 .. MAXQUEENS]
            /\ queen \in [Files -> Files]
        BY DEF IInv, TypeOK
      <4>2. r \in 0 .. queens - 1 /\ r \in 0 .. MAXQUEENS
        BY <1>1, <1>2, <2>2, <3>1, <4>1, SizesOK
      <4>3. f[r] \in 0 .. MAXQUEENS
        BY <4>1, <4>2
      <4>4. queen'[r] = queen[r]
        BY <2>2, <4>1, <4>2, SizesOK DEF PlaceQueen, Files
      <4> QED
        BY <3>2, <4>1, <4>2, <4>3, <4>4, SizesOK
    <3>4. /\ queen[r] \in Files
          /\ ForDiag(r, queen[r]) \in Diags
          /\ BakDiag(r, queen[r]) \in Diags
      BY <3>3, DiagonalsExist DEF IInv, TypeOK
    <3> QED
      BY <1>1, <3>1, <3>2, <3>3, <3>4 DEF PlaceQueen, Mark, IInv, TypeOK
  <2> QED
    BY <2>1, <2>2
<1>7. QueensOwnLines'
  BY <1>4, <1>5, <1>6 DEF QueensOwnLines
<1>8. OthersAreEmpty'
  <2>t. /\ queen \in [Files -> Files] /\ level # EMPTY
        /\ file \in [Files -> 0 .. EMPTY]
        /\ fordiag \in [Diags -> 0 .. EMPTY]
        /\ bakdiag \in [Diags -> 0 .. EMPTY]
    <3>1. queens \in 0 .. MAXQUEENS
      BY DEF IInv, TypeOK
    <3>2. level # EMPTY
      BY <1>1, <3>1, SizesOK
    <3> QED
      BY <3>2 DEF IInv, TypeOK
  <2>0. /\ queen'[level] = f[level]
        /\ \A r \in 0 .. level - 1 : r # level /\ queen'[r] = queen[r]
    <3>1. \A r \in 0 .. level - 1 : r # level /\ r \in Files
      <4>1. queens \in 0 .. MAXQUEENS
        BY DEF IInv, TypeOK
      <4> QED
        BY <1>1, <4>1, SizesOK DEF Files
    <3> QED
      BY <1>3, <2>t, <3>1 DEF PlaceQueen
  <2>1. ASSUME NEW c \in Files
        PROVE  \/ file'[c] = EMPTY
               \/ file'[c] \in 0 .. level /\ queen'[file'[c]] = c
    <3>1. CASE c = f[level]
      BY <1>1, <2>t, <2>0, <3>1 DEF PlaceQueen, Mark
    <3>2. CASE c # f[level]
      <4>1. file'[c] = file[c]
        BY <2>t, <3>2 DEF PlaceQueen, Mark
      <4> QED
        BY <1>1, <1>2, <1>4, <2>0, <4>1 DEF IInv, OthersAreEmpty
    <3> QED
      BY <3>1, <3>2
  <2>2. ASSUME NEW d \in Diags
        PROVE  \/ fordiag'[d] = EMPTY
               \/ /\ fordiag'[d] \in 0 .. level
                  /\ ForDiag(fordiag'[d], queen'[fordiag'[d]]) = d
    <3>1. CASE d = ForDiag(level, f[level])
      BY <1>1, <2>t, <2>0, <3>1 DEF PlaceQueen, Mark
    <3>2. CASE d # ForDiag(level, f[level])
      <4>1. fordiag'[d] = fordiag[d]
        BY <2>t, <3>2 DEF PlaceQueen, Mark
      <4> QED
        BY <1>1, <1>2, <1>4, <2>0, <4>1 DEF IInv, OthersAreEmpty
    <3> QED
      BY <3>1, <3>2
  <2>3. ASSUME NEW d \in Diags
        PROVE  \/ bakdiag'[d] = EMPTY
               \/ /\ bakdiag'[d] \in 0 .. level
                  /\ BakDiag(bakdiag'[d], queen'[bakdiag'[d]]) = d
    <3>1. CASE d = BakDiag(level, f[level])
      BY <1>1, <2>t, <2>0, <3>1 DEF PlaceQueen, Mark
    <3>2. CASE d # BakDiag(level, f[level])
      <4>1. bakdiag'[d] = bakdiag[d]
        BY <2>t, <3>2 DEF PlaceQueen, Mark
      <4> QED
        BY <1>1, <1>2, <1>4, <2>0, <4>1 DEF IInv, OthersAreEmpty
    <3> QED
      BY <3>1, <3>2
  <2> QED
    <3>1. \A d \in Diags :
            \/ fordiag'[d] = EMPTY
            \/ fordiag'[d] \in Placed' /\ ForDiag(fordiag[d], queen[fordiag[d]])' = d
      BY <1>2, <2>2 DEF ForDiag
    <3>2. \A d \in Diags :
            \/ bakdiag'[d] = EMPTY
            \/ bakdiag'[d] \in Placed' /\ BakDiag(bakdiag[d], queen[bakdiag[d]])' = d
      BY <1>2, <1>4, <2>3 DEF BakDiag
    <3>3. \A c \in Files :
            \/ file'[c] = EMPTY
            \/ file'[c] \in Placed' /\ queen'[file'[c]] = c
      BY <1>2, <2>1
    <3> QED
      BY <3>1, <3>2, <3>3 DEF OthersAreEmpty
<1> QED
  BY <1>7, <1>8 DEF Ownership

LEMMA RemoveQueenOK == IInv /\ RemoveQueen => Ownership'
<1> SUFFICES ASSUME IInv, RemoveQueen PROVE Ownership'
  OBVIOUS
<1>t. /\ queens \in 0 .. MAXQUEENS /\ level \in 0 .. MAXQUEENS
      /\ f \in [0 .. MAXQUEENS -> 0 .. MAXQUEENS]
      /\ file \in [Files -> 0 .. EMPTY]
      /\ fordiag \in [Diags -> 0 .. EMPTY]
      /\ bakdiag \in [Diags -> 0 .. EMPTY]
  BY DEF IInv, TypeOK
<1>1. /\ level \in 0 .. queens - 1
      /\ \A r \in 0 .. level : r \in 0 .. queens - 1 /\ f[r] \in 0 .. MAXQUEENS
  <2>1. level < queens
    BY DEF RemoveQueen, IInv, ControlOK
  <2>2. level \in 0 .. queens - 1
    BY <1>t, <2>1
  <2>3. ASSUME NEW r \in 0 .. level
        PROVE  r \in 0 .. queens - 1 /\ f[r] \in 0 .. MAXQUEENS
    <3>1. r \in 0 .. queens - 1 /\ r \in 0 .. MAXQUEENS
      <4>1. level \in Int /\ queens \in Int /\ queens <= MAXQUEENS
        BY <1>t
      <4> QED
        BY <2>1, <4>1, SizesOK
    <3> QED
      BY <1>t, <3>1
  <2> QED
    BY <2>2, <2>3
<1>2. /\ Placed = 0 .. level /\ Placed' = 0 .. level - 1
      /\ UNCHANGED <<queens, queen>> /\ Searching /\ Searching'
      /\ \A r \in 0 .. level - 1 : f'[r] = f[r]
  BY <1>1, <1>t DEF RemoveQueen, Placed, Searching, flags
<1>3. \A r \in 0 .. level :
        /\ f[r] < queens /\ queen[r] = f[r] /\ file[queen[r]] = r
        /\ fordiag[ForDiag(r, queen[r])] = r
        /\ bakdiag[BakDiag(r, queen[r])] = r
  BY <1>2 DEF IInv, QueensOwnLines
<1>4. ASSUME NEW r \in 0 .. level
      PROVE  /\ f[r] \in 0 .. queens - 1 /\ f[r] \in Files
             /\ ForDiag(r, f[r]) \in Diags
             /\ BakDiag(r, f[r]) \in Diags
  <2>1. r \in 0 .. queens - 1 /\ f[r] \in 0 .. queens - 1
    BY <1>1, <1>3, <1>t
  <2> QED
    BY <2>1, <1>t, DiagonalsExist
<1>5. ASSUME NEW r \in 0 .. level - 1
      PROVE  /\ f'[r] < queens
             /\ queen[r] = f'[r]
             /\ file'[queen[r]] = r
             /\ fordiag'[ForDiag(r, queen[r])] = r
             /\ bakdiag'[BakDiag(r, queen[r])] = r
  <2>1. r \in 0 .. level /\ level \in 0 .. level /\ r # level
    BY <1>1
  <2>2. /\ queen[r] # f[level]
        /\ ForDiag(r, queen[r]) # ForDiag(level, f[level])
        /\ BakDiag(r, queen[r]) # BakDiag(level, f[level])
    BY <1>3, <2>1
  <2> QED
    BY <1>2, <1>3, <1>4, <1>t, <2>1, <2>2 DEF RemoveQueen, Mark
<1>6. QueensOwnLines'
  BY <1>2, <1>5 DEF QueensOwnLines, ForDiag, BakDiag
<1>7. OthersAreEmpty'
  <2>0. level \in 0 .. level /\ queen[level] = f[level]
    BY <1>1, <1>3
  <2>1. ASSUME NEW c \in Files
        PROVE  \/ file'[c] = EMPTY
               \/ file'[c] \in 0 .. level - 1 /\ queen[file'[c]] = c
    <3>1. \/ file[c] = EMPTY
          \/ file[c] \in 0 .. level /\ queen[file[c]] = c
      BY <1>2 DEF IInv, OthersAreEmpty
    <3>2. CASE c = f[level]
      BY <1>t, <3>2 DEF RemoveQueen, Mark
    <3>3. CASE c # f[level]
      BY <1>t, <2>0, <3>1, <3>3 DEF RemoveQueen, Mark
    <3> QED
      BY <3>2, <3>3
  <2>2. ASSUME NEW d \in Diags
        PROVE  \/ fordiag'[d] = EMPTY
               \/ /\ fordiag'[d] \in 0 .. level - 1
                  /\ ForDiag(fordiag'[d], queen[fordiag'[d]]) = d
    <3>1. \/ fordiag[d] = EMPTY
          \/ /\ fordiag[d] \in 0 .. level
             /\ ForDiag(fordiag[d], queen[fordiag[d]]) = d
      BY <1>2 DEF IInv, OthersAreEmpty
    <3>2. CASE d = ForDiag(level, f[level])
      BY <1>t, <3>2 DEF RemoveQueen, Mark
    <3>3. CASE d # ForDiag(level, f[level])
      BY <1>t, <2>0, <3>1, <3>3 DEF RemoveQueen, Mark
    <3> QED
      BY <3>2, <3>3
  <2>3. ASSUME NEW d \in Diags
        PROVE  \/ bakdiag'[d] = EMPTY
               \/ /\ bakdiag'[d] \in 0 .. level - 1
                  /\ BakDiag(bakdiag'[d], queen[bakdiag'[d]]) = d
    <3>1. \/ bakdiag[d] = EMPTY
          \/ /\ bakdiag[d] \in 0 .. level
             /\ BakDiag(bakdiag[d], queen[bakdiag[d]]) = d
      BY <1>2 DEF IInv, OthersAreEmpty
    <3>2. CASE d = BakDiag(level, f[level])
      BY <1>t, <3>2 DEF RemoveQueen, Mark
    <3>3. CASE d # BakDiag(level, f[level])
      BY <1>t, <2>0, <3>1, <3>3 DEF RemoveQueen, Mark
    <3> QED
      BY <3>2, <3>3
  <2> QED
    <3>1. \A d \in Diags :
            \/ fordiag'[d] = EMPTY
            \/ fordiag'[d] \in Placed' /\ ForDiag(fordiag[d], queen[fordiag[d]])' = d
      BY <1>2, <2>2 DEF ForDiag
    <3>2. \A d \in Diags :
            \/ bakdiag'[d] = EMPTY
            \/ bakdiag'[d] \in Placed' /\ BakDiag(bakdiag[d], queen[bakdiag[d]])' = d
      BY <1>2, <2>3 DEF BakDiag
    <3>3. \A c \in Files :
            \/ file'[c] = EMPTY
            \/ file'[c] \in Placed' /\ queen'[file'[c]] = c
      BY <1>2, <2>1
    <3> QED
      BY <3>1, <3>2, <3>3 DEF OthersAreEmpty
<1> QED
  BY <1>6, <1>7 DEF Ownership

LEMMA StepOwnership == IInv /\ [Next]_vars => Ownership'
<1> SUFFICES ASSUME IInv, [Next]_vars PROVE Ownership'
  OBVIOUS
<1>t. /\ level \in 0 .. MAXQUEENS /\ queens \in 0 .. MAXQUEENS
      /\ f \in [0 .. MAXQUEENS -> 0 .. MAXQUEENS]
      /\ Searching => level <= queens
      /\ pc = "scan" => level < queens
  BY DEF IInv, TypeOK, ControlOK
<1>0. ~Searching' => Ownership'
  BY DEF Ownership, QueensOwnLines, OthersAreEmpty
<1>1. CASE ScanOption \/ ScanNumber \/ RejectArguments \/ Report
  BY <1>0, <1>1
  DEF ScanOption, ScanNumber, RejectArguments, Report, Exit, Searching
<1>2. CASE StartSearch
  <2>1. Placed' = {} /\ \A c \in Files : file'[c] = EMPTY
    BY <1>2 DEF StartSearch, Placed
  <2>2. \A d \in Diags : fordiag'[d] = EMPTY /\ bakdiag'[d] = EMPTY
    BY <1>2 DEF StartSearch
  <2> QED
    BY <2>1, <2>2 DEF Ownership, QueensOwnLines, OthersAreEmpty
<1>3. CASE EnterRank
  <2>1. Searching /\ Placed = 0 .. level - 1 /\ Placed' = Placed
    BY <1>3 DEF EnterRank, Placed, Searching
  <2>2. \A r \in Placed : f'[r] = f[r]
    BY <1>3, <1>t, <2>1 DEF EnterRank
  <2> QED
    BY <1>3, <2>1, <2>2, SameBoardOK DEF EnterRank
<1>4. CASE CountSolution
  <2>1. CASE findall
    <3>1. Searching /\ Placed' = Placed /\ f' = f
      BY <1>4, <2>1, <1>t DEF CountSolution, Placed, Searching
    <3> QED
      BY <1>4, <3>1, SameBoardOK DEF CountSolution
  <2>2. CASE ~findall
    BY <1>0, <1>4, <2>2 DEF CountSolution, Exit, Searching
  <2> QED
    BY <2>1, <2>2
<1>5. CASE SkipSquare
  <2>1. Searching /\ Placed = 0 .. level - 1 /\ Placed' = Placed
    BY <1>5 DEF SkipSquare, Placed, Searching
  <2>2. \A r \in Placed : f'[r] = f[r]
    BY <1>5, <1>t, <2>1 DEF SkipSquare
  <2> QED
    BY <1>5, <2>1, <2>2, SameBoardOK DEF SkipSquare
<1>6. CASE PlaceQueen
  BY <1>6, PlaceQueenOK
<1>7. CASE RemoveQueen
  BY <1>7, RemoveQueenOK
<1>8. CASE ReturnToCaller
  <2>1. Searching /\ Placed' = Placed /\ f' = f
    BY <1>8, <1>t DEF ReturnToCaller, Placed, Searching
  <2> QED
    BY <1>8, <2>1, SameBoardOK DEF ReturnToCaller
<1>9. CASE UNCHANGED vars
  <2>1. CASE Searching
    <3>1. Placed' = Placed
      BY <1>9 DEF vars, Placed
    <3> QED
      BY <1>9, <2>1, <3>1, SameBoardOK DEF vars
  <2>2. CASE ~Searching
    BY <1>0, <1>9, <2>2 DEF vars, Searching
  <2> QED
    BY <2>1, <2>2
<1> QED
  BY <1>1, <1>2, <1>3, <1>4, <1>5, <1>6, <1>7, <1>8, <1>9 DEF Next

-----------------------------------------------------------------------------
(***************************************************************************)
(* Solutions.                                                              *)
(***************************************************************************)

\* With all ranks placed, ownership says that the board is peaceful: two
\* queens on one line would both own it.
LEMMA FullBoardIsPeaceful ==
  ASSUME IInv, pc = "enter", level = queens
  PROVE  [r \in 0 .. queens - 1 |-> queen[r]] \in Solutions(queens)
<1> DEFINE b == [r \in 0 .. queens - 1 |-> queen[r]]
<1>1. /\ queens \in 0 .. MAXQUEENS
      /\ f \in [0 .. MAXQUEENS -> 0 .. MAXQUEENS]
  BY DEF IInv, TypeOK
<1>2. \A r \in 0 .. queens - 1 :
        /\ f[r] < queens /\ queen[r] = f[r] /\ file[queen[r]] = r
        /\ fordiag[ForDiag(r, queen[r])] = r
        /\ bakdiag[BakDiag(r, queen[r])] = r
  BY DEF IInv, QueensOwnLines, Placed, Searching
<1>3. \A r \in 0 .. queens - 1 : b[r] = queen[r] /\ b[r] \in 0 .. queens - 1
  <2> SUFFICES ASSUME NEW r \in 0 .. queens - 1
               PROVE  b[r] = queen[r] /\ b[r] \in 0 .. queens - 1
    OBVIOUS
  <2>0. queens \in Int /\ queens <= MAXQUEENS
    BY <1>1
  <2>1. r \in 0 .. MAXQUEENS
    BY <2>0, SizesOK
  <2>2. f[r] \in 0 .. MAXQUEENS
    BY <1>1, <2>1
  <2> QED
    BY <1>1, <1>2, <2>2
<1>4. b \in Boards(queens)
  BY <1>3 DEF Boards
<1>5. ASSUME NEW r1 \in 0 .. queens - 1, NEW r2 \in 0 .. queens - 1, r1 # r2
      PROVE  ~Attack(r1, b[r1], r2, b[r2])
  <2>1. /\ b[r1] \in Int /\ b[r2] \in Int /\ b[r1] # b[r2]
    BY <1>2, <1>3, <1>5
  <2>2. ForDiag(r1, b[r1]) # ForDiag(r2, b[r2])
    BY <1>2, <1>3, <1>5
  <2>3. BakDiag(r1, b[r1]) # BakDiag(r2, b[r2])
    BY <1>2, <1>3, <1>5
  <2>4. queens \in Int /\ r1 \in Int /\ r2 \in Int
    BY <1>1
  <2> HIDE DEF b
  <2>5. r1 + b[r1] # r2 + b[r2] /\ r1 - b[r1] # r2 - b[r2]
    BY <2>1, <2>2, <2>3, <2>4 DEF ForDiag, BakDiag
  <2> QED
    BY <1>5, <2>1, <2>5 DEF Attack
<1> QED
  BY <1>4, <1>5 DEF Solutions, Peaceful

LEMMA StepPeaceful == IInv /\ [Next]_vars => CountedBoardsArePeaceful'
<1> SUFFICES ASSUME IInv, [Next]_vars PROVE CountedBoardsArePeaceful'
  OBVIOUS
<1>a. found \subseteq Solutions(queens) /\ (pc = "args" => found = {})
  BY DEF IInv, CountedBoardsArePeaceful, ControlOK
<1>1. CASE CountSolution
  <2>1. found' = found \cup {[r \in 0 .. queens - 1 |-> queen[r]]}
    BY <1>1 DEF CountSolution
  <2>2. found' \subseteq Solutions(queens)
    BY <1>1, <1>a, <2>1, FullBoardIsPeaceful DEF CountSolution
  <2>3. queens' = queens
    BY <1>1 DEF CountSolution, flags
  <2> QED
    BY <2>2, <2>3 DEF CountedBoardsArePeaceful, Solutions, Boards, Peaceful
<1>2. CASE ~CountSolution
  <2>1. found' = found /\ (found' = {} \/ queens' = queens)
    BY <1>2, <1>a DEF Next, vars, flags, ScanOption, ScanNumber,
       RejectArguments, StartSearch, EnterRank, SkipSquare, PlaceQueen,
       RemoveQueen, ReturnToCaller, Report
  <2> QED
    BY <1>a, <2>1 DEF CountedBoardsArePeaceful, Solutions, Boards, Peaceful
<1> QED
  BY <1>1, <1>2

LEMMA Inductive == Spec => []IInv
<1>1. IInv /\ [Next]_vars => IInv'
  BY StepTypeOK, StepControlOK, StepOwnership, StepPeaceful DEF IInv, Ownership
<1> QED
  BY InitInv, <1>1, PTL DEF Spec

\* Every variable keeps its type in every reachable state.
THEOREM TypeCorrect == Spec => []TypeOK
<1>1. IInv => TypeOK
  BY DEF IInv
<1> QED
  BY Inductive, <1>1, PTL

\* find() counts only boards on which no two queens attack each other,
\* for every board size and every command line.
THEOREM CountedPeaceful == Spec => []CountedBoardsArePeaceful
<1>1. IInv => CountedBoardsArePeaceful
  BY DEF IInv
<1> QED
  BY Inductive, <1>1, PTL

\* The diagonal pointers of find() stay inside their arrays.
THEOREM PointersInBounds == Spec => []DiagonalsInBounds
<1>1. IInv => DiagonalsInBounds
  <2> SUFFICES ASSUME IInv, pc \in {"scan", "unwind"}, f[level] < queens
               PROVE  /\ ForDiag(level, f[level]) \in 0 .. MAXDIAGS - 1
                      /\ BakDiag(level, f[level]) \in 0 .. MAXDIAGS - 1
    BY DEF DiagonalsInBounds
  <2>1. /\ queens \in 0 .. MAXQUEENS /\ level \in 0 .. MAXQUEENS
        /\ f[level] \in 0 .. MAXQUEENS /\ level < queens
    BY DEF IInv, TypeOK, ControlOK
  <2>2. level \in 0 .. queens - 1 /\ f[level] \in 0 .. queens - 1
    BY <2>1
  <2> QED
    BY <2>1, <2>2, DiagonalsExist DEF Diags
<1> QED
  BY Inductive, <1>1, PTL
-----------------------------------------------------------------------------
(***************************************************************************)
(* Completeness.  find() moves the queens as a counter moves its digits:   *)
(* behind it are the boards that are smaller at the first rank where they  *)
(* differ from the files it stands at, and while it is returning those     *)
(* that do not differ.                                                     *)
(***************************************************************************)
Agree(b, r) == \A q \in 0 .. r - 1 : b[q] = f[q]

Ranks == IF pc = "enter" THEN 0 .. level - 1 ELSE 0 .. level

Behind(b) ==
  \/ \E r \in Ranks : b[r] < f[r] /\ Agree(b, r)
  \/ pc = "unwind" /\ Agree(b, level + 1)

\* All solutions behind the search, and no others, have been counted, each
\* once; a search for one solution has none behind it.
CountedOK ==
  /\ Searching =>
       /\ found = {b \in Solutions(queens) : Behind(b)}
       /\ IsFiniteSet(found) /\ solutions = Cardinality(found)
       /\ ~findall => found = {}
  /\ SearchIsComplete

\* A set of numbers has a least one.
LEMMA LeastNumber ==
  ASSUME NEW T, T \subseteq Nat, T # {}
  PROVE  \E x \in T : \A y \in T : x <= y
<1> DEFINE R == OpToRel(<, Nat)
<1>1. IsWellFoundedOn(R, Nat)
  BY NatLessThanWellFounded
<1>2. \A x, y \in Nat : y < x => <<y, x>> \in R
  BY DEF OpToRel
<1> HIDE DEF R
<1>3. PICK x \in T : \A y \in T : ~ (<<y, x>> \in R)
  BY <1>1, WFMin
<1>4. ASSUME NEW y \in T PROVE x <= y
  <2>1. x \in Nat /\ y \in Nat
    OBVIOUS
  <2>2. ~(y < x)
    BY <1>2, <1>3, <2>1
  <2> QED
    BY <2>1, <2>2
<1> QED
  BY <1>4

\* Two boards that differ do so at a first rank.
LEMMA FirstDifference ==
  ASSUME NEW n \in Nat, NEW b \in Boards(n), NEW c \in Boards(n), b # c
  PROVE  \E r \in 0 .. n - 1 : b[r] # c[r] /\ \A q \in 0 .. r - 1 : b[q] = c[q]
<1> DEFINE T == {r \in 0 .. n - 1 : b[r] # c[r]}
<1>1. T # {}
  BY DEF Boards
<1>2. T \subseteq Nat
  OBVIOUS
<1>3. PICK r \in T : \A q \in T : r <= q
  <2> HIDE DEF T
  <2> QED
    BY <1>1, <1>2, LeastNumber
<1>4. \A q \in 0 .. r - 1 : b[q] = c[q]
  BY <1>3
<1> QED
  BY <1>3, <1>4

LEMMA SearchFacts ==
  ASSUME IInv, Searching
  PROVE  /\ queens \in Nat /\ queens <= MAXQUEENS /\ queens > 0
         /\ level \in Nat /\ level <= queens
         /\ f \in [0 .. MAXQUEENS -> 0 .. MAXQUEENS]
         /\ \A k \in 0 .. queens : f[k] \in Nat
         /\ \A b \in Solutions(queens), r \in 0 .. queens - 1 :
              b[r] \in Nat /\ b[r] < queens
         /\ Solutions(queens) \subseteq Boards(queens)
<1>1. /\ queens \in 0 .. MAXQUEENS /\ level \in 0 .. MAXQUEENS
      /\ f \in [0 .. MAXQUEENS -> 0 .. MAXQUEENS]
      /\ level <= queens /\ queens > 0
  BY DEF IInv, TypeOK, ControlOK
<1>2. \A k \in 0 .. queens : f[k] \in Nat
  BY <1>1, SizesOK
<1>3. \A b \in Solutions(queens), r \in 0 .. queens - 1 :
        b[r] \in Nat /\ b[r] < queens
  BY <1>1 DEF Solutions, Boards
<1> QED
  BY <1>1, <1>2, <1>3, SizesOK DEF Solutions

\* Steps after which the same solutions are behind the search.
LEMMA SameCountOK ==
  ASSUME CountedOK, Searching, Searching',
         UNCHANGED <<queens, findall, found, solutions>>,
         \A b \in Solutions(queens) : Behind(b)' <=> Behind(b)
  PROVE  CountedOK'
<1>1. SearchIsComplete'
  BY DEF Searching, SearchIsComplete
<1>2. Solutions(queens)' = Solutions(queens)
  BY DEF Solutions, Boards, Peaceful
<1>3. found' = {b \in Solutions(queens)' : Behind(b)'}
  BY <1>2 DEF CountedOK
<1> QED
  BY <1>1, <1>3 DEF CountedOK

LEMMA StartCountOK == IInv /\ StartSearch => CountedOK'
<1> SUFFICES ASSUME IInv, StartSearch PROVE CountedOK'
  OBVIOUS
<1>1. /\ found' = {} /\ solutions' = 0 /\ pc' = "enter" /\ level' = 0
  BY DEF StartSearch, IInv, ControlOK
<1>2. \A b : ~Behind(b)'
  BY <1>1 DEF Behind, Ranks
<1>3. IsFiniteSet(found') /\ solutions' = Cardinality(found')
  BY <1>1, FS_EmptySet
<1> QED
  BY <1>1, <1>2, <1>3 DEF CountedOK, SearchIsComplete

LEMMA EnterCountOK == IInv /\ CountedOK /\ EnterRank => CountedOK'
<1> SUFFICES ASSUME IInv, CountedOK, EnterRank PROVE CountedOK'
  OBVIOUS
<1>1. /\ Searching /\ Searching' /\ pc = "enter" /\ pc' = "scan"
      /\ UNCHANGED <<queens, findall, found, solutions, level>>
      /\ f' = [f EXCEPT ![level] = 0] /\ level # queens
  BY DEF EnterRank, flags, Searching
<1>2. level < queens /\ f'[level] = 0 /\ \A q \in 0 .. level - 1 : f'[q] = f[q]
  <2>1. /\ level \in Nat /\ level <= queens /\ queens <= MAXQUEENS /\ queens \in Nat
        /\ f \in [0 .. MAXQUEENS -> 0 .. MAXQUEENS]
    BY <1>1, SearchFacts
  <2>2. level < queens /\ \A q \in 0 .. level : q \in 0 .. MAXQUEENS
    BY <1>1, <2>1, SizesOK
  <2> QED
    BY <1>1, <2>1, <2>2
<1>3. ASSUME NEW b \in Solutions(queens) PROVE Behind(b)' <=> Behind(b)
  <2>1. Ranks = 0 .. level - 1 /\ Ranks' = 0 .. level /\ level \in Nat
    BY <1>1, SearchFacts DEF Ranks
  <2>2. \A r \in 0 .. level - 1 : Agree(b, r)' <=> Agree(b, r)
    BY <1>1, <1>2, <2>1 DEF Agree
  <2>3. ~(b[level] < f'[level])
    BY <1>1, <1>2, SearchFacts
  <2> QED
    BY <1>1, <1>2, <2>1, <2>2, <2>3 DEF Behind
<1> QED
  BY <1>1, <1>3, SameCountOK

LEMMA PlaceCountOK == IInv /\ CountedOK /\ PlaceQueen => CountedOK'
<1> SUFFICES ASSUME IInv, CountedOK, PlaceQueen PROVE CountedOK'
  OBVIOUS
<1>1. /\ Searching /\ Searching' /\ pc = "scan" /\ pc' = "enter"
      /\ UNCHANGED <<queens, findall, found, solutions, f>>
      /\ level' = level + 1 /\ level \in Nat
  BY SearchFacts DEF PlaceQueen, flags, Searching
<1>2. Ranks' = Ranks
  BY <1>1 DEF Ranks
<1>3. \A b : Behind(b)' <=> Behind(b)
  BY <1>1, <1>2 DEF Behind, Agree
<1> QED
  BY <1>1, <1>3, SameCountOK

\* Going on to the next file: the boards with a queen on this one are behind.
LEMMA NextFile ==
  ASSUME IInv, Searching, level < queens, f' = [f EXCEPT ![level] = @ + 1],
         pc' = "scan", UNCHANGED level, NEW b \in Solutions(queens)
  PROVE  Behind(b)' <=>
           (\E r \in 0 .. level : b[r] < f[r] /\ Agree(b, r)) \/ Agree(b, level + 1)
<1>1. /\ level \in Nat /\ f'[level] = f[level] + 1 /\ f[level] \in Nat
      /\ \A q \in 0 .. level - 1 : f'[q] = f[q]
      /\ b[level] \in Nat
  <2>1. /\ level \in Nat /\ queens <= MAXQUEENS /\ queens \in Nat
        /\ f \in [0 .. MAXQUEENS -> 0 .. MAXQUEENS]
        /\ f[level] \in Nat /\ b[level] \in Nat
    BY SearchFacts
  <2>2. \A q \in 0 .. level : q \in 0 .. MAXQUEENS
    BY <2>1, SizesOK
  <2> QED
    BY <2>1, <2>2
<1>2. Ranks' = 0 .. level
  BY DEF Ranks
<1>3. \A r \in 0 .. level : Agree(b, r)' <=> Agree(b, r)
  BY <1>1 DEF Agree
<1>4. Agree(b, level + 1) <=> Agree(b, level) /\ b[level] = f[level]
  BY <1>1 DEF Agree
<1>5. b[level] < f'[level] <=> b[level] < f[level] \/ b[level] = f[level]
  BY <1>1
<1>6. Behind(b)' <=> \E r \in 0 .. level : b[r] < f'[r] /\ Agree(b, r)
  BY <1>2, <1>3 DEF Behind
<1>7. \A r \in 0 .. level : r = level \/ f'[r] = f[r]
  BY <1>1
<1> QED
  BY <1>1, <1>4, <1>5, <1>6, <1>7

LEMMA RemoveCountOK == IInv /\ CountedOK /\ RemoveQueen => CountedOK'
<1> SUFFICES ASSUME IInv, CountedOK, RemoveQueen PROVE CountedOK'
  OBVIOUS
<1>1. /\ Searching /\ Searching' /\ pc = "unwind" /\ pc' = "scan"
      /\ UNCHANGED <<queens, findall, found, solutions, level>>
      /\ f' = [f EXCEPT ![level] = @ + 1] /\ level < queens
  BY DEF RemoveQueen, flags, Searching, IInv, ControlOK
<1>2. Ranks = 0 .. level
  BY <1>1 DEF Ranks
<1>3. \A b \in Solutions(queens) : Behind(b)' <=> Behind(b)
  BY <1>1, <1>2, NextFile DEF Behind
<1> QED
  BY <1>1, <1>3, SameCountOK

\* An owned line leads to a queen that attacks the square.
LEMMA TakenSquare ==
  ASSUME IInv, pc = "scan", f[level] < queens, ~Free(level, f[level]),
         NEW b \in Solutions(queens)
  PROVE  ~Agree(b, level + 1)
<1> SUFFICES ASSUME Agree(b, level + 1) PROVE FALSE
  OBVIOUS
<1>1. /\ Searching /\ Placed = 0 .. level - 1 /\ level < queens
  BY DEF Searching, Placed, IInv, ControlOK
<1>2. /\ level \in 0 .. queens - 1 /\ f[level] \in 0 .. queens - 1
      /\ queens \in 0 .. MAXQUEENS
  BY <1>1, SearchFacts
<1>3. /\ f[level] \in Files
      /\ ForDiag(level, f[level]) \in Diags
      /\ BakDiag(level, f[level]) \in Diags
  BY <1>2, DiagonalsExist
<1>4. /\ file[f[level]] \in 0 .. EMPTY
      /\ fordiag[ForDiag(level, f[level])] \in 0 .. EMPTY
      /\ bakdiag[BakDiag(level, f[level])] \in 0 .. EMPTY
  BY <1>3 DEF IInv, TypeOK
<1>5. ~(EMPTY < level)
  BY <1>2, SizesOK
<1>6. /\ \A q \in 0 .. level : b[q] = f[q] /\ b[q] \in Nat
      /\ \A q \in 0 .. level - 1 : queen[q] = b[q]
  <2>1. \A q \in 0 .. level : b[q] = f[q]
    BY <1>2 DEF Agree
  <2>2. \A q \in 0 .. level : q \in 0 .. queens - 1
    BY <1>2
  <2>3. \A q \in 0 .. level : b[q] \in Nat
    BY <1>1, <2>2, SearchFacts
  <2>4. \A q \in 0 .. level - 1 : queen[q] = f[q]
    BY <1>1 DEF IInv, QueensOwnLines
  <2>5. \A q \in 0 .. level - 1 : q \in 0 .. level
    BY <1>2
  <2> QED
    BY <2>1, <2>3, <2>4, <2>5
<1>7. ASSUME NEW q \in 0 .. level - 1
      PROVE  ~Attack(q, b[q], level, b[level])
  <2>1. q \in 0 .. queens - 1 /\ level \in 0 .. queens - 1 /\ q # level
    BY <1>2
  <2> QED
    BY <2>1 DEF Solutions, Peaceful
<1>8. CASE file[f[level]] < level
  <2>1. file[f[level]] \in 0 .. level - 1 /\ queen[file[f[level]]] = f[level]
    BY <1>1, <1>3, <1>4, <1>5, <1>8 DEF IInv, OthersAreEmpty
  <2> QED
    BY <1>2, <1>6, <1>7, <2>1 DEF Attack
<1>9. CASE fordiag[ForDiag(level, f[level])] < level
  <2> DEFINE q == fordiag[ForDiag(level, f[level])]
  <2>1. q \in 0 .. level - 1 /\ ForDiag(q, queen[q]) = ForDiag(level, f[level])
    BY <1>1, <1>3, <1>4, <1>5, <1>9 DEF IInv, OthersAreEmpty
  <2> HIDE DEF q
  <2>2. q + b[q] = level + b[level]
    BY <1>2, <1>6, <2>1 DEF ForDiag
  <2> QED
    BY <1>7, <2>1, <2>2 DEF Attack
<1>10. CASE bakdiag[BakDiag(level, f[level])] < level
  <2> DEFINE q == bakdiag[BakDiag(level, f[level])]
  <2>1. q \in 0 .. level - 1 /\ BakDiag(q, queen[q]) = BakDiag(level, f[level])
    BY <1>1, <1>3, <1>4, <1>5, <1>10 DEF IInv, OthersAreEmpty
  <2> HIDE DEF q
  <2>2. q - b[q] = level - b[level]
    <3>1. q \in Nat /\ b[q] \in Nat /\ b[level] \in Nat /\ level \in Nat
          /\ queen[q] = b[q] /\ f[level] = b[level] /\ queens \in Nat
      BY <1>2, <1>6, <2>1
    <3>2. q + queens - 1 - b[q] = level + queens - 1 - b[level]
      BY <2>1, <3>1 DEF BakDiag
    <3> QED
      BY <3>1, <3>2
  <2> QED
    BY <1>7, <2>1, <2>2 DEF Attack
<1> QED
  BY <1>2, <1>4, <1>8, <1>9, <1>10, SizesOK DEF Free

LEMMA SkipCountOK == IInv /\ CountedOK /\ SkipSquare => CountedOK'
<1> SUFFICES ASSUME IInv, CountedOK, SkipSquare PROVE CountedOK'
  OBVIOUS
<1>1. /\ Searching /\ Searching' /\ pc = "scan" /\ pc' = "scan"
      /\ UNCHANGED <<queens, findall, found, solutions, level>>
      /\ f' = [f EXCEPT ![level] = @ + 1] /\ level < queens
      /\ f[level] < queens /\ ~Free(level, f[level])
  BY DEF SkipSquare, flags, Searching, IInv, ControlOK
<1>2. Ranks = 0 .. level
  BY <1>1 DEF Ranks
<1>3. ASSUME NEW b \in Solutions(queens) PROVE Behind(b)' <=> Behind(b)
  <2>1. ~Agree(b, level + 1)
    BY <1>1, TakenSquare
  <2> QED
    BY <1>1, <1>2, <2>1, NextFile DEF Behind
<1> QED
  BY <1>1, <1>3, SameCountOK

\* At the end of a rank, every board that agrees below it is behind.
LEMMA RankDone ==
  ASSUME IInv, pc = "scan", f[level] = queens, NEW b \in Solutions(queens)
  PROVE  Behind(b) <=>
           (\E r \in 0 .. level - 1 : b[r] < f[r] /\ Agree(b, r)) \/ Agree(b, level)
<1>1. level \in Nat /\ level < queens /\ b[level] < f[level]
  BY SearchFacts DEF Searching, IInv, ControlOK
<1> QED
  BY <1>1 DEF Behind, Ranks

LEMMA ReturnCountOK == IInv /\ CountedOK /\ ReturnToCaller => CountedOK'
<1> SUFFICES ASSUME IInv, CountedOK, ReturnToCaller PROVE CountedOK'
  OBVIOUS
<1>1. /\ Searching /\ Searching' /\ pc = "scan" /\ pc' = "unwind"
      /\ UNCHANGED <<queens, findall, found, solutions, f>>
      /\ f[level] = queens /\ level' = level - 1 /\ level \in Nat
  BY SearchFacts DEF ReturnToCaller, flags, Searching
<1>2. Ranks' = 0 .. level - 1 /\ level' + 1 = level
  BY <1>1 DEF Ranks
<1>3. ASSUME NEW b \in Solutions(queens) PROVE Behind(b)' <=> Behind(b)
  <2>1. \A r : Agree(b, r)' <=> Agree(b, r)
    BY <1>1 DEF Agree
  <2>2. Behind(b)' <=>
          (\E r \in 0 .. level - 1 : b[r] < f[r] /\ Agree(b, r)) \/ Agree(b, level)
    BY <1>1, <1>2, <2>1 DEF Behind
  <2> QED
    BY <1>1, <2>2, RankDone
<1> QED
  BY <1>1, <1>3, SameCountOK

\* The board counted is a new one, and the only one that stops being ahead.
LEMMA CountCountOK == IInv /\ CountedOK /\ CountSolution => CountedOK'
<1> SUFFICES ASSUME IInv, CountedOK, CountSolution PROVE CountedOK'
  OBVIOUS
<1> DEFINE new == [r \in 0 .. queens - 1 |-> queen[r]]
<1>1. /\ Searching /\ pc = "enter" /\ level = queens
      /\ UNCHANGED <<queens, findall, f>>
      /\ found' = found \cup {new} /\ solutions' = solutions + 1
      /\ found = {b \in Solutions(queens) : Behind(b)}
      /\ IsFiniteSet(found) /\ solutions = Cardinality(found)
      /\ ~findall => found = {}
  BY DEF CountSolution, flags, Searching, CountedOK
<1>2. /\ queens \in Nat /\ queens > 0 /\ new \in Solutions(queens)
      /\ \A r \in 0 .. queens - 1 : new[r] = f[r] /\ f[r] \in Nat
      /\ Solutions(queens) \subseteq Boards(queens)
  <2>1. \A r \in 0 .. queens - 1 : queen[r] = f[r]
    BY <1>1 DEF IInv, QueensOwnLines, Placed
  <2>2. queens \in Nat /\ \A r \in 0 .. queens - 1 : f[r] \in Nat
    BY <1>1, SearchFacts
  <2> QED
    BY <1>1, <2>1, <2>2, FullBoardIsPeaceful, SearchFacts
<1>3. new \notin found
  BY <1>1, <1>2 DEF Behind, Ranks
<1>4. /\ IsFiniteSet(found') /\ solutions' = Cardinality(found')
  BY <1>1, <1>3, FS_AddElement
<1>5. Solutions(queens)' = Solutions(queens)
  BY <1>1 DEF Solutions, Boards, Peaceful
<1>6. CASE findall
  <2>1. pc' = "unwind" /\ level' = queens - 1
    BY <1>1, <1>6 DEF CountSolution
  <2>2. ASSUME NEW b \in Solutions(queens)
        PROVE  Behind(b)' <=> Behind(b) \/ b = new
    <3>1. Ranks' = 0 .. queens - 1 /\ Ranks = 0 .. queens - 1 /\ level' + 1 = queens
      BY <1>1, <1>2, <2>1 DEF Ranks
    <3>2. \A r : Agree(b, r)' <=> Agree(b, r)
      BY <1>1 DEF Agree
    <3>3. Agree(b, queens) <=> b = new
      <4>1. b \in Boards(queens) /\ new \in Boards(queens)
        BY <1>2
      <4>2. \A q \in 0 .. queens - 1 : new[q] = f[q]
        BY <1>2
      <4> HIDE DEF new
      <4>3. Agree(b, queens) <=> \A q \in 0 .. queens - 1 : b[q] = new[q]
        BY <4>2 DEF Agree
      <4>4. (\A q \in 0 .. queens - 1 : b[q] = new[q]) <=> b = new
        <5>1. b = new \/ \E r \in 0 .. queens - 1 : b[r] # new[r]
          BY <1>2, <4>1, FirstDifference
        <5> QED
          BY <5>1
      <4> QED
        BY <4>3, <4>4
    <3>4. Behind(b)' <=> (\E r \in Ranks : b[r] < f[r] /\ Agree(b, r))
                          \/ Agree(b, queens)
      BY <1>1, <2>1, <3>1, <3>2 DEF Behind
    <3> QED
      BY <1>1, <3>3, <3>4 DEF Behind
  <2>3. found' = {b \in Solutions(queens)' : Behind(b)'}
    BY <1>1, <1>2, <1>5, <2>2
  <2>4. SearchIsComplete'
    BY <2>1 DEF SearchIsComplete
  <2> QED
    BY <1>1, <1>4, <1>6, <2>3, <2>4 DEF CountedOK
<1>7. CASE ~findall
  <2>1. pc' = "exit" /\ ~Searching' /\ found' = {new} /\ found = {}
    BY <1>1, <1>7 DEF CountSolution, Exit, Searching
  <2>2. solutions' = 1
    BY <1>4, <2>1, FS_Singleton
  <2>3. FirstBoard(new, Solutions(queens))
    <3> SUFFICES ASSUME NEW s \in Solutions(queens), s # new
                 PROVE  \E r \in 0 .. queens - 1 :
                          /\ new[r] < s[r]
                          /\ \A q \in 0 .. r - 1 : new[q] = s[q]
      BY DEF FirstBoard
    <3>1. PICK r \in 0 .. queens - 1 :
                 s[r] # new[r] /\ \A q \in 0 .. r - 1 : s[q] = new[q]
      <4>1. s \in Boards(queens) /\ new \in Boards(queens) /\ queens \in Nat
        BY <1>2
      <4> HIDE DEF new
      <4> QED
        BY <4>1, FirstDifference
    <3>2. Agree(s, r)
      <4>1. \A q \in 0 .. r - 1 : q \in 0 .. queens - 1
        BY <1>2
      <4>2. \A q \in 0 .. r - 1 : new[q] = f[q]
        BY <1>2, <4>1
      <4> HIDE DEF new
      <4> QED
        BY <3>1, <4>2 DEF Agree
    <3>3. ~(s[r] < f[r])
      BY <1>1, <1>2, <2>1, <3>2 DEF Behind, Ranks
    <3>4. s[r] \in Nat /\ new[r] = f[r] /\ f[r] \in Nat
      BY <1>1, <1>2, SearchFacts
    <3> QED
      BY <3>1, <3>3, <3>4
  <2>4. \A b \in found' : FirstBoard(b, Solutions(queens)')
    BY <1>5, <2>1, <2>3
  <2>5. SearchIsComplete'
    BY <1>1, <1>4, <1>7, <2>2, <2>4 DEF SearchIsComplete
  <2> QED
    BY <2>1, <2>5 DEF CountedOK
<1> QED
  BY <1>6, <1>7

LEMMA ReportCountOK == IInv /\ CountedOK /\ Report => CountedOK'
<1> SUFFICES ASSUME IInv, CountedOK, Report PROVE CountedOK'
  OBVIOUS
<1>1. /\ Searching /\ pc = "scan" /\ f[level] = queens /\ level = 0
      /\ pc' = "exit" /\ ~Searching'
      /\ UNCHANGED <<queens, findall, found, solutions, file, fordiag, bakdiag>>
  BY DEF Report, Exit, flags, board, Searching
<1>2. /\ found = {b \in Solutions(queens) : Behind(b)}
      /\ solutions = Cardinality(found) /\ (~findall => found = {})
  BY <1>1 DEF CountedOK
<1>3. found = Solutions(queens)
  <2>1. \A b : Agree(b, level)
    BY <1>1 DEF Agree
  <2> QED
    BY <1>1, <1>2, <2>1, RankDone
<1>4. /\ \A c \in Files : file[c] = EMPTY
      /\ \A d \in Diags : fordiag[d] = EMPTY /\ bakdiag[d] = EMPTY
  <2>1. Placed = {}
    BY <1>1 DEF Placed
  <2> QED
    BY <1>1, <2>1 DEF IInv, OthersAreEmpty
<1>5. Solutions(queens)' = Solutions(queens)
  BY <1>1 DEF Solutions, Boards, Peaceful
<1>6. SearchIsComplete'
  BY <1>1, <1>2, <1>3, <1>4, <1>5 DEF SearchIsComplete
<1> QED
  BY <1>1, <1>6 DEF CountedOK

LEMMA StepCountedOK == IInv /\ CountedOK /\ [Next]_vars => CountedOK'
<1> SUFFICES ASSUME IInv, CountedOK, [Next]_vars PROVE CountedOK'
  OBVIOUS
<1>1. CASE ScanOption \/ ScanNumber \/ RejectArguments
  <2>1. ~Searching' /\ ~(pc' = "exit" /\ status' = 0)
    BY <1>1 DEF ScanOption, ScanNumber, RejectArguments, Exit, Searching
  <2> QED
    BY <2>1 DEF CountedOK, SearchIsComplete
<1>2. CASE UNCHANGED vars
  <2>1. \A b : Behind(b)' <=> Behind(b)
    BY <1>2 DEF vars, Behind, Ranks, Agree
  <2>2. Solutions(queens)' = Solutions(queens)
    BY <1>2 DEF vars, flags, Solutions, Boards, Peaceful
  <2>3. SearchIsComplete' <=> SearchIsComplete
    BY <1>2, <2>2 DEF vars, flags, board, SearchIsComplete, FirstBoard
  <2>4. found' = found /\ UNCHANGED <<pc, solutions, findall>>
    BY <1>2 DEF vars, flags
  <2> QED
    BY <2>1, <2>2, <2>3, <2>4 DEF CountedOK, Searching
<1> QED
  BY <1>1, <1>2, StartCountOK, EnterCountOK, CountCountOK, SkipCountOK,
     PlaceCountOK, RemoveCountOK, ReturnCountOK, ReportCountOK DEF Next

\* When find(0) has returned, every placement there is has been counted, each
\* once, or the first one in the order of the search if one was enough; for
\* every board size and every command line.
THEOREM CountedExactly == Spec => []SearchIsComplete
<1>1. Init => CountedOK
  BY DEF Init, CountedOK, Searching, SearchIsComplete
<1>2. CountedOK => SearchIsComplete
  BY DEF CountedOK
<1> QED
  BY Inductive, <1>1, <1>2, StepCountedOK, PTL DEF Spec
=============================================================================
