------------------------------- MODULE Queens -------------------------------
(***************************************************************************)
(* The queens benchmark (benchmarks/queens.c): main() decodes the command  *)
(* line, then find() searches all placements of n queens, one rank per     *)
(* recursion level.  The search keeps no board: three arrays record which  *)
(* queen owns each file and each diagonal, and a square is free when none  *)
(* of its three owners is a queen of an earlier rank.                      *)
(*                                                                         *)
(* The C stack of find() is the pair level, f: f[k] is the local loop      *)
(* variable of the active call of find(k), for k <= level.                 *)
(***************************************************************************)
EXTENDS Integers, Sequences, FiniteSets

CONSTANTS
  MAXQUEENS,  \* largest board accepted (100 in the program)
  Argv        \* command lines the program may be started with

(***************************************************************************)
(* An argument is an option word (the set of letters after '-'; any letter *)
(* but a and c is illegal), a word sscanf("%d") reads a number from, or a  *)
(* word it reads none from.                                                *)
(***************************************************************************)
Argument ==
  [kind : {"option"}, letters : SUBSET {"a", "c", "other"}]
    \cup [kind : {"number"}, value : Int]
    \cup [kind : {"junk"}]

ASSUME QueensAssumption ==
  /\ MAXQUEENS \in Nat \ {0}
  /\ Argv \subseteq Seq(Argument)

MAXDIAGS == MAXQUEENS + MAXQUEENS - 1
EMPTY    == MAXQUEENS + 1

Files == 0 .. MAXQUEENS - 1
Diags == 0 .. MAXDIAGS - 1

VARIABLES
  argv,       \* arguments not scanned yet
  queens,     \* n, 0 until an argument gives it
  printing,   \* print the boards (no -c)
  findall,    \* look for every solution (-a or -c)
  pc,         \* "args", in find() "enter" / "scan" / "unwind", or "exit"
  level,      \* recursion level of find(): the rank being filled
  f,          \* per level, the file the loop of find(level) has reached
  queen,      \* file of the queen of each rank
  file,       \* owner of each file
  fordiag,    \* owner of each forward diagonal
  bakdiag,    \* owner of each reverse diagonal
  solutions,  \* number of solutions counted
  found,      \* history: the boards counted as solutions
  status      \* exit code, meaningful once pc = "exit"

board == <<queen, file, fordiag, bakdiag>>
flags == <<argv, queens, printing, findall>>
vars  == <<flags, pc, level, f, board, solutions, found, status>>

-----------------------------------------------------------------------------
(* Vocabulary of the search.                                               *)

\* The diagonals through the square at rank r and file c: fdp starts at
\* &fordiag[level] and moves up, bdp starts at &bakdiag[level+files-1] and
\* moves down as the file advances.
ForDiag(r, c) == r + c
BakDiagOneHigh(r, c) == r + queens - c
BakDiag(r, c) == r + queens - 1 - c

\* A weaker test, blind to the reverse diagonals.
FreeButBakdiag(r, c) == file[c] >= r /\ fordiag[ForDiag(r, c)] >= r

\* The test of the loop body: no owner of the square is an earlier queen.
Free(r, c) ==
  /\ file[c] >= r
  /\ fordiag[ForDiag(r, c)] >= r
  /\ bakdiag[BakDiag(r, c)] >= r

\* Write owner o to the file and the diagonals of a square.
Mark(r, c, o) ==
  /\ file'    = [file EXCEPT ![c] = o]
  /\ fordiag' = [fordiag EXCEPT ![ForDiag(r, c)] = o]
  /\ bakdiag' = [bakdiag EXCEPT ![BakDiag(r, c)] = o]

Exit(code) == pc' = "exit" /\ status' = code

-----------------------------------------------------------------------------
(* main(): command line and initialization.                                *)

Init ==
  /\ argv \in Argv
  /\ queens = 0
  /\ printing = TRUE
  /\ findall = FALSE
  /\ pc = "args"
  /\ level = 0
  /\ f = [k \in 0 .. MAXQUEENS |-> 0]
  /\ queen = [r \in Files |-> 0]
  /\ file = [c \in Files |-> 0]
  /\ fordiag = [d \in Diags |-> 0]
  /\ bakdiag = [d \in Diags |-> 0]
  /\ solutions = 0
  /\ found = {}
  /\ status = 0

LegalOption(a) == a.kind = "option" /\ "other" \notin a.letters
LegalNumber(a) == a.kind = "number" /\ a.value \in 1 .. MAXQUEENS

\* -c falls through to -a.
ScanOption ==
  /\ pc = "args"
  /\ argv # <<>>
  /\ LegalOption(Head(argv))
  /\ printing' = (printing /\ "c" \notin Head(argv).letters)
  /\ findall'  = (findall \/ Head(argv).letters # {})
  /\ argv' = Tail(argv)
  /\ UNCHANGED <<queens, pc, level, f, board, solutions, found, status>>

\* The last number given wins.
ScanNumber ==
  /\ pc = "args"
  /\ argv # <<>>
  /\ LegalNumber(Head(argv))
  /\ queens' = Head(argv).value
  /\ argv' = Tail(argv)
  /\ UNCHANGED <<printing, findall, pc, level, f, board, solutions, found,
                 status>>

\* Illegal option, word without a number, number out of 1..MAXQUEENS, or
\* no number at all.
RejectArguments ==
  /\ pc = "args"
  /\ IF argv = <<>> THEN queens = 0
                    ELSE ~LegalOption(Head(argv)) /\ ~LegalNumber(Head(argv))
  /\ Exit(-1)
  /\ UNCHANGED <<flags, level, f, board, solutions, found>>

\* No solutions yet, nobody owns anything, find(0).
StartSearch ==
  /\ pc = "args"
  /\ argv = <<>>
  /\ queens # 0
  /\ solutions' = 0
  /\ file'    = [c \in Files |-> EMPTY]
  /\ fordiag' = [d \in Diags |-> EMPTY]
  /\ bakdiag' = [d \in Diags |-> EMPTY]
  /\ level' = 0
  /\ pc' = "enter"
  /\ UNCHANGED <<flags, f, queen, found, status>>

-----------------------------------------------------------------------------
(* find(level).                                                            *)

EnterRank ==
  /\ pc = "enter"
  /\ level # queens
  /\ f' = [f EXCEPT ![level] = 0]
  /\ pc' = "scan"
  /\ UNCHANGED <<flags, level, board, solutions, found, status>>

\* All queens placed: count the board; stop the program after the first one
\* unless every solution is wanted.
CountSolution ==
  /\ pc = "enter"
  /\ level = queens
  /\ solutions' = solutions + 1
  /\ found' = found \cup {[r \in 0 .. queens - 1 |-> queen[r]]}
  /\ IF findall
       THEN pc' = "unwind" /\ level' = level - 1 /\ UNCHANGED status
       ELSE Exit(0) /\ UNCHANGED level
  /\ UNCHANGED <<flags, f, board>>

SkipSquare ==
  /\ pc = "scan"
  /\ f[level] < queens
  /\ ~Free(level, f[level])
  /\ f' = [f EXCEPT ![level] = @ + 1]
  /\ UNCHANGED <<flags, pc, level, board, solutions, found, status>>

PlaceQueen ==
  /\ pc = "scan"
  /\ f[level] < queens
  /\ Free(level, f[level])
  /\ queen' = [queen EXCEPT ![level] = f[level]]
  /\ Mark(level, f[level], level)
  /\ level' = level + 1
  /\ pc' = "enter"
  /\ UNCHANGED <<flags, f, solutions, found, status>>

\* Faulty variants of taking a queen back: one leaves the reverse diagonal
\* owned, one tries the same file again.
RemoveAllButBakdiag ==
  /\ pc = "unwind"
  /\ file'    = [file EXCEPT ![f[level]] = EMPTY]
  /\ fordiag' = [fordiag EXCEPT ![ForDiag(level, f[level])] = EMPTY]
  /\ f' = [f EXCEPT ![level] = @ + 1]
  /\ pc' = "scan"
  /\ UNCHANGED <<flags, level, queen, bakdiag, solutions, found, status>>

\* find(level+1) has returned: take the queen back and advance.
RemoveQueen ==
  /\ pc = "unwind"
  /\ Mark(level, f[level], EMPTY)
  /\ f' = [f EXCEPT ![level] = @ + 1]
  /\ pc' = "scan"
  /\ UNCHANGED <<flags, level, queen, solutions, found, status>>

ReturnToCaller ==
  /\ pc = "scan"
  /\ f[level] = queens
  /\ level > 0
  /\ level' = level - 1
  /\ pc' = "unwind"
  /\ UNCHANGED <<flags, f, board, solutions, found, status>>

\* find(0) has returned: report the count.
Report ==
  /\ pc = "scan"
  /\ f[level] = queens
  /\ level = 0
  /\ Exit(0)
  /\ UNCHANGED <<flags, level, f, board, solutions, found>>

Next ==
  \/ ScanOption
  \/ ScanNumber
  \/ RejectArguments
  \/ StartSearch
  \/ EnterRank
  \/ CountSolution
  \/ SkipSquare
  \/ PlaceQueen
  \/ RemoveQueen
  \/ ReturnToCaller
  \/ Report

Spec     == Init /\ [][Next]_vars
-----------------------------------------------------------------------------
(* What the search must establish.                                         *)

Attack(r1, c1, r2, c2) ==
  \/ r1 = r2
  \/ c1 = c2
  \/ r1 + c1 = r2 + c2
  \/ r1 - c1 = r2 - c2

Peaceful(n, b) ==
  \A r1, r2 \in 0 .. n - 1 : r1 # r2 => ~Attack(r1, b[r1], r2, b[r2])

Boards(n)    == [0 .. n - 1 -> 0 .. n - 1]
Solutions(n) == {b \in Boards(n) : Peaceful(n, b)}

TypeOK ==
  /\ argv \in Seq(Argument)
  /\ queens \in 0 .. MAXQUEENS
  /\ printing \in BOOLEAN
  /\ findall \in BOOLEAN
  /\ pc \in {"args", "enter", "scan", "unwind", "exit"}
  /\ level \in 0 .. MAXQUEENS
  /\ f \in [0 .. MAXQUEENS -> 0 .. MAXQUEENS]
  /\ queen \in [Files -> Files]
  /\ file \in [Files -> 0 .. EMPTY]
  /\ fordiag \in [Diags -> 0 .. EMPTY]
  /\ bakdiag \in [Diags -> 0 .. EMPTY]
  /\ solutions \in Nat
  /\ status \in {0, -1}

\* Every board find() counts has one queen per rank and no two queens on one
\* file or diagonal, although the search only ever compares owners with the
\* current level and stale owners stay in the arrays between calls.
CountedBoardsArePeaceful == found \subseteq Solutions(queens)

\* Board b comes first in the order in which find() moves the queens.
FirstBoard(b, S) ==
  \A s \in S \ {b} : \E r \in DOMAIN b :
    /\ b[r] < s[r]
    /\ \A q \in 0 .. r - 1 : b[q] = s[q]

\* When find(0) has returned, the number counted is that of distinct boards
\* found.  -a and -c, or a search in vain, have counted every placement there
\* is (the pruning loses none) and all ownership marks are gone; otherwise the
\* search stopped at the solution that is first in file order, rank by rank.
SearchIsComplete ==
  (pc = "exit" /\ status = 0) =>
    /\ solutions = Cardinality(found)
    /\ \/ /\ findall \/ found = {}
          /\ found = Solutions(queens)
          /\ \A c \in Files : file[c] = EMPTY
          /\ \A d \in Diags : fordiag[d] = EMPTY /\ bakdiag[d] = EMPTY
       \/ /\ ~findall /\ solutions = 1
          /\ \A b \in found : FirstBoard(b, Solutions(queens))

\* The diagonal pointers stay inside the arrays at every square the loop
\* looks at, up to the largest board.
DiagonalsInBounds ==
  (pc \in {"scan", "unwind"} /\ f[level] < queens) =>
    /\ ForDiag(level, f[level]) \in 0 .. MAXDIAGS - 1
    /\ BakDiag(level, f[level]) \in 0 .. MAXDIAGS - 1

=============================================================================
