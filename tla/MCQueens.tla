------------------------------ MODULE MCQueens ------------------------------
EXTENDS Queens

Opt(S) == [kind |-> "option", letters |-> S]
Num(n) == [kind |-> "number", value |-> n]
Junk   == [kind |-> "junk"]

\* Every board size with every way to ask, numbers on both sides of the
\* limits, a number given twice, and each kind of illegal word.
MCArgv ==
  { <<o, Num(n)>> : o \in {Opt({}), Opt({"a"}), Opt({"c"}), Opt({"a", "c"})},
                    n \in 0 .. MAXQUEENS + 1 }
    \cup { <<Num(n)>> : n \in 1 .. MAXQUEENS }
    \cup { <<Num(2), Opt({"c"}), Num(4)>>, <<Opt({"a"})>>, <<>>,
           <<Num(3), Junk>>, <<Num(3), Opt({"a", "other"})>> }
=============================================================================
