---------------------------- MODULE MCSimPoints ----------------------------
EXTENDS SimPoints

\* Analyses in the order SimPoint wrote them, with repeated and early
\* intervals that share a start, one that starts beyond the end of a program
\* that ends early, bad and missing lines.
Weights(n) == [k \in 1 .. n |-> TRUE]

MCAnalyses ==
  {[intervals |-> s, weights |-> Weights(Len(s))] :
     s \in UNION {[1 .. n -> 0 .. 4] : n \in 0 .. 3}} \cup
  {[intervals |-> s, weights |-> Weights(Len(s))] : s \in {<<6>>, <<6, 1>>, <<1, 6, 2>>}} \cup
  {[intervals |-> <<1, Bad>>, weights |-> Weights(2)],
   [intervals |-> <<1, 2>>, weights |-> Weights(1)],
   [intervals |-> <<1, 2>>, weights |-> <<TRUE, FALSE>>]}
=============================================================================
