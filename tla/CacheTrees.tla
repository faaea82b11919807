----------------------------- MODULE CacheTrees -----------------------------
(***************************************************************************)
(* The trees of caches and testers of example/memtest.py and memcheck.py.  *)
(* caches[1] is the fan-out next to memory, testers[1] the testers there;  *)
(* the last element of testers is for the uppermost level, level 0.        *)
(***************************************************************************)
EXTENDS SystemPorts

\* numtesters: elements are for each subsystem, and it fans out.
MultiplierLate(caches) ==                                   \* faulty variant
  [k \in 1 .. Len(caches) + 1 |-> IF k = 1 THEN 1 ELSE caches[k - 1]]
Multiplier(caches) ==
  LET times[k \in 1 .. Len(caches) + 1] ==
        IF k = 1 THEN 1 ELSE times[k - 1] * caches[k - 1]
  IN  times
NumTesters(caches, testers) ==
  LET total[k \in 0 .. Len(testers)] ==
        IF k = 0 THEN 0 ELSE total[k - 1] + testers[k] * Multiplier(caches)[k]
  IN  total[Len(testers)]

\* What both scripts refuse; memtest also more testers than bytes of a block.
SpecRefused(caches, testers) ==
  \/ Len(caches) < 1
  \/ Len(caches) # Len(testers) - 1
  \/ testers[Len(testers)] = 0
  \/ \E k \in 1 .. Len(testers) : testers[k] < 0
  \/ \E k \in 1 .. Len(caches) : caches[k] < 1

\* make_cache_level.  A node is <<kind, <<level, subsystem, number>>>>; the
\* subsystems of a level are numbered as the recursion comes to them.
At(kind, level, index, n) == <<kind, <<level, index, n>>>>
SubsysXbar(level, index)  == At("subsys_xbar", level, index, 0)

\* memcheck puts a checker between a tester and what it is connected to.
Tester(o, level, index, n, to) ==
  LET tester == At("tester", level, index, n)
      checker == At("checker", level, index, n)
  IN  IF o.script = "memcheck" THEN {Link(tester, checker), Link(checker, to)}
                               ELSE {Link(tester, to)}

\* The calls of make_cache_level, from the lowest level on: the number of the
\* subsystem, and the cache it is made for.
Subsystem(index, next_cache) == [index |-> index, next_cache |-> next_cache]
Above(caches, k, s, n) ==
  Subsystem(s.index * caches[k] + n - 1,
            {At("tree_cache", Len(caches) - k + 1, s.index, n)})
Subsystems(caches) ==
  LET made[k \in 0 .. Len(caches)] ==
        IF k = 0 THEN {Subsystem(0, {})}
        ELSE {Above(caches, k, s, n) : s \in made[k - 1], n \in 1 .. caches[k]}
  IN  made

MakeCacheLevel(o, level, index, next_cache) ==
  LET ntesters == o.testers[Len(o.caches) - level + 1]
      xbar     == SubsysXbar(level, index)
      up       == {Link(xbar, c) : c \in next_cache}
  IN
  IF level = 0
  THEN IF ntesters > 1
       THEN up \cup UNION {Tester(o, 0, index, n, xbar) : n \in 1 .. ntesters}
       ELSE UNION {Tester(o, 0, index, 1, c) : c \in next_cache}
  ELSE LET fan_out == o.caches[Len(o.caches) - level + 1]
           tree(n) == At("tree_cache", level, index, n)
           own(n)  == At("tester_cache", level, index, n)
       IN  up
             \cup {Link(tree(n), xbar) : n \in 1 .. fan_out}
             \cup UNION {{Link(own(n), xbar)}
                         \cup Tester(o, level, index, n, own(n))
                           : n \in 1 .. ntesters}

\* The lowest crossbar leads to memory, in memtest perhaps by a last cache.
TreePorts(o) ==
  LET last == SubsysXbar(Len(o.caches), 0) IN
  (UNION {UNION {MakeCacheLevel(o, Len(o.caches) - k, s.index, s.next_cache) :
                   s \in Subsystems(o.caches)[k]} : k \in 0 .. Len(o.caches)})
    \cup (IF o.noncoherent
          THEN {Link(last, Node("llc")), Link(Node("llc"), Node("tree_memory"))}
          ELSE {Link(last, Node("tree_memory"))})
    \cup {Link(Node("system"), last)}

Testers(ports) == {p.from : p \in {q \in ports : q.from[1] = "tester"}}
=============================================================================
