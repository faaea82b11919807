---------------------------- MODULE RubyProtocols ----------------------------
(***************************************************************************)
(* What create_system() of a protocol in configs/ruby makes for a command  *)
(* line: the controllers in the order of all_cntrls, the ports of the CPUs *)
(* and what the guest's file system is told about the caches.              *)
(*                                                                         *)
(* A protocol is an operator on a record o of options: num_cpus,           *)
(* num_l2caches, num_clusters, num_dirs, dmas (the number of DMA ports),   *)
(* rom (there is a boot memory), full_system and mem_size.  Sizes and      *)
(* latencies are left out, and so is what only depends on them (the        *)
(* assertion about the bits of MOESI_hammer's probe filter); message       *)
(* buffers too: every controller has its own and they lead to the network, *)
(* except where a module says that there are none (Unbuffered).            *)
(***************************************************************************)
EXTENDS Integers, Sequences, FiniteSets, Functions

None == -1

\* A controller: its type and version; its sequencers; the CPU whose clock it
\* takes; its cluster; the bits of an address that select an L2 for it; the
\* types and versions of the controllers downstream.
Cntrl(type, version) ==
  [type |-> type, version |-> version, seqs |-> <<>>, clock |-> None,
   cluster |-> 0, l2_select |-> None, downstream |-> {}]

\* One for each number below n; w for each of them, which are numbered too.
Each(n, Of(_)) == [k \in 1 .. n |-> Of(k - 1)]
EachOf(n, w, Of(_, _)) == [k \in 1 .. n * w |-> Of((k - 1) \div w, (k - 1) % w)]

Log2(n) == CHOOSE k \in 0 .. n : 2^k <= n /\ n < 2^(k + 1)
IsPowerOfTwo(n) == n > 0 /\ n = 2^Log2(n)

\* A port of the system: the sequencers that take a CPU's instruction and data
\* requests; of a CPU's, a GPU's vector or another kind.
Port(kind, inst, data) == [kind |-> kind, inst |-> inst, data |-> data]

\* What register_cache() is told: the level and the CPUs that share the cache.
Cache(level, cpus) == [level |-> level, cpus |-> cpus]

\* Faulty variant: the boot memory's directory has the last one's version.
DirectoriesRomOnTop(o) ==
  Each(o.num_dirs, LAMBDA i : Cntrl("Directory", i))
  \o IF o.rom THEN <<Cntrl("Directory", o.num_dirs - 1)>> ELSE <<>>

\* The memory's directories, then the one of the boot memory.
Directories(o) ==
  Each(o.num_dirs, LAMBDA i : Cntrl("Directory", i))
  \o IF o.rom THEN <<Cntrl("Directory", o.num_dirs)>> ELSE <<>>

\* One controller for each DMA port, and one for I/O in full systems.
DMAs(o) ==
  Each(o.dmas + (IF o.full_system THEN 1 ELSE 0), LAMBDA i : Cntrl("DMA", i))

\* A CPU's own controller, on its clock and with its sequencer.
OfCpu(type, i) == [Cntrl(type, i) EXCEPT !.clock = i, !.seqs = <<i>>]

Refuse == [refuses |-> TRUE, cntrls |-> <<>>, ports |-> <<>>, caches |-> {}]

\* One port for each CPU, which its sequencer serves.
System(o, cntrls, caches) ==
  [refuses |-> FALSE, cntrls |-> cntrls, caches |-> caches,
   ports   |-> Each(o.num_cpus, LAMBDA i : Port("cpu", i, i))]

-----------------------------------------------------------------------------
(* Protocols without clusters.                                             *)

\* Private L1s and L2s that all of them share, selected by the address.
SharedL2s(o) ==
  Each(o.num_cpus, LAMBDA i :
    [OfCpu("L1Cache", i) EXCEPT !.l2_select = Log2(o.num_l2caches)])
  \o Each(o.num_l2caches, LAMBDA i : Cntrl("L2Cache", i))

MESI_Two_Level(o) == System(o, SharedL2s(o) \o Directories(o) \o DMAs(o), {})

MOESI_CMP_token(o) == System(o, SharedL2s(o) \o Directories(o) \o DMAs(o), {})

\* The L2s have ranges of addresses: a number of them that does not fill the
\* bits has a range that does not exist.
MOESI_CMP_directory(o) ==
  IF ~IsPowerOfTwo(o.num_l2caches) THEN Refuse
  ELSE System(o, SharedL2s(o) \o Directories(o) \o DMAs(o), {})

PrivateL1s(o) == Each(o.num_cpus, LAMBDA i : OfCpu("L1Cache", i))

MI_example(o) ==
  IF o.mem_size % o.num_dirs # 0 THEN Refuse
  ELSE System(o, PrivateL1s(o) \o Directories(o) \o DMAs(o), {})

\* A CPU's L2 is part of the L1's controller.
HammerCaches(o) == {Cache(level, {i}) : level \in {1, 2}, i \in 0 .. o.num_cpus - 1}

MOESI_hammer(o) ==
  System(o, PrivateL1s(o) \o Directories(o) \o DMAs(o),
         IF o.full_system THEN {} ELSE HammerCaches(o))

\* No DMA and no I/O; no CPU gives its clock.
Garnet_standalone(o) ==
  IF o.dmas # 0 THEN Refuse
  ELSE System(o, Each(o.num_cpus, LAMBDA i : [Cntrl("L1Cache", i) EXCEPT !.seqs = <<i>>])
                 \o Directories(o), {})

-----------------------------------------------------------------------------
(* Clusters of CPUs that share L2s.                                        *)

CpusPerCluster(o) == o.num_cpus \div o.num_clusters
L2sPerCluster(o)  == o.num_l2caches \div o.num_clusters

\* Faulty variant: the bits of all L2s, not of those of a cluster.
BitsOfAllL2s(o) == Log2(o.num_l2caches)
L2Bits(o) == Log2(L2sPerCluster(o))

\* The numbers of a cluster's CPUs are consecutive, and so are its L2s'.  The
\* clock is the one of the CPU with the cluster's number.
ThreeLevelCntrls(o) ==
  LET cluster(i) == i \div CpusPerCluster(o)
  IN  Each(o.num_cpus, LAMBDA i :
          [OfCpu("L0Cache", i) EXCEPT !.clock = cluster(i), !.cluster = cluster(i)])
      \o Each(o.num_cpus, LAMBDA i :
          [Cntrl("L1Cache", i) EXCEPT !.cluster = cluster(i), !.l2_select = L2Bits(o)])
      \o Each(o.num_l2caches, LAMBDA i :
          [Cntrl("L2Cache", i) EXCEPT !.cluster = i \div L2sPerCluster(o)])
      \o Directories(o) \o DMAs(o)

ClusterCpus(o, c) == c * CpusPerCluster(o) .. ((c + 1) * CpusPerCluster(o)) - 1

OwnCaches(o) ==
  {Cache(level, {cpu}) : level \in {0, 1}, cpu \in UNION {ClusterCpus(o, c) : c \in 0 .. o.num_clusters - 1}}

\* Faulty variant: the L2s of a cluster are said to be shared by all CPUs.
ThreeLevelCachesOfAll(o) ==
  OwnCaches(o) \cup {Cache(2, 0 .. o.num_cpus - 1) : c \in 0 .. o.num_clusters - 1}

\* The L2s of a cluster appear as one cache that its CPUs share.
ThreeLevelCaches(o) ==
  OwnCaches(o) \cup {Cache(2, ClusterCpus(o, c)) : c \in 0 .. o.num_clusters - 1}

MESI_Three_Level(o) ==
  IF \/ o.num_cpus % o.num_clusters # 0 \/ o.num_cpus = 0
     \/ o.num_l2caches % o.num_clusters # 0 \/ o.num_l2caches = 0
    THEN Refuse
    ELSE System(o, ThreeLevelCntrls(o), IF o.full_system THEN {} ELSE ThreeLevelCaches(o))

\* The same, with sequencers for transactional memory.
MESI_Three_Level_HTM(o) == MESI_Three_Level(o)

-----------------------------------------------------------------------------
(* Learning gem5's cache systems, and the class that counts versions.      *)

\* Those of a type, and the sequencers, among the controllers made so far.
OfType(made, type) == {k \in DOMAIN made : made[k].type = type}
Sequencers(made)   == UNION {Range(made[k].seqs) : k \in DOMAIN made}

\* n new controllers after those made so far: the version is the number of
\* their type, and the sequencers are the next ones, whatever the type.
Created(made, n, type, seqs) ==
  LET version == Cardinality(OfType(made, type))
      first   == Cardinality(Sequencers(made))
  IN  Each(n, LAMBDA i : [Cntrl(type, version + i) EXCEPT
                            !.seqs = Each(seqs, LAMBDA s : first + (i * seqs) + s)])

\* The CPUs' L1s, which take their clocks.
MyL1s(o) ==
  LET L1s == Created(<<>>, o.num_cpus, "L1Cache", 1)
  IN  [k \in DOMAIN L1s |-> [L1s[k] EXCEPT !.clock = k - 1]]

\* One L1 for each CPU and a directory, which panics unless it is for one
\* memory controller.
MyCacheSystem(o) ==
  IF o.num_dirs > 1 THEN Refuse
  ELSE System(o, MyL1s(o) \o Created(MyL1s(o), 1, "Directory", 0), {})

\* The same for the random tester, whose ports have the system's clock.
TestCacheSystem(o) ==
  LET L1s == Created(<<>>, o.num_cpus, "L1Cache", 1)
  IN  IF o.num_dirs > 1 THEN Refuse
      ELSE System(o, L1s \o Created(L1s, 1, "Directory", 0), {})
=============================================================================
