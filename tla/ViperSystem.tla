----------------------------- MODULE ViperSystem -----------------------------
(***************************************************************************)
(* The GPU_VIPER protocol's system (configs/ruby/GPU_VIPER.py): core pairs *)
(* for the CPUs, TCPs, SQCs and scalar caches for the compute units of a   *)
(* GPU, TCPs and SQCs of command processors, TCC banks and directories;    *)
(* and the hierarchy of the GPU's TLBs (configs/common/GPUTLBConfig.py).   *)
(*                                                                         *)
(* Besides the options of RubyProtocols, o has num_compute_units, num_sqc, *)
(* num_scalar_cache, num_cp, num_tccs, numa_high_bit (whether it is set),  *)
(* TLB_config, cu_per_sqc and cu_per_scalar_cache.                         *)
(***************************************************************************)
EXTENDS RubyProtocols, Topologies

-----------------------------------------------------------------------------
(* The controllers of a kind, after those made before.                     *)

construct_dirs(o) == Created(<<>>, o.num_dirs, "Directory", 0)

\* Two CPUs, with a sequencer each, make a pair: there is one for an odd CPU.
CorePairs(o) == (o.num_cpus + 1) \div 2
construct_corepairs(o, made) == Created(made, CorePairs(o), "CorePair", 2)

WithTCC(o, c) == [c EXCEPT !.l2_select = Log2(o.num_tccs)]
SelectTCCs(o, cntrls) == [k \in DOMAIN cntrls |-> WithTCC(o, cntrls[k])]

\* A coalescer and a sequencer.
construct_tcps(o, made) == SelectTCCs(o, Created(made, o.num_compute_units, "TCP", 2))

construct_sqcs(o, made) == SelectTCCs(o, Created(made, o.num_sqc, "SQC", 1))

construct_scalars(o, made) == SelectTCCs(o, Created(made, o.num_scalar_cache, "SQC", 1))

\* A TCP and an SQC for each command processor, in turn.
construct_cmdprocs(o, made) ==
  LET TCPs  == Cardinality(OfType(made, "TCP"))
      SQCs  == Cardinality(OfType(made, "SQC"))
      first == Cardinality(Sequencers(made))
  IN  SelectTCCs(o, EachOf(o.num_cp, 2, LAMBDA i, j :
        IF j = 0 THEN [Cntrl("TCP", TCPs + i) EXCEPT !.seqs = <<first + 3 * i, first + 3 * i + 1>>]
                 ELSE [Cntrl("SQC", SQCs + i) EXCEPT !.seqs = <<first + 3 * i + 2>>]))

\* The SQCs of the command processors are given no message buffers: they are
\* not connected to the network.
Unbuffered(o, made) == {c \in Range(construct_cmdprocs(o, made)) : c.type = "SQC"}

construct_tccs(o, made) == Created(made, o.num_tccs, "TCC", 0)

-----------------------------------------------------------------------------
(* create_system().                                                        *)

\* The controllers there are after each kind, in the order of their creation.
WithCorePairs(o) == construct_dirs(o) \o construct_corepairs(o, construct_dirs(o))
WithTCPs(o)      == WithCorePairs(o) \o construct_tcps(o, WithCorePairs(o))
WithSQCs(o)      == WithTCPs(o) \o construct_sqcs(o, WithTCPs(o))
WithScalars(o)   == WithSQCs(o) \o construct_scalars(o, WithSQCs(o))
WithCmdprocs(o)  == WithScalars(o) \o construct_cmdprocs(o, WithScalars(o))
WithTCCs(o)      == WithCmdprocs(o) \o construct_tccs(o, WithCmdprocs(o))
ViperCntrls(o)   == WithTCCs(o) \o Created(WithTCCs(o), o.dmas, "DMA", 0)

\* The sequencers of both CPUs of a pair.
CorePairPorts(o) ==
  EachOf(CorePairs(o), 2, LAMBDA i, j :
    LET seq == construct_corepairs(o, construct_dirs(o))[i + 1].seqs[j + 1]
    IN  Port("cpu", seq, seq))

\* A port for each controller: the first or the last of its sequencers.
FirstOf(kind, cntrls) ==
  [k \in DOMAIN cntrls |-> Port(kind, cntrls[k].seqs[1], cntrls[k].seqs[1])]
LastOf(kind, cntrls) ==
  [k \in DOMAIN cntrls |->
     LET seqs == cntrls[k].seqs IN Port(kind, seqs[Len(seqs)], seqs[Len(seqs)])]

\* The coalescers of the TCPs, but the sequencers of the command processors'.
cpu_sequencers(o) ==
  CorePairPorts(o)
  \o FirstOf("vector", construct_tcps(o, WithCorePairs(o)))
  \o FirstOf("sqc", construct_sqcs(o, WithTCPs(o)))
  \o FirstOf("scalar", construct_scalars(o, WithSQCs(o)))
  \o LastOf("cp", construct_cmdprocs(o, WithScalars(o)))

\* Both CPUs of a pair, and the caches of the pair; all CPUs share the L3 of
\* a directory.
CorePairCaches(o) ==
  (UNION {{Cache(0, {2 * i, (2 * i) + 1}), Cache(0, {2 * i}), Cache(0, {(2 * i) + 1}),
           Cache(1, {2 * i, (2 * i) + 1})} : i \in 0 .. CorePairs(o) - 1})
  \cup {Cache(2, 0 .. o.num_cpus - 1) : d \in 1 .. o.num_dirs}

\* The bits of a directory are known only when no NUMA bit is given, and a
\* number of directories that does not fill them has a range that does not
\* exist.
GPU_VIPER(o) ==
  IF o.numa_high_bit \/ ~IsPowerOfTwo(o.num_dirs)
    THEN Refuse
    ELSE [refuses |-> FALSE, cntrls |-> ViperCntrls(o), ports |-> cpu_sequencers(o),
          caches  |-> IF o.full_system THEN {} ELSE CorePairCaches(o)]

\* The topology is made of clusters, whatever the options say: directories,
\* CPUs and GPU.
ViperClusters(cntrls) ==
  LET dirs  == {c \in Range(cntrls) : c.type = "Directory"}
      pairs == {c \in Range(cntrls) : c.type = "CorePair"}
  IN  ClusterOf(dirs, <<pairs, Range(cntrls) \ (dirs \cup pairs)>>)

-----------------------------------------------------------------------------
(* TLBs.                                                                   *)

NumTLBs(o) ==
  CASE o.TLB_config = "perLane" -> 64 * o.num_compute_units
    [] o.TLB_config = "mono"    -> 1
    [] o.TLB_config = "perCU"   -> o.num_compute_units
    [] o.TLB_config = "2CU"     -> o.num_compute_units \div 2

\* A connection of a compute unit's port to a port of a coalescer.
Translation(cu, kind, side, coalescer, port) ==
  [cu |-> cu, kind |-> kind, side |-> side, coalescer |-> coalescer, port |-> port]

\* Faulty variant: two compute units that share a TLB also share its port.
VectorTranslationsOnPortZero(o) ==
  LET n == o.num_compute_units
      TLBs == NumTLBs(o)
      per_cu == TLBs \div n
  IN  IF per_cu # 0
        THEN {Translation(cu, "l1", t, (cu * per_cu) + t, 0) :
                cu \in 0 .. n - 1, t \in 0 .. per_cu - 1}
        ELSE {Translation(cu, "l1", 0, (cu * TLBs) \div n, 0) : cu \in 0 .. n - 1}

\* Several TLBs for a compute unit, or several compute units for a TLB; the
\* quotient n_cu / num_TLBs is not rounded, its uses are.
VectorTranslations(o) ==
  LET n == o.num_compute_units
      TLBs == NumTLBs(o)
      per_cu == TLBs \div n
  IN  IF per_cu # 0
        THEN {Translation(cu, "l1", t, (cu * per_cu) + t, 0) :
                cu \in 0 .. n - 1, t \in 0 .. per_cu - 1}
        ELSE {Translation(cu, "l1", 0, (cu * TLBs) \div n, ((cu * TLBs) % n) \div TLBs) :
                cu \in 0 .. n - 1}

SharedTranslations(o, kind, per) ==
  {Translation(cu, kind, 0, cu \div per, cu % per) : cu \in 0 .. o.num_compute_units - 1}

\* The TLBs of the first level, by kind, which take the ports of the second
\* level's coalescer one by one.
FirstLevel(o) == [sqc |-> o.num_sqc, scalar |-> o.num_scalar_cache, l1 |-> NumTLBs(o)]

config_tlb_hierarchy(o) ==
  [width  |-> FirstLevel(o),
   ports  |-> VectorTranslations(o)
              \cup SharedTranslations(o, "sqc", o.cu_per_sqc)
              \cup SharedTranslations(o, "scalar", o.cu_per_scalar_cache),
   l2     |-> FirstLevel(o).sqc + FirstLevel(o).scalar + FirstLevel(o).l1]

\* No TLB at all for one compute unit with a TLB for two of them.
TLBsFail(o) == NumTLBs(o) = 0
=============================================================================
