--------------------------- MODULE MCMemorySystem ---------------------------
(* Memories of 64 bytes behind blocks of 4 and 8, and the systems around    *)
(* them: two CPUs, two clusters, trees of two levels.                       *)
EXTENDS MemorySystem, TLC

Simple == [class |-> "simple", mapping |-> "RoRaBaCoCh", buffer |-> 0]
Dram(m) == [class |-> "dram", mapping |-> m, buffer |-> 4]
Nvm(m)  == [class |-> "nvm", mapping |-> m, buffer |-> 3]
R(s, n) == [start |-> s, size |-> n]

Defaults ==
  [driver |-> "config_mem", num |-> 1, mem_type |-> Dram("RoRaBaCoCh"),
   nvm_type |-> NoType, hmc |-> FALSE, hybrid_channel |-> FALSE,
   elastic_trace |-> FALSE, mem_channels_intlv |-> 0, cacheline_size |-> 8,
   xor_low_bit |-> 0, numa_high_bit |-> 0, ranges |-> <<R(0, 64)>>]

With(S, T) == {s @@ t : s \in S, t \in T}

\* One range, two that meet, one that is not aligned, one that is too small
\* for all channels to have a share; three for DRAM and NVM in turn.
Memories == [ranges : {<<R(0, 64)>>, <<R(0, 32), R(64, 64)>>, <<R(20, 30)>>,
                       <<R(16, 16)>>, <<R(0, 32), R(32, 32), R(64, 32)>>}]

Hashing == [xor_low_bit : {0, 2, 5}]

Channels == With([num : {1, 2, 4}, mem_channels_intlv : {4, 20}],
                 With(Hashing, Memories))

Types == [mem_type : {Simple, Dram("RoRaBaChCo"), Dram("RoRaBaCoCh")}]
    \cup [mem_type : {NoType, Dram("RoRaBaChCo")},
          nvm_type : {Nvm("RoRaBaChCo")}, hybrid_channel : BOOLEAN]

Directories == With([driver : {"ruby"}, num : {1, 2, 4},
                     numa_high_bit : {0, 2, 4},
                     mem_type : {Simple, Dram("RoRaBaChCo")}],
                    With(Hashing, Memories))

HomeNodes == With([driver : {"chi"}, num : {1, 2, 4},
                   cacheline_size : {4, 8}], Memories)

Vault16 == [ranges : {[v \in 1 .. Vaults |-> R(4 * (v - 1), 4)]},
            hmc : {TRUE}, num : {1, 2}, cacheline_size : {4}]

\* Refused.
Odd == [num : {3}, driver : {"config_mem", "ruby", "chi"}]
  \cup [mem_type : {NoType}]
  \cup [elastic_trace : {TRUE}, mem_type : {Simple, Dram("RoRaBaChCo")}]

\* Memory on its own, as any system may use it.
Alone == {[script |-> "memory", memory |-> o @@ Defaults] :
  o \in With(Types, Channels) \cup Directories \cup HomeNodes
         \cup Vault16 \cup Odd}

-----------------------------------------------------------------------------
TwoChannels == [Defaults EXCEPT !.num = 2]
Elastic     == [TwoChannels EXCEPT !.mem_type = Simple, !.elastic_trace = TRUE]

Caches == [caches : BOOLEAN, l2cache : BOOLEAN, external : BOOLEAN,
           memchecker : {FALSE}]
     \cup [caches : {TRUE}, l2cache : BOOLEAN, external : {FALSE},
           memchecker : {TRUE}]
SystemCall == With([script : {"se"}, isa : {"x86", "arm", "power"},
                    ncpus : {2}, mem : {16}],
                   With(Caches, [elastic : {FALSE}, memory : {TwoChannels}]
                           \cup [elastic : {TRUE}, memory : {Elastic}]))
FullSystem == With([script : {"fs"}, ncpus : {2}, elastic : {FALSE},
                    memory : {TwoChannels}],
                   With([isa : {"x86"}, mem : {3, 20, 48, 60}]
                          \cup [isa : {"riscv", "sparc"}, mem : {16}]
                          \cup [isa : {"arm"}, mem : {20, 40, 100}], Caches))
PlatformSystems == With([memory : {TwoChannels}, external : {FALSE}],
                  [script : {"drive"}, isa : {"arm"}, mem : {20, 40, 100}]
                    \cup [script : {"drive"}, isa : {"x86", "sparc"}, mem : {16}]
                    \cup [script : {"sst_arm"}, mem : {20, 40, 100}]
                    \cup [script : {"sst_riscv"}, mem : {20}])
               \cup With([script : {"riscv_linux"}, isa : {"riscv"}, ncpus : {2},
                          mem : {16}, elastic : {FALSE}, memory : {TwoChannels}],
                         Caches)

Cubes == With([script : {"hmctest"}, global_monitor : BOOLEAN,
               link_monitor : BOOLEAN,
               memory : {[Defaults EXCEPT !.hmc = TRUE, !.cacheline_size = 4]}],
              [arch : {"same", "distributed", "mixed"}, chunk : {4}]
                \cup [arch : {"same"}, chunk : {2}])

Cluster(n, model) == [n |-> n, model |-> model]
BigLittle ==
  With([script : {"bigLITTLE"}, memory : {Defaults}, caches : BOOLEAN],
       [clusters : {<<>>, <<Cluster(5, "fastmodel")>>, <<Cluster(2, "timing")>>},
        mem : {20, 40, 100}, last_level : {2}]
         \cup [clusters : {<<Cluster(1, m), Cluster(2, m)>> : m \in CpuModels},
               mem : {40}, last_level : 0 .. 3])
Starters ==
  With([script : {"starter_fs", "baremetal"}, memory : {TwoChannels},
        clusters : {<<Cluster(2, "atomic")>>, <<Cluster(2, "timing")>>}],
       [script_missing : BOOLEAN, mem : {20, 40, 100}])
    \cup
  [script : {"starter_se"}, memory : {TwoChannels}, mem : {16},
   clusters : {<<Cluster(2, "atomic")>>, <<Cluster(2, "timing")>>},
   commands : {1, 2}]

Small == With([memory : {Defaults}, mem : {16}],
              [script : {"splash2"}, isa : {"x86", "power"}, ncpus : {2}]
                \cup [script : {"two_level"}, isa : {"x86", "arm"}])

Trees == With([script : {"memtest"}, noncoherent : BOOLEAN,
               memory : {Defaults}]
                \cup [script : {"memcheck"}, noncoherent : {FALSE},
                      memory : {Defaults}],
              [random : {TRUE}, caches : {<<>>}, testers : {<<>>}]
                \cup [random : {FALSE}, caches : {<<2, 1>>},
                      testers : {<<1, 0, 2>>, <<1, 2>>, <<0, 1, 0>>,
                                 <<1, -1, 1>>, <<2, 2, 3>>}]
                \cup [random : {FALSE}, caches : {<<>>}, testers : {<<1>>}]
                \cup [random : {FALSE}, caches : {<<0>>}, testers : {<<1, 1>>}]
                \cup [random : {FALSE}, caches : {<<3, 2>>},
                      testers : {<<2, 0, 1>>}])

MCRandomTrees ==
  [caches : {<<c>> : c \in 1 .. 3},
   testers : {<<t, u>> : t, u \in 1 .. 3}]
    \cup [caches : {<<c, d>> : c, d \in 1 .. 2},
          testers : {<<t, u, v>> : t, u, v \in 1 .. 2}]

\* The ends of every range, and each vault of a cube.
MCAddrs == {a \in 0 .. AddrMax : a % 32 \in {0, 14, 16}} \cup {4 * v : v \in 0 .. 15}

MCSystems == Alone \cup SystemCall \cup FullSystem \cup PlatformSystems
               \cup Cubes \cup BigLittle \cup Starters \cup Small \cup Trees
MCOptions == {MemoryOptions(s) : s \in MCSystems}
=============================================================================
