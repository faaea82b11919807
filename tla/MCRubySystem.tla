---------------------------- MODULE MCRubySystem ----------------------------
(***************************************************************************)
(* Command lines for RubySystem.                                           *)
(***************************************************************************)
EXTENDS RubySystem

MCBlockSize == 4
MCModuleMemory == 2

\* configs/example/noc_config/2x4.py.
Bound(routers) == [router_list |-> routers, num_nodes_per_router |-> 0]
NoC2x4 ==
  [num_rows |-> 2, num_cols |-> 4, pairing |-> FALSE,
   bindings |-> [class \in CHIClasses |->
     CASE class \in {"CHI_RNF", "CHI_HNF"}       -> Bound(<<1, 2, 5, 6>>)
       [] class = "CHI_SNF_MainMem"              -> Bound(<<0, 4>>)
       [] class = "CHI_SNF_BootMem"              -> Bound(<<3>>)
       [] class \in {"CHI_RNI_DMA", "CHI_RNI_IO"} -> Bound(<<7>>)]]

Base ==
  [script |-> "se", protocol |-> "MI_example", topology |-> "Crossbar",
   network |-> "simple", fault_model |-> FALSE, smt |-> FALSE, mem_size |-> 4,
   cpu_type |-> "TimingSimpleCPU", fast_forward |-> FALSE, fast_forward_pseudo_op |-> FALSE,
   num_cpus |-> 2, num_l2caches |-> 1, num_l3caches |-> 1, num_clusters |-> 1,
   num_dirs |-> 1, dmas |-> 0, rom |-> FALSE, full_system |-> FALSE, one_tester |-> FALSE,
   chi_config |-> FALSE, pairing |-> FALSE, numa_high_bit |-> FALSE,
   num_compute_units |-> 0, num_sqc |-> 0, num_scalar_cache |-> 0, num_cp |-> 0,
   num_tccs |-> 1, TLB_config |-> "perCU", cu_per_sqc |-> 4, cu_per_scalar_cache |-> 4]

Flat == {"MI_example", "MESI_Two_Level", "MOESI_CMP_token", "MOESI_CMP_directory",
         "MOESI_hammer"}

\* CPU scripts and testers over protocols without clusters, and networks.
FlatCommands ==
  {[Base EXCEPT !.script = s, !.protocol = p, !.num_cpus = n, !.num_l2caches = l, !.topology = t] :
     s \in {"se", "ruby_random_test"}, p \in Flat, n \in {1, 3}, l \in {1, 2, 3},
     t \in {"Crossbar", "Pt2Pt"}}
  \cup {[Base EXCEPT !.script = "fs", !.protocol = p, !.dmas = d, !.rom = TRUE, !.num_dirs = 2] :
          p \in Flat, d \in {0, 2}}
  \cup {[Base EXCEPT !.script = s, !.network = w, !.fault_model = f, !.topology = "CrossbarGarnet",
                     !.protocol = "Garnet_standalone", !.num_dirs = 3, !.dmas = d] :
          s \in {"garnet_synth_traffic", "fs"}, w \in {"garnet", "simple"},
          f \in BOOLEAN, d \in {0, 1}}
  \cup {[Base EXCEPT !.script = "ruby_mem_test", !.num_cpus = n, !.dmas = 2, !.num_dirs = d] :
          n \in {2, 5}, d \in {2, 3}}
  \cup {[Base EXCEPT !.script = "se", !.smt = TRUE, !.num_cpus = n] : n \in {1, 2}}
  \cup {[Base EXCEPT !.script = "ruby_direct_test", !.protocol = p] :
          p \in {"MESI_Two_Level", "MOESI_AMD_Base"}}
  \cup {[Base EXCEPT !.script = s, !.protocol = "MSI", !.num_dirs = d] :
          s \in Tutorials, d \in {1, 2}}

ClusterCommands ==
  {[Base EXCEPT !.script = s, !.protocol = p, !.num_cpus = n, !.num_clusters = c,
                !.num_l2caches = l] :
     s \in {"se", "fs"}, p \in {"MESI_Three_Level", "MESI_Three_Level_HTM"},
     n \in {2, 4}, c \in {1, 2}, l \in {2, 3, 4}}

CHICommands ==
  {[Base EXCEPT !.script = s, !.protocol = "CHI", !.topology = t, !.num_cpus = n,
                !.num_l3caches = l, !.num_dirs = 2, !.dmas = d, !.rom = s = "fs",
                !.chi_config = t = "CustomMesh", !.pairing = p] :
     s \in {"se", "fs"}, t \in {"CustomMesh", "Crossbar", "Pt2Pt", "CrossbarGarnet"},
     n \in {1, 2}, l \in {1, 2, 3}, d \in {1}, p \in BOOLEAN}
  \cup {[Base EXCEPT !.topology = "CustomMesh"],
        [Base EXCEPT !.protocol = "CHI", !.topology = "CustomMesh"],
        [Base EXCEPT !.protocol = "CHI", !.num_dirs = 0]}

TesterCommands ==
  {[Base EXCEPT !.script = "ruby_random_test", !.protocol = "CHI", !.num_cpus = n,
                !.num_l3caches = l] : n \in 1 .. 3, l \in {1, 2}}

GPU == [Base EXCEPT !.protocol = "GPU_VIPER"]

GPUCommands ==
  {[GPU EXCEPT !.script = "apu_se", !.num_cpus = n, !.num_compute_units = u, !.num_cp = c,
               !.cu_per_sqc = q, !.cu_per_scalar_cache = 2, !.TLB_config = t, !.num_tccs = k] :
     n \in {1, 2, 3}, u \in {1, 3, 5}, c \in {0, 2}, q \in {2, 3},
     t \in {"mono", "2CU", "perCU"}, k \in {2, 3}}
  \cup {[GPU EXCEPT !.script = "apu_se", !.num_compute_units = 2, !.TLB_config = "perLane",
                    !.fast_forward = f, !.fast_forward_pseudo_op = g] : f, g \in BOOLEAN}
  \cup {[GPU EXCEPT !.script = "apu_se", !.num_compute_units = u, !.cpu_type = y] :
          u \in {0, 1}, y \in {"TimingSimpleCPU", "AtomicSimpleCPU"}}
  \cup {[GPU EXCEPT !.script = "runfs", !.num_compute_units = 4, !.cu_per_sqc = 2, !.num_cp = c,
                    !.num_dirs = d, !.dmas = 1, !.numa_high_bit = b, !.mem_size = m] :
          c \in {0, 1}, d \in {1, 2, 3}, b \in BOOLEAN, m \in {1, 4}}
  \cup {[GPU EXCEPT !.script = "ruby_gpu_random_test", !.num_compute_units = u, !.dmas = 1,
                    !.cu_per_sqc = 2, !.cu_per_scalar_cache = 2] : u \in 1 .. 4}

MCCommands == FlatCommands \cup ClusterCommands \cup CHICommands \cup TesterCommands \cup GPUCommands
=============================================================================
