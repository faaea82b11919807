----------------------------- MODULE RubySystem -----------------------------
(***************************************************************************)
(* A script builds a Ruby memory system: configs/ruby/Ruby.py, its         *)
(* protocols and topologies, configs/network/Network.py, the guest's file  *)
(* system of configs/common/FileSystemConfig.py, and the scripts that use  *)
(* them.  The stages of a script run one after the other; one that fails   *)
(* ends it.                                                                *)
(*                                                                         *)
(* The options are those of the protocols' modules, and script, protocol,  *)
(* topology, network, fault_model, smt, cpu_type, fast_forward,            *)
(* fast_forward_pseudo_op, pairing.                                        *)
(***************************************************************************)
EXTENDS CHINodes, ViperSystem

CONSTANTS
  Commands,     \* the options a script is started with
  BlockSize,    \* ruby_mem_test.py: testers that do not share a block
  ModuleMemory, \* gpufs: the memory that amdgpu needs
  MeshParams    \* the mesh of a CHI configuration file

VARIABLES
  opts,     \* the options
  todo,     \* the stages left
  failed,
  cntrls,   \* the controllers
  ports,    \* ruby._cpu_ports
  net,      \* the network
  guest,    \* the guest's files: the CPUs online, the caches of each CPU
  tlbs,     \* the GPU's TLBs
  links     \* connections of CPUs and compute units to sequencers

vars == <<opts, todo, failed, cntrls, ports, net, guest, tlbs, links>>

NoTLBs == [width |-> [sqc |-> 0, scalar |-> 0, l1 |-> 0], ports |-> {}, l2 |-> 0]

Tutorials == {"simple_ruby", "ruby_test"}
GpuScripts == {"apu_se", "runfs", "ruby_gpu_random_test"}
OneTester == {"ruby_random_test", "ruby_direct_test"}
Scripts ==
  {"se", "fs", "ruby_mem_test", "garnet_synth_traffic"} \cup Tutorials \cup GpuScripts \cup OneTester

\* The protocol is the one gem5 is built for; the tutorials' own uses MSI.
Protocols ==
  {"MESI_Two_Level", "MESI_Three_Level", "MESI_Three_Level_HTM", "MI_example",
   "MOESI_CMP_token", "MOESI_CMP_directory", "MOESI_hammer", "Garnet_standalone",
   "CHI", "GPU_VIPER", "MOESI_AMD_Base", "MSI"}

CommandOptions ==
  [script : Scripts, protocol : Protocols,
   topology : {"Crossbar", "CrossbarGarnet", "Pt2Pt", "CustomMesh"},
   network : {"simple", "garnet"}, fault_model : BOOLEAN, smt : BOOLEAN, mem_size : Nat,
   cpu_type : STRING, fast_forward : BOOLEAN, fast_forward_pseudo_op : BOOLEAN,
   num_cpus : Nat, num_l2caches : Nat, num_l3caches : Nat, num_clusters : Nat \ {0},
   num_dirs : Nat, dmas : Nat, rom : BOOLEAN, full_system : BOOLEAN, one_tester : BOOLEAN,
   chi_config : BOOLEAN, pairing : BOOLEAN, numa_high_bit : BOOLEAN,
   num_compute_units : Nat, num_sqc : Nat, num_scalar_cache : Nat, num_cp : Nat,
   num_tccs : Nat, TLB_config : {"perLane", "mono", "perCU", "2CU"},
   cu_per_sqc : Nat \ {0}, cu_per_scalar_cache : Nat \ {0}]

\* The numbers that divide are not 0, which would end the script; the scripts
\* of the GPU and of the tutorials read what other protocols do not have.
ASSUME CommandsAssumption ==
  /\ Commands \subseteq CommandOptions
  /\ \A o \in Commands :
       /\ o.script \in Tutorials <=> o.protocol = "MSI"
       /\ o.script \in GpuScripts <=> o.protocol = "GPU_VIPER"
  /\ BlockSize \in Nat /\ ModuleMemory \in Nat

\* Every class of nodes is bound to routers that the mesh has.
ASSUME MeshAssumption ==
  /\ DOMAIN MeshParams = {"num_rows", "num_cols", "pairing", "bindings"}
  /\ MeshParams.num_rows \in Nat \ {0} /\ MeshParams.num_cols \in Nat \ {0}
  /\ \A class \in CHIClasses :
       LET where == MeshParams.bindings[class]
       IN  /\ where.num_nodes_per_router \in Nat
           /\ where.router_list \in Seq(0 .. (MeshParams.num_rows * MeshParams.num_cols) - 1)
           /\ where.router_list # <<>>

-----------------------------------------------------------------------------
(* Scripts.                                                                *)

\* The tutorials make their network themselves, and the guest's files, if
\* any, at the end.
Stages(script) ==
  LET create == <<"filesystem", "protocol", "topology", "network", "connect">>
  IN  CASE script = "ruby_test"   -> Tail(create)
        [] script = "simple_ruby" -> Append(Tail(create), "filesystem")
        [] script = "apu_se"      -> <<"tlbs">> \o create
        [] OTHER                  -> create

CeilDiv(a, b) == (a + b - 1) \div b

\* What a GPU script makes of its options: an instruction cache and a scalar
\* cache for so many compute units, the DMA ports of the GPU's processors.
GpuOptions(o) ==
  CASE o.script = "ruby_gpu_random_test" ->
         [o EXCEPT !.num_cpus = 0, !.num_cp = 0,
                   !.num_sqc = o.num_compute_units \div o.cu_per_sqc,
                   !.num_scalar_cache = o.num_compute_units \div o.cu_per_scalar_cache]
    [] OTHER ->
         [o EXCEPT !.num_sqc = CeilDiv(o.num_compute_units, o.cu_per_sqc),
                   !.num_scalar_cache = CeilDiv(o.num_compute_units, o.cu_per_scalar_cache),
                   !.dmas = IF o.script = "apu_se" THEN 2 ELSE @ + 3]

Options(o) ==
  [IF o.script \in GpuScripts THEN GpuOptions(o) ELSE o EXCEPT
     !.one_tester = o.script \in OneTester,
     !.full_system = o.script \in {"fs", "runfs"}]

ScriptRefuses(o) ==
  CASE o.script = "se"            -> o.smt /\ o.num_cpus > 1
    [] o.script = "ruby_mem_test" -> o.num_cpus > BlockSize
    [] o.script = "runfs"         -> o.mem_size < ModuleMemory
    [] o.script = "apu_se"        -> \/ o.cpu_type \notin {"TimingSimpleCPU", "DerivO3CPU"}
                                     \/ o.num_compute_units = 0
                                     \/ o.fast_forward /\ o.fast_forward_pseudo_op
    [] o.script = "ruby_gpu_random_test" -> o.num_compute_units % o.cu_per_sqc # 0
    [] OTHER -> FALSE

\* The CPUs found in the system when the guest's files are written: those to
\* switch to count as well, testers and the GPU do not.
CpusFound(o) ==
  CASE o.script = "apu_se" ->
         o.num_cpus + o.num_cp
         + (IF o.fast_forward \/ o.fast_forward_pseudo_op THEN o.num_cpus ELSE 0)
    [] o.script \in {"se", "fs", "simple_ruby", "runfs"} -> o.num_cpus
    [] OTHER -> 0

-----------------------------------------------------------------------------
(* Protocols and networks.                                                 *)

\* MSI's systems are those of the tutorials, one for each of their scripts.
create_system(o) ==
  CASE o.protocol = "MESI_Two_Level"       -> MESI_Two_Level(o)
    [] o.protocol = "MESI_Three_Level"     -> MESI_Three_Level(o)
    [] o.protocol = "MESI_Three_Level_HTM" -> MESI_Three_Level_HTM(o)
    [] o.protocol = "MI_example"           -> MI_example(o)
    [] o.protocol = "MOESI_CMP_token"      -> MOESI_CMP_token(o)
    [] o.protocol = "MOESI_CMP_directory"  -> MOESI_CMP_directory(o)
    [] o.protocol = "MOESI_hammer"         -> MOESI_hammer(o)
    [] o.protocol = "Garnet_standalone"    -> Garnet_standalone(o)
    [] o.protocol = "CHI"                  -> CHI(o)
    [] o.protocol = "GPU_VIPER"            -> GPU_VIPER(o)
    [] o.protocol = "MOESI_AMD_Base"       -> Refuse
    [] o.protocol = "MSI"                  ->
         IF o.script = "simple_ruby" THEN MyCacheSystem(o) ELSE TestCacheSystem(o)

\* register_cache() of each cache: a directory of its own below each of its
\* CPUs, whose numbers are left out.
register_cache(caches, made) == caches \cup made

create_topology(o, made) ==
  IF o.script \in Tutorials THEN MyNetwork(made)
  ELSE IF o.protocol = "GPU_VIPER" THEN Cluster(ViperClusters(made))
  ELSE CASE o.topology = "Crossbar"       -> Crossbar(made)
         [] o.topology = "CrossbarGarnet" -> CrossbarGarnet(made)
         [] o.topology = "Pt2Pt"          -> Pt2Pt(made)
         [] o.topology = "CustomMesh"     -> CustomMesh(CHI_Nodes(o), MeshParams)

\* The mesh is for CHI alone.
TopologyFails(o) ==
  /\ o.script \notin Tutorials /\ o.protocol # "GPU_VIPER"
  /\ o.topology = "CustomMesh"
  /\ \/ o.protocol # "CHI"
     \/ CustomMeshFails(CHI_Nodes(o), [MeshParams EXCEPT !.pairing = o.pairing])

-----------------------------------------------------------------------------
(* Connections.                                                            *)

Link(user, n, side, seq) == [user |-> user, n |-> n, side |-> side, seq |-> seq]

\* connectCpuPorts() of one port for each CPU.
CpuLinks(o, p) ==
  UNION {{Link("cpu", i, "inst", p[i + 1].inst), Link("cpu", i, "data", p[i + 1].data)} :
           i \in 0 .. o.num_cpus - 1}

\* Only the data sequencer's port, which is the port's own for those that are
\* not connected as a CPU.
OwnPort(o, p) == {Link("tester", i, "data", p[i + 1].data) : i \in 0 .. o.num_cpus - 1}
AllPorts(p)   == {Link("tester", 0, "data", p[k].data) : k \in DOMAIN p}

\* The coalescers among the ports, whose tokens the compute units take in order.
Coalescers(p) == {k \in DOMAIN p : p[k].kind = "vector"}
TokenLinks(p) ==
  {Link("cu", Cardinality({j \in Coalescers(p) : j < k}), "token", p[k].data) :
     k \in Coalescers(p)}

\* Faulty variant: the ports of the GPU are taken to come first.
GpuPortsFirst(o, p) == 0

\* The ports of the GPU are the last ones: a core pair has two ports even for
\* one CPU.
GpuPortIdx(o, p) ==
  Len(p) - o.num_compute_units - o.num_sqc - o.num_scalar_cache - (2 * o.num_cp)

\* The index advances at every unit that begins a new group of so many units,
\* and once after the last.
Begun(cu, per) == Cardinality({j \in 1 .. cu : j % per = 0})
SqcPortIdx(o, p) == GpuPortIdx(o, p) + o.num_compute_units
ScalarPortIdx(o, p) ==
  SqcPortIdx(o, p) + Begun(o.num_compute_units - 1, o.cu_per_sqc) + 1
CpPortIdx(o, p) ==
  ScalarPortIdx(o, p) + Begun(o.num_compute_units - 1, o.cu_per_scalar_cache) + 1

\* A compute unit has a vector port, and shares the others.
GpuLinks(o, p) ==
  LET units == 0 .. o.num_compute_units - 1
      At0(idx) == p[idx + 1].data
  IN  TokenLinks(p)
      \cup {Link("cu", cu, "vector", At0(GpuPortIdx(o, p) + cu)) : cu \in units}
      \cup {Link("cu", cu, "sqc", At0(SqcPortIdx(o, p) + Begun(cu, o.cu_per_sqc))) :
              cu \in units}
      \cup {Link("cu", cu, "scalar",
                  At0(ScalarPortIdx(o, p) + Begun(cu, o.cu_per_scalar_cache))) : cu \in units}

\* The ports of a command processor: data first.
CommandLinks(o, p) ==
  UNION {{Link("cp", i, "data", p[CpPortIdx(o, p) + (2 * i) + 1].data),
          Link("cp", i, "inst", p[CpPortIdx(o, p) + (2 * i) + 2].data)} : i \in 0 .. o.num_cp - 1}

\* The GPU's random tester takes the ports in their order.
GpuTesterLinks(o, p) ==
  LET Side(k) == IF k <= o.num_compute_units THEN "vector"
                 ELSE IF k <= o.num_compute_units + o.num_sqc THEN "sqc" ELSE "scalar"
  IN  {Link("tester", 0, Side(k), p[k].data) : k \in DOMAIN p}

Connections(o, p) ==
  CASE o.script \in {"se", "fs", "simple_ruby"}             -> CpuLinks(o, p)
    [] o.script \in {"ruby_mem_test", "garnet_synth_traffic"} -> OwnPort(o, p)
    [] o.script \in OneTester \cup {"ruby_test"}            -> AllPorts(p)
    [] o.script = "apu_se" -> CpuLinks(o, p) \cup GpuLinks(o, p) \cup CommandLinks(o, p)
    [] o.script = "runfs"  -> CpuLinks(o, p) \cup GpuLinks(o, p)
    [] o.script = "ruby_gpu_random_test" -> GpuTesterLinks(o, p)

\* fs.py connects the I/O port that a protocol leaves for it.
ConnectFails(o) == o.script = "fs" /\ o.protocol = "Garnet_standalone"

-----------------------------------------------------------------------------
Init ==
  /\ opts \in Commands
  /\ todo = <<"script">>
  /\ failed = FALSE
  /\ cntrls = <<>>
  /\ ports = <<>>
  /\ net = NoNetwork
  /\ guest = [online |-> 0, caches |-> {}]
  /\ tlbs = NoTLBs
  /\ links = {}

At(stage) == ~failed /\ todo # <<>> /\ Head(todo) = stage
Done == todo' = Tail(todo) /\ UNCHANGED failed
Fail == failed' = TRUE /\ UNCHANGED todo

Script ==
  /\ At("script")
  /\ IF ScriptRefuses(opts)
       THEN Fail /\ UNCHANGED opts
       ELSE /\ opts' = Options(opts)
            /\ todo' = Stages(opts.script)
            /\ UNCHANGED failed
  /\ UNCHANGED <<cntrls, ports, net, guest, tlbs, links>>

TLBs ==
  /\ At("tlbs")
  /\ IF TLBsFail(opts)
       THEN Fail /\ UNCHANGED tlbs
       ELSE Done /\ tlbs' = config_tlb_hierarchy(opts)
  /\ UNCHANGED <<opts, cntrls, ports, net, guest, links>>

\* The directory is made anew: what it said before is gone.
ConfigFilesystem ==
  /\ At("filesystem")
  /\ guest' = [online |-> CpusFound(opts), caches |-> {}]
  /\ Done
  /\ UNCHANGED <<opts, cntrls, ports, net, tlbs, links>>

CreateSystem ==
  /\ At("protocol")
  /\ \E made \in {create_system(opts)} :
       /\ IF made.refuses THEN Fail ELSE Done
       /\ cntrls' = made.cntrls
       /\ ports' = made.ports
       /\ guest' = [guest EXCEPT !.caches = register_cache(@, made.caches)]
  /\ UNCHANGED <<opts, net, tlbs, links>>

MakeTopology ==
  /\ At("topology")
  /\ IF TopologyFails(opts)
       THEN Fail /\ UNCHANGED net
       ELSE Done /\ net' = create_topology(opts, cntrls)
  /\ UNCHANGED <<opts, cntrls, ports, guest, tlbs, links>>

\* The fault model is garnet's alone.
InitNetwork ==
  /\ At("network")
  /\ IF opts.fault_model /\ opts.network # "garnet" THEN Fail ELSE Done
  /\ UNCHANGED <<opts, cntrls, ports, net, guest, tlbs, links>>

Connect ==
  /\ At("connect")
  /\ IF ConnectFails(opts)
       THEN Fail /\ UNCHANGED links
       ELSE Done /\ links' = Connections(opts, ports)
  /\ UNCHANGED <<opts, cntrls, ports, net, guest, tlbs>>

\* The controllers whose message buffers nobody made.
WithoutBuffers(o) ==
  IF o.protocol = "GPU_VIPER" THEN Unbuffered(o, WithScalars(o)) ELSE {}

\* m5.instantiate(), the end of every script, wants all buffers of all
\* controllers.
Instantiate ==
  /\ ~failed /\ todo = <<>>
  /\ WithoutBuffers(opts) # {}
  /\ Fail
  /\ UNCHANGED <<opts, cntrls, ports, net, guest, tlbs, links>>

Next ==
  \/ Script \/ TLBs \/ ConfigFilesystem \/ CreateSystem
  \/ MakeTopology \/ InitNetwork \/ Connect \/ Instantiate

Spec == Init /\ [][Next]_vars

-----------------------------------------------------------------------------
(* Properties.                                                             *)

Finished(stage) == ~failed /\ Range(todo) \cap {"script", stage} = {}

Name(c) == <<c.type, c.version>>

\* The network as RubyNetwork sees it: a controller is its type and version,
\* as the messages name it.
Stage ==
  IF Range(todo) \cap {"script", "network"} = {} THEN "built"
  ELSE IF failed THEN "failed" ELSE "planned"

Network == INSTANCE RubyNetwork WITH
  stage     <- Stage,
  nodes     <- Names(Range(cntrls)),
  routers   <- 0 .. net.routers - 1,
  ext_links <- {[node |-> Name(l.node), router |-> l.router] : l \in net.ext},
  int_links <- net.int

\* Whatever the script, the protocol and the topology, the network that is
\* built has every controller on one router and joins all routers, and nothing
\* added to it is taken away: create_system, create_topology and init_network
\* of Ruby.py and Network.py together.
BuildsNetwork == Network!Spec

\* Machines are addressed by type and version: the controllers of a type have
\* the versions from 0 on, one each, whichever part of the protocol's script
\* made them (boot memory, I/O, scalar caches, command processors).
VersionsNumberNodes ==
  \A c \in Range(cntrls) :
    LET same == {k \in DOMAIN cntrls : cntrls[k].type = c.type}
    IN  {cntrls[k].version : k \in same} = 0 .. Cardinality(same) - 1

Servers(seq) == {c \in Range(cntrls) : seq \in Range(c.seqs)}
LinksOf(user, n) == {l \in links : l.user = user /\ l.n = n}
ServersOf(user, n, side) ==
  UNION {Servers(l.seq) : l \in {m \in LinksOf(user, n) : m.side = side}}

\* The L0s of the three level protocols take the clock of the CPU with their
\* cluster's number.
OwnClock(l, c) ==
  l.user = "cpu" /\ c.type # "L0Cache" => c.clock \in {None, l.n}

\* A CPU's requests go to a controller of its own, which runs on its clock.
CpusApart ==
  \A l \in links : l.user \in {"cpu", "cp"} =>
    /\ \A c \in Servers(l.seq) : OwnClock(l, c)
    /\ \A m \in links : m.seq = l.seq => m.user = l.user /\ m.n = l.n

\* A unit of the GPU has a TCP of its own, which also gives it its tokens; it
\* shares the instruction cache and the scalar cache with its group only.
UnitsApart ==
  \A i, j \in {l.n : l \in {m \in links : m.user = "cu"}} :
    /\ ServersOf("cu", i, "vector") = ServersOf("cu", i, "token")
    /\ i # j => ServersOf("cu", i, "vector") # ServersOf("cu", j, "vector")
    /\ ServersOf("cu", i, "sqc") = ServersOf("cu", j, "sqc")
         <=> i \div opts.cu_per_sqc = j \div opts.cu_per_sqc
    /\ ServersOf("cu", i, "scalar") = ServersOf("cu", j, "scalar")
         <=> i \div opts.cu_per_scalar_cache = j \div opts.cu_per_scalar_cache
    /\ ServersOf("cu", i, "sqc") # ServersOf("cu", j, "scalar")

SideType(side) == IF side \in {"vector", "token"} THEN "TCP" ELSE "SQC"

\* The port of a command processor's instructions, which leads to an SQC
\* without buffers.
CommandInstructions(l) == l.user = "cp" /\ l.side = "inst"

\* The scripts find the ports of CPUs, GPU and command processors by their
\* place among ruby._cpu_ports, which the protocols fill in an order of their
\* own: each user gets ports of the right kind, and nobody else's; behind each
\* is a controller that the network reaches, except where a command processor
\* fetches its instructions: such a system fails to be instantiated.
PortsServeTheirUsers ==
  /\ \A l \in links : Cardinality(Servers(l.seq)) = 1
  /\ \A l \in links :
       ~CommandInstructions(l) => Servers(l.seq) \cap WithoutBuffers(opts) = {}
  /\ \A l \in links : l.side \in {"vector", "token", "sqc", "scalar"} =>
       \A c \in Servers(l.seq) : c.type = SideType(l.side)
  /\ CpusApart
  /\ UnitsApart

\* The version of the bank that an address selects for a controller is made of
\* its cluster and of l2_select bits of the address.  When the banks of a
\* cluster fill the bits, those are its own banks, and all of them: MESI's L2s,
\* of one cluster or several, and VIPER's TCCs.
BanksOfOwnCluster ==
  \A c \in Range(cntrls) : c.l2_select # None =>
    LET banks    == {b \in Range(cntrls) : b.type \in {"L2Cache", "TCC"} /\ b.cluster = c.cluster}
        selected == {(c.cluster * 2^c.l2_select) + v : v \in 0 .. (2^c.l2_select) - 1}
    IN  IsPowerOfTwo(Cardinality(banks)) => selected = {b.version : b \in banks}

Cpus == 0 .. opts.num_cpus - 1

\* The CPUs that share a controller or the L2s of a cluster with one.
Companions(cpu) ==
  {d \in Cpus : \E c \in Servers(ports[cpu + 1].data), b \in Servers(ports[d + 1].data) :
     b = c \/ (c.type = "L0Cache" /\ b.cluster = c.cluster)}

TellsCaches ==
  opts.protocol \in {"MOESI_hammer", "MESI_Three_Level", "MESI_Three_Level_HTM", "GPU_VIPER"}

\* What a program in syscall emulation reads of a CPU's caches in the guest's
\* files says which CPUs share them in the memory system that was built: config_
\* filesystem(), which starts the files anew, runs before the protocol adds to
\* them.  (A core pair's second CPU is there even if the system has none.)
FilesTellCaches ==
  Finished("connect") /\ ~opts.full_system /\ TellsCaches =>
    \A cpu \in Cpus :
      LET files == {e \in guest.caches : cpu \in e.cpus}
          told  == {e.cpus \cap Cpus : e \in files}
          all   == {e.cpus \cap Cpus : e \in {f \in files : f.level = 2}}
      IN  /\ Companions(cpu) \in told
          /\ told \subseteq {{cpu}, Companions(cpu)} \cup all
          /\ opts.protocol # "GPU_VIPER" => all \subseteq {{cpu}, Companions(cpu)}

\* Controllers that requests reach.
Below1(S) == S \cup UNION {c.downstream : c \in {d \in Range(cntrls) : Name(d) \in S}}

\* In a CHI system every sequencer's requests, from CPUs, DMA and I/O, can
\* reach every memory, the boot memory too, and no two CPUs share a controller
\* before the home nodes.
ReachesMemory ==
  opts.protocol = "CHI" /\ ~opts.one_tester =>
    \A c \in Range(cntrls) : c.seqs # <<>> =>
      /\ Names({d \in Range(cntrls) : d.type = "Memory"})
           \subseteq Below1(Below1(Below1({Name(c)})))
      /\ \A d \in Range(cntrls) : d.seqs # <<>> /\ c.clock # d.clock =>
           {x \in c.downstream \cap d.downstream : x[2] < 3 * opts.num_cpus} = {}

\* "Creates on RNF per cpu with priv l2 caches": the L1s of every CPU send to an
\* L2.
EveryCpuHasL2 ==
  opts.protocol = "CHI" /\ Finished("protocol") =>
    \A c \in Range(cntrls) : c.seqs # <<>> => c.downstream # {}

\* The TLBs' ports are computed apart from the numbers of TLBs: every unit's
\* translations have coalescers that exist, no two have the same port, and no
\* TLB is left without a unit.
TranslationsHaveAPort ==
  /\ \A t \in tlbs.ports :
       /\ t.coalescer < tlbs.width[t.kind]
       /\ \A u \in tlbs.ports :
            <<u.kind, u.coalescer, u.port>> = <<t.kind, t.coalescer, t.port>> => u = t
  /\ \A kind \in DOMAIN tlbs.width : \A k \in 0 .. tlbs.width[kind] - 1 :
       \E t \in tlbs.ports : t.kind = kind /\ t.coalescer = k
=============================================================================
