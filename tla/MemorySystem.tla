---------------------------- MODULE MemorySystem ----------------------------
(***************************************************************************)
(* A classic memory system, from the script that builds it to a request    *)
(* that crosses it: the ports of SystemPorts and CacheTrees, the memory    *)
(* controllers of MemInterleaving and gem5's crossbars.                    *)
(***************************************************************************)
EXTENDS MemInterleaving, CacheTrees, Platforms

CONSTANTS
  Systems,      \* command lines: records with the script and its options
  RandomTrees,  \* what memtest and memcheck may draw with --random
  BlockSize,    \* of memtest
  Addrs         \* the addresses requests are sent to

VARIABLES
  sys,
  stage,     \* "script", "memory" (in config_mem), "run" or "refused"
  ports,
  packet     \* NoPacket, or the request under way: from, to which address,
             \* where it is, and the nodes it has visited, in order

allvars == <<opts, pc, r, i, mem_ctrls, nvm_intfs, sys, stage, ports, packet>>
memvars == <<opts, pc, r, i, mem_ctrls, nvm_intfs>>

NoPacket == [from |-> Node("none"), addr |-> 0, at |-> Node("none"),
             path |-> <<>>]

\* The system's memory ranges, and the options config_mem sees.
MemRanges(s) ==
  CASE s.script = "memory"  -> s.memory.ranges
    [] s.script = "hmctest" -> VaultRanges
    [] s.script \in {"fs", "drive"}          -> MemRangesOf(s.isa, s.mem)
    [] s.script \in {"riscv_linux", "sst_riscv"} -> MemRangesRiscv(s.mem)
    [] s.script = "sst_arm" -> SstArmMemRanges(s.mem)
    [] s.script \in {"bigLITTLE", "starter_fs", "baremetal"} ->
         MemRangesArm(s.mem)
    [] s.script \in {"memtest", "memcheck"} ->
         <<[start |-> 0, size |-> BlockSize]>>
    [] OTHER -> <<[start |-> 0, size |-> s.mem]>>
MemoryOptions(s) == [s.memory EXCEPT !.ranges = MemRanges(s)]

\* The options of the trees, and what the other assumptions need of a system.
TreeTypes ==
  [script : {"memtest", "memcheck"}, noncoherent : BOOLEAN, random : BOOLEAN,
   caches : Seq(Int), testers : Seq(Int), memory : OptionTypes]

ASSUME SystemAssumption ==
  /\ BlockSize \in Nat
  /\ RandomTrees \subseteq [caches : Seq(Int), testers : Seq(Int)]
  /\ \A s \in Systems :
       /\ MemoryOptions(s) \in Options
       /\ s.script \in {"memtest", "memcheck"} => s \in TreeTypes
       /\ (s.script = "fs" /\ s.isa = "x86") => s.mem \in Nat

SystemInit ==
  /\ sys \in Systems
  /\ opts = MemoryOptions(sys)
  /\ pc = "check"
  /\ r = 1 /\ i = 0
  /\ mem_ctrls = <<>> /\ nvm_intfs = <<>>
  /\ stage = IF sys.script = "memory" THEN "memory" ELSE "script"
  /\ ports = {}
  /\ packet = NoPacket

-----------------------------------------------------------------------------
(* The scripts.                                                            *)

InTree(script) == script \in {"memtest", "memcheck"}

TooManyTesters(script, tree) ==
  script = "memtest" /\ NumTesters(tree.caches, tree.testers) > BlockSize

\* --random: memtest draws until there are fewer testers than bytes.
DrawTree ==
  /\ stage = "script" /\ InTree(sys.script) /\ sys.random
  /\ \E tree \in RandomTrees :
       /\ sys.script = "memtest" =>
            NumTesters(tree.caches, tree.testers) < BlockSize
       /\ sys' = [sys EXCEPT !.random = FALSE, !.caches = tree.caches,
                             !.testers = tree.testers]
  /\ UNCHANGED <<memvars, stage, ports, packet>>

Refuses ==
  CASE sys.script \in {"se", "riscv_linux"} -> CacheRefused(sys)
    [] sys.script = "fs"         -> CacheRefused(sys) \/ MachineRefused(sys)
    [] sys.script = "drive"      -> DualRefused(sys) \/ MachineRefused(sys)
    [] sys.script = "sst_arm"    -> TooBig(sys.mem)
    [] sys.script = "hmctest"    -> BufferMissing(sys)
    [] sys.script = "bigLITTLE"  -> BigLittleRefused(sys)
    [] sys.script \in {"starter_fs", "baremetal"} -> StarterRefused(sys)
    [] sys.script = "starter_se" -> StarterSeRefused(sys)
    [] InTree(sys.script) -> SpecRefused(sys.caches, sys.testers)
                               \/ TooManyTesters(sys.script, sys)
    [] OTHER -> FALSE

Built ==
  CASE sys.script = "se"         -> SystemCallPorts(sys)
    [] sys.script = "fs"         -> FullSystemPorts(sys)
    [] sys.script = "drive"      -> DriveSystemPorts(sys)
    [] sys.script = "riscv_linux" -> RiscvLinuxPorts(sys)
    [] sys.script = "sst_riscv"  -> SstRiscvPorts(sys)
    [] sys.script = "sst_arm"    -> SstArmPorts(sys)
    [] sys.script = "hmctest"    -> HMCPorts(sys)
    [] sys.script = "bigLITTLE"  -> BigLittlePorts(sys)
    [] sys.script = "starter_fs" -> StarterFsPorts(sys)
    [] sys.script = "baremetal"  -> BareMetalPorts(sys)
    [] sys.script = "starter_se" -> StarterSePorts(sys)
    [] sys.script = "splash2"    -> SplashPorts(sys)
    [] sys.script = "two_level"  -> TwoLevelPorts(sys)
    [] InTree(sys.script)        -> TreePorts(sys)

\* Scripts that leave memory to config_mem, unless it is outside gem5: then
\* config_mem only adds a port for it.
External == sys.script \in {"se", "fs", "riscv_linux"} /\ sys.external
CallsConfigMem ==
  /\ sys.script \in {"se", "fs", "riscv_linux", "hmctest", "starter_fs",
                     "baremetal", "starter_se"}
  /\ ~External

BuildSystem ==
  /\ stage = "script"
  /\ InTree(sys.script) => ~sys.random
  /\ \/ /\ Refuses
        /\ stage' = "refused"
        /\ UNCHANGED ports
     \/ /\ ~Refuses
        /\ stage' = IF CallsConfigMem THEN "memory" ELSE "run"
        /\ ports' = Built \cup
             IF External
             THEN {Port(Membus, Node("external_memory"), Spans(opts.ranges))}
             ELSE {}
  /\ UNCHANGED <<memvars, sys, packet>>

ConfigMem ==
  /\ stage = "memory"
  /\ Next
  /\ UNCHANGED <<sys, stage, ports, packet>>

\* config_mem has returned, or stopped: mem_ctrls[i].port = xbar[...].mem_side_ports.
CtrlBus(k) == IF opts.hmc THEN Xbar(mem_ctrls[k].port) ELSE Membus
MemoryConfigured ==
  /\ stage = "memory"
  /\ \/ /\ pc = "done"
        /\ stage' = "run"
        /\ ports' = IF opts.driver = "config_mem"
                    THEN ports \cup {Port(CtrlBus(k), <<"ctrl", k>>, {}) :
                                       k \in 1 .. Len(mem_ctrls)}
                    ELSE ports
     \/ /\ pc = "error"
        /\ stage' = "refused"
        /\ UNCHANGED ports
  /\ pc' = "returned"
  /\ UNCHANGED <<opts, r, i, mem_ctrls, nvm_intfs, sys, packet>>

-----------------------------------------------------------------------------
(* A request.  The crossbars are gem5's: one port must answer an address;  *)
(* without one, the default port takes it.                                 *)

From(n) == {p \in ports : p.from = n}
Requestor(n) == n[1] \in {"inst", "data", "itb_walker", "dtb_walker", "tgen",
                          "tester", "dma", "int_requestor", "system"}

\* A controller answers what its interfaces do, the others their ranges.
Answers(p, a) ==
  IF p.to[1] = "ctrl"
  THEN Contains(mem_ctrls[p.to[2]].dram, a) \/ Contains(mem_ctrls[p.to[2]].nvm, a)
  ELSE AnswersIn(p.ranges, a)

Visit(n, path) == IF \E k \in 1 .. Len(path) : path[k] = n THEN path
                                                           ELSE Append(path, n)

Chosen(n, a) ==
  LET answering == {p \in From(n) : Answers(p, a)}
      default   == {p \in From(n) : p.default}
  IN  IF Cardinality(answering) = 1 THEN (CHOOSE p \in answering : TRUE).to
      ELSE IF answering = {} /\ default # {} THEN (CHOOSE p \in default : TRUE).to
      ELSE Node("lost")

\* Where a requestor may send: the addresses the script means it to reach.
MemoryAddrs == {a \in Addrs : AnswersIn(Spans(opts.ranges), a)}

\* In "mixed" cubes the membus has the first two links.
OnTwoLinks(n) == sys.script = "hmctest" /\ sys.arch = "mixed"
                   /\ n \in {Tgen(0), Tgen(1), Node("system")}

\* The devices: the addresses the platform has for them, and where they are.
Part(node, at) == [node |-> Node(node), at |-> at]
OnArm == {Part("onchip", OnChip), Part("device", OffChip)}
Devices ==
  CASE sys.script \in {"bigLITTLE", "starter_fs", "baremetal", "drive"} -> OnArm
    [] sys.script = "sst_arm" ->
         {Part("onchip", OnChip \ Nvmem), Part("device", OffChip),
          [node |-> SstMemory, at |-> Nvmem]}
    [] sys.script \in {"riscv_linux", "sst_riscv"} ->
         {Part("onchip", HiFiveOnChip), Part("device", HiFiveOffChip)}
    [] sys.script = "fs" ->
         (CASE sys.isa = "x86" ->
                 {Part("device", {<<GB3, M5OpsBase>>, <<PciConfigBase, AddrMax>>})}
            [] sys.isa = "riscv" -> {Part("device", {<<PciConfigBase, AddrMax>>})}
            \* "Let system_port get to nvmem and nothing else."
            [] sys.isa = "arm"   -> IF sys.external THEN {Part("nvmem", Nvmem)}
                                    ELSE OnArm
            [] sys.isa = "sparc" ->
                 {Part("device", SparcBridged), Part("onchip", SparcOnChip)}
                   \cup {Part(image, ImageAt(image)) : image \in DOMAIN Images})
    [] OTHER -> {}
DeviceAddrs == {a \in Addrs : \E d \in Devices : AnswersIn(d.at, a)}

\* The local APIC of each CPU, for interrupts from other CPUs and devices.
ApicOf(a) == (a - InterruptsBase) \div ApicSize
ApicAddrs == IF sys.script \in {"se", "fs"} /\ sys.isa = "x86"
             THEN {InterruptsBase + c * ApicSize : c \in 0 .. sys.ncpus - 1}
             ELSE {}

Targets(n) ==
  CASE n[1] = "dma"           -> MemoryAddrs \cup
                                   (IF sys.script = "fs" THEN ApicAddrs ELSE {})
    [] n[1] = "int_requestor" -> ApicAddrs
    [] OTHER -> {a \in MemoryAddrs \cup DeviceAddrs :
                   OnTwoLinks(n) => a < 2 * LinkSpan}

\* Only on Arm are a device's requests carried to memory outside gem5.
Connected(n) == (n[1] = "dma" /\ External) => sys.isa = "arm"

Send ==
  /\ stage = "run" /\ packet = NoPacket
  /\ \E n \in {p.from : p \in ports} :
       /\ Requestor(n) /\ Connected(n)
       /\ \E a \in Targets(n) :
            packet' = [from |-> n, addr |-> a, at |-> n, path |-> <<n>>]
  /\ UNCHANGED <<memvars, sys, stage, ports>>

Forward ==
  /\ packet # NoPacket /\ From(packet.at) # {}
  /\ LET next == Chosen(packet.at, packet.addr)
     IN  packet' = [packet EXCEPT !.at = next,
                                  !.path = Visit(next, packet.path)]
  /\ UNCHANGED <<memvars, sys, stage, ports>>

SystemNext == \/ DrawTree \/ BuildSystem \/ ConfigMem \/ MemoryConfigured
              \/ Send \/ Forward

\* A script goes on until it has built the system, and a request moves on.
SystemSpec == SystemInit /\ [][SystemNext]_allvars /\ WF_allvars(SystemNext)

-----------------------------------------------------------------------------
(* Requests.                                                               *)

CacheKinds == {"icache", "dcache", "itb_walker_cache", "dtb_walker_cache",
               "l2", "l3", "tree_cache", "tester_cache", "llc"}
CachesVisited(path) == SelectSeq(path, LAMBDA n : n[1] \in CacheKinds)

OneIf(condition, n) == IF condition THEN <<n>> ELSE <<>>

\* The caches of a tester: its own, then those above it in the tree.
TreeCaches(level, index) ==
  LET above[l \in level .. Len(sys.caches)] ==
        IF l = level THEN [index |-> index, caches |-> <<>>]
        ELSE LET below == above[l - 1]
                 f     == sys.caches[Len(sys.caches) - l + 1]
             IN  [index  |-> below.index \div f,
                  caches |-> Append(below.caches,
                               At("tree_cache", l, below.index \div f,
                                  (below.index % f) + 1))]
  IN  above[Len(sys.caches)].caches

ClusterOf(cpu) == IF cpu < sys.clusters[1].n THEN 1 ELSE 2
ArmCaches(n, caches, last_level) ==
  LET model == sys.clusters[ClusterOf(n[2])].model IN
  OneIf(caches /\ HasCaches(model) /\ n[1] \in {"inst", "data"},
        OwnCache(n[1], n[2]))
    \o OneIf(caches /\ HasCaches(model) /\ last_level > 1,
             <<"l2", ClusterOf(n[2])>>)
    \o OneIf(caches /\ last_level > 2 /\ model # "fastmodel", Node("l3"))

\* The caches a request has to go through: those of its requestor, from the
\* first level to the last, and of nobody else.
CachesOf(n) ==
  IF n[1] = "system" THEN OneIf(InTree(sys.script) /\ sys.noncoherent, Node("llc"))
  ELSE IF n[1] \in {"dma", "int_requestor", "tgen"} THEN <<>>
  ELSE CASE sys.script \in {"se", "fs", "riscv_linux"} ->
              IF sys.external THEN <<>>
              ELSE OneIf(sys.caches /\ (n[1] \in {"inst", "data"}
                                          \/ sys.isa \in {"x86", "riscv"}),
                         OwnCache(n[1], n[2]))
                     \o OneIf(sys.l2cache, Node("l2"))
         [] sys.script \in {"splash2", "two_level"} ->
              OneIf(n[1] \in {"inst", "data"}, OwnCache(n[1], n[2]))
                \o <<Node("l2")>>
         [] sys.script = "bigLITTLE" -> ArmCaches(n, sys.caches, sys.last_level)
         [] sys.script \in {"starter_fs", "baremetal", "starter_se"} ->
              ArmCaches(n, WantCaches(sys), 2)
         [] sys.script \in {"drive", "sst_arm", "sst_riscv"} -> <<>>
         [] InTree(sys.script) ->
              OneIf(n[2][1] > 0,
                    At("tester_cache", n[2][1], n[2][2], n[2][3]))
                \o TreeCaches(n[2][1], n[2][2])
                \o OneIf(sys.noncoherent, Node("llc"))

\* Where it has to arrive.
Destinations(n, a) ==
  IF External /\ n[1] \in CpuPorts(sys.isa)
  THEN {<<"external_cache", n[2]>>}
  ELSE IF n = Node("system") /\ sys.script \in {"sst_arm", "sst_riscv"}
       THEN {Node("system_outgoing_bridge")}
  ELSE IF a \in ApicAddrs THEN {<<"apic", ApicOf(a)>>}
  ELSE IF a \in DeviceAddrs
       THEN {d.node : d \in {e \in Devices : AnswersIn(e.at, a)}}
  ELSE {<<"ctrl", k>> : k \in 1 .. Len(mem_ctrls)}
         \cup {<<"physmem", k>> : k \in 1 .. Len(MemRegions)}
         \cup {Node("tree_memory"), Node("external_memory"), SstMemory}
         \cup IF n[1] = "dma" THEN {Node("external_io")} ELSE {}

Served ==
  /\ packet.at \in Destinations(packet.from, packet.addr)
  /\ CachesVisited(packet.path) = CachesOf(packet.from)

\* Every request to memory, to a device or to an interrupt controller arrives
\* there: no crossbar has two answers or none for it, no bridges send it in
\* circles, and it passes the caches of its requestor, level by level, and no
\* other cache.  (SystemPorts and CacheTrees; config_mem's controllers.)
EveryRequestServed == packet # NoPacket ~> Served

\* numtesters, which memtest compares with the bytes of a block "because of
\* false sharing", counts the testers that make_cache_level creates.
TestersCounted ==
  (stage = "run" /\ packet = NoPacket /\ InTree(sys.script)) =>
    /\ Cardinality(Testers(ports)) = NumTesters(sys.caches, sys.testers)
    /\ sys.script = "memtest" => Cardinality(Testers(ports)) <= BlockSize

\* The map of memory an x86 guest gets: what it may use is memory, all of it
\* but the first megabyte's end; entries do not overlap; and below 4 GB the
\* addresses in no entry are those the memory bus sends to devices.
GuestMapIsMemory ==
  (stage = "run" /\ packet = NoPacket /\ sys.script = "fs" /\ sys.isa = "x86") =>
    LET table == E820Table(sys.mem)
        has(e, a) == e.addr <= a /\ a < e.end
        memory == {a \in 0 .. AddrMax : AnswersIn(Spans(opts.ranges), a)}
    IN  /\ {a \in 0 .. AddrMax : \E e \in table : e.type = 1 /\ has(e, a)}
             = memory \ (KB639 .. MB1 - 1)
        /\ \A a \in 0 .. AddrMax : Cardinality({e \in table : has(e, a)}) <= 1
        /\ \A a \in 0 .. GB4 - 1 :
             (\E e \in table : has(e, a))
               # (\E p \in From(Membus) : p.to = Node("bridge") /\ Answers(p, a))
=============================================================================
