---------------------------- MODULE SystemPorts ----------------------------
(***************************************************************************)
(* What the scripts connect for the classic memory system: the crossbars,  *)
(* bridges and caches of configs/common/FSConfig.py, CacheConfig.py and    *)
(* HMC.py, of example/hmctest.py, example/arm/devices.py and of the small  *)
(* scripts.  A builder is the set of the ports it connects.                *)
(***************************************************************************)
EXTENDS Integers, Sequences, FiniteSets

\* A node is <<kind, number>>; a port carries requests from one to another,
\* for the addresses the other answers: a set of <<first, end>>, the end not
\* included ("[0xC0000000, 0xFFFF0000)").  A crossbar without an answer takes
\* its default port.
AddrMax   == 255
AllMemory == {<<0, AddrMax + 1>>}
Port(from, to, ranges) ==
  [from |-> from, to |-> to, ranges |-> ranges, default |-> FALSE]
Default(from, to) ==
  [from |-> from, to |-> to, ranges |-> {}, default |-> TRUE]
Link(from, to) == Port(from, to, AllMemory)

Node(kind) == <<kind, 0>>
Membus == Node("membus")
Iobus  == Node("iobus")

Spans(ranges) == {<<ranges[k].start, ranges[k].start + ranges[k].size>> :
                    k \in 1 .. Len(ranges)}
AnswersIn(spans, a) == \E s \in spans : s[1] <= a /\ a < s[2]

\* MemBus: addresses nobody answers go to the bad-address responder.
BadAddr(bus) == Default(bus, Node("badaddr"))

-----------------------------------------------------------------------------
(* The hybrid memory cube: 16 vaults of 4 bytes, 4 crossbars, 4 links of   *)
(* 16 bytes.  Its ranges are written with inclusive ends.                  *)

VaultSize  == 4
LinkSpan   == 16
NumLinks   == 4
NumVaults  == 16
Xbar(n)    == <<"xbar", n>>
SerialLink(n) == <<"seriallink", n>>

VaultRanges == [v \in 1 .. NumVaults |->
                  [start |-> (v - 1) * VaultSize, size |-> VaultSize - 1]]

\* ser_ranges.
LinkRange(arch, n) ==
  IF arch = "distributed" \/ (arch = "mixed" /\ n < 2)
  THEN <<n * LinkSpan, (n + 1) * LinkSpan - 1>>
  ELSE <<0, NumLinks * LinkSpan - 1>>

\* A port with a monitor in it, if one is enabled.
Monitored(on, kind, n, from, to, ranges) ==
  IF on THEN {Port(from, <<kind, n>>, ranges), Port(<<kind, n>>, to, ranges)}
        ELSE {Port(from, to, ranges)}

OnMembus(arch) == IF arch = "distributed" THEN 0 .. NumLinks - 1
                  ELSE IF arch = "mixed" THEN {0, 1} ELSE {}

HMCHost(o) ==
  (IF o.arch = "same" THEN {} ELSE {BadAddr(Membus)})
    \cup UNION {Monitored(o.global_monitor, "hmonitor", n, Membus,
                          SerialLink(n), {LinkRange(o.arch, n)})
                  : n \in OnMembus(o.arch)}

HMCLinks(o) ==
  UNION {Monitored(o.link_monitor, "lmonitor", n, SerialLink(n), Xbar(n),
                   AllMemory) : n \in 0 .. NumLinks - 1}

\* mem_ranges[from * chunk : (from + 1) * chunk].
VaultsOf(n, chunk) ==
  Spans(SubSeq(VaultRanges, n * chunk + 1,
               IF (n + 1) * chunk < NumVaults THEN (n + 1) * chunk
                                              ELSE NumVaults))

Bridge(x, y, ranges) ==
  {Port(Xbar(x), <<"buffer", 4 * x + y>>, ranges),
   Link(<<"buffer", 4 * x + y>>, Xbar(y))}

\* Crossbars reach each other's vaults: all of them ("same"), or 2 and 3
\* ("mixed").  With fewer buffers than pairs the iterator ends too early.
BufferMissing(o) == o.arch = "same" /\ NumLinks * (o.chunk - 1)
                                          < NumLinks * (NumLinks - 1)
HMCBridgesToOwn(o) ==                                       \* faulty variant
  UNION {IF o.arch # "same" \/ x = y THEN {}
         ELSE Bridge(x, y, VaultsOf(x, o.chunk)) : x, y \in 0 .. NumLinks - 1}
HMCBridges(o) ==
  CASE o.arch = "same" ->
         UNION {IF x = y THEN {} ELSE Bridge(x, y, VaultsOf(y, o.chunk))
                  : x, y \in 0 .. NumLinks - 1}
    [] o.arch = "mixed" ->
         UNION ({Bridge(3, y, VaultsOf(y, 4)) : y \in {0, 1, 2}}
           \cup {Bridge(2, y, VaultsOf(y, 4)) : y \in {0, 1, 3}})
    [] o.arch = "distributed" -> {}

\* build_system of hmctest.py: the generators' and the system's ports.
Tgen(n) == <<"tgen", n>>
HMCTest(o) ==
  (UNION {IF n \in OnMembus(o.arch) THEN {Link(Tgen(n), Membus)}
          ELSE Monitored(o.global_monitor, "hmonitor", n, Tgen(n),
                         SerialLink(n), {LinkRange(o.arch, n)})
            : n \in 0 .. NumLinks - 1})
    \cup {Link(Node("system"),
               IF o.arch = "same" THEN Xbar(3) ELSE Membus)}

HMCPorts(o) == HMCHost(o) \cup HMCLinks(o) \cup HMCBridges(o) \cup HMCTest(o)

-----------------------------------------------------------------------------
(* Full systems: x86, bare-metal RISC-V.  One unit stands for 64 MB, but   *)
(* 639 kB and 1 MB are 1 and 2; the three spaces above memory are kept.    *)

KB639 == 1
MB1   == 2
GB3   == 48
M5OpsBase == 63
GB4   == 64
IOBase         == 128
InterruptsBase == 160
PciConfigBase  == 192
ApicSize       == 2

MemRangesX86(mem) ==
  IF mem <= GB3 THEN <<[start |-> 0, size |-> mem]>>
  ELSE <<[start |-> 0, size |-> GB3], [start |-> GB4, size |-> mem - GB3]>>

IOBridge(ranges) == {Port(Membus, Node("bridge"), ranges),
                     Link(Node("bridge"), Iobus), BadAddr(Membus),
                     Link(Node("system"), Membus)}

PassThrough == {<<GB3, M5OpsBase>>, <<IOBase, InterruptsBase - 1>>,
                <<PciConfigBase, AddrMax>>}
ConnectX86Classic(ncpus) ==
  IOBridge(PassThrough)
    \cup {Port(Iobus, Node("apicbridge"),
               {<<InterruptsBase, InterruptsBase + ncpus * ApicSize - 1>>}),
          Link(Node("apicbridge"), Membus),
          Port(Iobus, Node("device"), PassThrough)}

\* makeLinuxX86System: the guest's map of memory; type 1 is usable.
E820(addr, end, type) == [addr |-> addr, end |-> end, type |-> type]
E820HoleUsable(mem) ==                                      \* faulty variant
  LET first == MemRangesX86(mem)[1].size IN
  {E820(0, KB639, 1), E820(KB639, MB1, 2), E820(MB1, first, 1),
   E820(M5OpsBase, GB4, 2)}
    \cup {E820(r.start, r.start + r.size, 1) :
            r \in {s \in {MemRangesX86(mem)[k] :
                            k \in 1 .. Len(MemRangesX86(mem))} : s.start > 0}}
E820Table(mem) ==
  LET ranges == MemRangesX86(mem)
      first  == ranges[1].size
  IN  {E820(0, KB639, 1), E820(KB639, MB1, 2), E820(MB1, first, 1),
       E820(M5OpsBase, GB4, 2)}
        \cup IF Len(ranges) = 1 THEN {E820(first, GB3, 2)}
             ELSE {E820(GB4, GB4 + ranges[2].size, 1)}

\* "We'll require 2 [MB] just to avoid corner cases."
TooSmallForLinux(mem) == mem < 2 * MB1

BareMetalRiscv ==
  IOBridge({<<PciConfigBase, AddrMax>>})
    \cup {Port(Iobus, Node("device"), {<<PciConfigBase, AddrMax>>})}

\* build_test_system of fs.py: how devices reach memory.
DeviceMemory(o, mem_ranges) ==
  LET via(kind) == {Port(Iobus, Node(kind), Spans(mem_ranges)),
                    Link(Node(kind), Membus)}
  IN  (IF o.caches \/ o.l2cache THEN via("iocache")
       ELSE IF ~o.external THEN via("iobridge") ELSE {})
        \cup {Link(Node("dma"), Iobus)}

-----------------------------------------------------------------------------
(* config_cache.                                                           *)

CacheRefused(o) ==
  \/ o.external /\ (o.caches \/ o.l2cache)
  \/ o.l2cache /\ o.elastic

HasWalkers(isa) == isa \in {"x86", "arm", "riscv"}
CpuPorts(isa) == {"inst", "data"} \cup
                 IF HasWalkers(isa) THEN {"itb_walker", "dtb_walker"} ELSE {}

\* The caches between one of the ports of a CPU and the bus.
OwnCache(port, n) ==
  <<CASE port = "inst" -> "icache" [] port = "data" -> "dcache"
      [] port = "itb_walker" -> "itb_walker_cache"
      [] port = "dtb_walker" -> "dtb_walker_cache", n>>
Cached(o, port) ==
  o.caches /\ (port \in {"inst", "data"} \/ o.isa \in {"x86", "riscv"})

Bus(o) == IF o.l2cache THEN Node("tol2bus") ELSE Membus

CpuToBus(o, port, n) ==
  LET cpu == <<port, n>>  own == OwnCache(port, n) IN
  IF o.external THEN {Link(cpu, <<"external_cache", n>>)}
  ELSE IF ~Cached(o, port) THEN {Link(cpu, Bus(o))}
  ELSE IF port = "data" /\ o.memchecker
       THEN {Link(cpu, <<"dcache_mon", n>>), Link(<<"dcache_mon", n>>, own),
             Link(own, Bus(o))}
       ELSE {Link(cpu, own), Link(own, Bus(o))}

\* The interrupt controller's ports are not cached.
Interrupts(o, n) ==
  IF o.isa = "x86"
  THEN {Port(Membus, <<"apic", n>>,
             {<<InterruptsBase + n * ApicSize,
                InterruptsBase + (n + 1) * ApicSize>>}),
        Link(<<"int_requestor", n>>, Membus)}
  ELSE {}

ConfigCache(o) ==
  (IF o.l2cache THEN {Link(Node("tol2bus"), Node("l2")),
                      Link(Node("l2"), Membus)} ELSE {})
    \cup (UNION {CpuToBus(o, port, n) :
                   port \in CpuPorts(o.isa), n \in 0 .. o.ncpus - 1})
    \cup UNION {Interrupts(o, n) : n \in 0 .. o.ncpus - 1}

\* se.py.
SystemCallPorts(o) == {Link(Node("system"), Membus)} \cup ConfigCache(o)

-----------------------------------------------------------------------------
(* Arm systems built of clusters.  A cluster has n CPUs of a model.        *)

CpuModels == {"atomic", "timing", "kvm", "fastmodel"}
MemoryMode(model)    == IF model \in {"kvm", "fastmodel"}
                        THEN "atomic_noncaching" ELSE model
RequireCaches(model) == model = "timing"
HasCaches(model)     == model = "timing"

\* The platform: two regions of memory, devices below them.
MemRegions == <<[start |-> 128, size |-> 32], [start |-> 192, size |-> 48]>>
Nvmem      == {<<0, 4>>}
OnChip     == Nvmem \cup {<<4, 8>>}
OffChip    == {<<8, 64>>}

\* getMemRanges, and the loop of makeArmSystem: regions until they hold it.
MemRangesFrom[k \in 1 .. Len(MemRegions) + 1, size \in 0 .. AddrMax] ==
  IF k > Len(MemRegions) THEN <<>>
  ELSE LET here == IF size < MemRegions[k].size THEN size
                                                ELSE MemRegions[k].size
       IN  <<[start |-> MemRegions[k].start, size |-> here]>>
             \o IF size = here THEN <<>> ELSE MemRangesFrom[k + 1, size - here]
MemRangesArm(mem) == MemRangesFrom[1, mem]
TooBig(mem) == mem > MemRegions[1].size + MemRegions[2].size

\* SimpleSystem.connect.
SimpleSystemConnect(caches, mem) ==
  LET dma == Node(IF caches THEN "iocache" ELSE "dmabridge") IN
  {Port(Membus, Node("iobridge"), OffChip), Link(Node("iobridge"), Iobus),
   Port(Iobus, dma, Spans(MemRangesArm(mem))), Link(dma, Membus),
   Port(Membus, Node("onchip"), OnChip), Port(Iobus, Node("device"), OffChip),
   BadAddr(Membus), Link(Node("dma"), Iobus), Link(Node("system"), Membus)}

\* addL1, addL2 and connectMemSide of one cluster; first is its first CPU.
\* Clusters of fast models are on the bus and stay there.
ClusterPorts(c, number, first, l1, l2, bus) ==
  LET cpus   == first .. first + c.n - 1
      hasL1  == l1 /\ HasCaches(c.model)
      hasL2  == l2 /\ HasCaches(c.model)
      toL2   == <<"toL2Bus", number>>
      below  == IF hasL2 THEN toL2 ELSE bus
  IN  IF c.model = "fastmodel" THEN {Link(<<"data", first>>, Membus)}
      ELSE (UNION {IF hasL1 /\ port \in {"inst", "data"}
                   THEN {Link(<<port, n>>, OwnCache(port, n)),
                         Link(OwnCache(port, n), below)}
                   ELSE {Link(<<port, n>>, below)}
                     : port \in CpuPorts("arm"), n \in cpus})
             \cup IF hasL2 THEN {Link(toL2, <<"l2", number>>),
                                 Link(<<"l2", number>>, bus)} ELSE {}

FirstCpu(clusters, k) == IF k = 1 THEN 0 ELSE clusters[1].n

\* BaseSimpleSystem.addCaches.
AddCaches(clusters, caches, last_level) ==
  LET l3  == caches /\ last_level > 2
      bus == IF l3 THEN Node("toL3Bus") ELSE Membus
  IN  (UNION {ClusterPorts(clusters[k], k, FirstCpu(clusters, k),
                           caches, caches /\ last_level > 1, bus)
                : k \in 1 .. Len(clusters)})
        \cup IF l3 THEN {Link(Node("toL3Bus"), Node("l3")),
                         Link(Node("l3"), Membus)} ELSE {}

\* AtomicCluster and KvmCluster hand on a class more than CpuCluster takes.
TooManyClasses(c) == c.model \in {"atomic", "kvm"}

\* fs_bigLITTLE.py: what build refuses, and a simple memory for each range.
BigLittleRefused(o) ==
  \/ TooBig(o.mem)
  \/ Len(o.clusters) = 0
  \/ \E k \in 1 .. Len(o.clusters) : TooManyClasses(o.clusters[k])
  \/ \E k \in 1 .. Len(o.clusters) :
       o.clusters[k].model = "fastmodel" /\ o.clusters[k].n > 4
  \/ \E c, d \in {o.clusters[k] : k \in 1 .. Len(o.clusters)} :
       MemoryMode(c.model) # MemoryMode(d.model)
  \/ o.caches /\ o.last_level \notin 1 .. 3
  \/ ~o.caches /\ \E k \in 1 .. Len(o.clusters) :
                     RequireCaches(o.clusters[k].model)
BigLittlePorts(o) ==
  SimpleSystemConnect(o.caches, o.mem)
    \cup {Port(Membus, <<"physmem", k>>, Spans(<<MemRangesArm(o.mem)[k]>>)) :
            k \in 1 .. Len(MemRangesArm(o.mem))}
    \cup AddCaches(o.clusters, o.caches, o.last_level)

\* starter_fs.py and baremetal.py: one cluster, caches for timing models.
WantCaches(o) == MemoryMode(o.clusters[1].model) = "timing"
StarterRefused(o) == o.script_missing \/ TooBig(o.mem)
StarterFsPorts(o) == SimpleSystemConnect(WantCaches(o), o.mem)
                       \cup AddCaches(o.clusters, WantCaches(o), 2)
BareMetalPorts(o) == SimpleSystemConnect(WantCaches(o), o.mem)
                       \cup AddCaches(o.clusters, WantCaches(o), 2)

\* starter_se.py: a process for each CPU, or it stops.
StarterSeRefused(o) == o.commands # o.clusters[1].n
StarterSePorts(o) ==
  {Link(Node("system"), Membus)}
    \cup ClusterPorts(o.clusters[1], 1, 0, WantCaches(o), WantCaches(o), Membus)

-----------------------------------------------------------------------------
(* The small scripts: one memory on the bus.                               *)

PhysMem(bus, size) == Port(bus, <<"physmem", 1>>, {<<0, size>>})

\* run.py of splash2: CPUs with caches of their own and one second level.
SplashPorts(o) ==
  {PhysMem(Membus, o.mem), Link(Node("tol2bus"), Node("l2")),
   Link(Node("l2"), Membus), Link(Node("system"), Membus)}
    \cup (UNION {{Link(<<port, n>>, OwnCache(port, n)),
                  Link(OwnCache(port, n), Node("tol2bus"))}
                   : port \in {"inst", "data"}, n \in 0 .. o.ncpus - 1})
    \cup UNION {IF HasWalkers(o.isa)
                THEN {Link(<<port, n>>, Node("tol2bus")) :
                        port \in {"itb_walker", "dtb_walker"}}
                     \cup Interrupts(o, n)
                ELSE {} : n \in 0 .. o.ncpus - 1}

\* two_level.py, with the connect functions of its caches.py.
ConnectCPU(port) == {Link(<<port, 0>>, OwnCache(port, 0))}
ConnectBus(port) == {Link(OwnCache(port, 0), Node("tol2bus"))}
ConnectL2        == {Link(Node("tol2bus"), Node("l2")), Link(Node("l2"), Membus)}
TwoLevelPorts(o) ==
  ConnectCPU("inst") \cup ConnectCPU("data") \cup ConnectBus("inst")
    \cup ConnectBus("data") \cup ConnectL2 \cup Interrupts(o, 0)
    \cup {PhysMem(Membus, o.mem), Link(Node("system"), Membus)}
=============================================================================
