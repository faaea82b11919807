----------------------------- MODULE Platforms -----------------------------
(***************************************************************************)
(* Full systems around a platform: the Arm and SPARC machines of           *)
(* configs/common/FSConfig.py, the system that drives the one under test   *)
(* (example/fs.py --dual), RISC-V Linux (example/riscv/fs_linux.py), and   *)
(* the systems whose memory is in SST (example/sst).                       *)
(* One unit of addresses stands for 16 MB.                                 *)
(***************************************************************************)
EXTENDS SystemPorts

SystemOn(bus) == {Link(Node("system"), bus)}

\* The bridge to the devices, and what the platform attaches to both busses.
Platform(on_chip, off_chip) ==
  {Port(Membus, Node("bridge"), off_chip), Link(Node("bridge"), Iobus),
   Port(Membus, Node("onchip"), on_chip), Port(Iobus, Node("device"), off_chip),
   BadAddr(Membus)}

-----------------------------------------------------------------------------
(* makeArmSystem.  Memory outside gem5 takes the place of config_mem's.    *)

\* The regions below this one, all of them used up.
HeldBefore[k \in 1 .. Len(MemRegions) + 1] ==
  IF k = 1 THEN 0 ELSE HeldBefore[k - 1] + MemRegions[k - 1].size

\* The loop over _mem_regions: whole regions, and what remains.
MakeMemRanges(mem) ==
  LET used   == {k \in 1 .. Len(MemRegions) : k = 1 \/ mem > HeldBefore[k]}
      remain == [k \in used |-> mem - HeldBefore[k]]
  IN  [k \in 1 .. Cardinality(used) |->
         IF remain[k] > MemRegions[k].size THEN MemRegions[k]
         ELSE [start |-> MemRegions[k].start, size |-> remain[k]]]
TooBigForPlatform(mem) == mem > HeldBefore[Len(MemRegions) + 1]

MakeArmSystem(o) ==
  (IF o.external
   THEN {Port(Membus, Node("bridge"), Nvmem), Link(Node("bridge"), Iobus),
         BadAddr(Membus), Port(Iobus, Node("nvmem"), Nvmem),
         Port(Iobus, Node("onchip"), OnChip \ Nvmem),
         Port(Iobus, Node("device"), OffChip), Link(Node("dma"), Iobus),
         Port(Iobus, Node("external_io"), Spans(MakeMemRanges(o.mem)))}
   ELSE Platform(OnChip, OffChip))
    \cup SystemOn(Membus)

-----------------------------------------------------------------------------
(* makeSparcSystem.  The devices of the T1000, on both busses, and the     *)
(* holes between them: the bridge has a range for each group.              *)

UartSize == 4
T1000 == [puart0 |-> 64, nvram |-> 72, partition_desc |-> 76,
          hypervisor_desc |-> 80, disk0 |-> 88, fake_jbi |-> 96,
          fake_clk |-> 120, iob |-> 128, fake_l2_1 |-> 144, fake_ssi |-> 192,
          rom |-> 208, hvuart |-> 220]
JbiSize == 16
SsiSize == 8
RomSize == 8
DescSize == 2

MemRangesSparc == <<[start |-> 1, size |-> 16], [start |-> 32, size |-> 24]>>

SparcBridged ==
  {<<T1000.puart0, T1000.puart0 + UartSize - 1>>,
   <<T1000.disk0, T1000.fake_jbi + JbiSize - 1>>,
   <<T1000.fake_clk, T1000.iob - 1>>,
   <<T1000.fake_l2_1, T1000.fake_ssi + SsiSize - 1>>,
   <<T1000.hvuart, T1000.hvuart + UartSize - 1>>}

\* The images in memories of their own.
Images == [rom |-> RomSize, nvram |-> DescSize, hypervisor_desc |-> DescSize,
           partition_desc |-> DescSize]

ImageAt(image) == {<<T1000[image], T1000[image] + Images[image]>>}
SparcOnChip    == {<<T1000.iob, T1000.iob + 1>>}

MakeSparcSystem ==
  Platform(SparcOnChip, SparcBridged)
    \cup {Port(Membus, Node(image), ImageAt(image)) : image \in DOMAIN Images}
    \cup SystemOn(Membus)

-----------------------------------------------------------------------------
(* fs.py: the system under test, and the one that drives it.               *)

MemRangesOf(isa, mem) ==
  CASE isa = "x86"   -> MemRangesX86(mem)
    [] isa = "arm"   -> MakeMemRanges(mem)
    [] isa = "sparc" -> MemRangesSparc
    [] isa = "riscv" -> <<[start |-> 0, size |-> mem]>>

MakeSystem(o) ==
  CASE o.isa = "x86"   -> ConnectX86Classic(o.ncpus)
    [] o.isa = "arm"   -> MakeArmSystem(o)
    [] o.isa = "sparc" -> MakeSparcSystem
    [] o.isa = "riscv" -> BareMetalRiscv

FullSystemPorts(o) ==
  MakeSystem(o) \cup DeviceMemory(o, MemRangesOf(o.isa, o.mem)) \cup ConfigCache(o)

\* What makeLinuxX86System and makeArmSystem stop at.
MachineRefused(o) == \/ o.isa = "x86" /\ TooSmallForLinux(o.mem)
                     \/ o.isa = "arm" /\ TooBigForPlatform(o.mem)

\* build_drive_system: one CPU, one simple memory for each range.
DriveSystemPorts(o) ==
  LET ranges == MemRangesOf(o.isa, o.mem) IN
  MakeSystem(o)
    \cup {Link(<<port, 0>>, Membus) : port \in CpuPorts(o.isa)}
    \cup {Port(Iobus, Node("iobridge"), Spans(ranges)),
          Link(Node("iobridge"), Membus), Link(Node("dma"), Iobus)}
    \cup {Port(Membus, <<"physmem", k>>, Spans(<<ranges[k]>>)) :
            k \in 1 .. Len(ranges)}

\* makeDualRoot only knows how to connect two platforms with an ethernet;
\* for RISC-V, build_drive_system has no system at all.
DualRefused(o) == o.isa # "arm"

-----------------------------------------------------------------------------
(* RISC-V Linux on the HiFive platform.                                    *)

HiFiveOnChip  == {<<2, 4>>, <<12, 16>>}
HiFiveOffChip == {<<16, 18>>}
RiscvMemBase  == 128
MemRangesRiscv(mem) == <<[start |-> RiscvMemBase, size |-> mem]>>

RiscvLinuxPorts(o) ==
  Platform(HiFiveOnChip, HiFiveOffChip) \cup SystemOn(Membus)
    \cup DeviceMemory(o, MemRangesRiscv(o.mem)) \cup ConfigCache(o)

-----------------------------------------------------------------------------
(* Memory in SST, behind bridges out of gem5.  The CPU's ports are on the  *)
(* memory bus, the system's on a bridge of its own.                        *)

SstMemory == Node("memory_outgoing_bridge")
SstSystem == SystemOn(Node("system_outgoing_bridge"))
CpuOnMembus(isa) == {Link(<<port, 0>>, Membus) : port \in CpuPorts(isa)}

\* Without ranges, the bridge has memory's place on RISC-V.
SstRiscvPorts(o) ==
  Platform(HiFiveOnChip, HiFiveOffChip) \cup CpuOnMembus("riscv") \cup SstSystem
    \cup {Port(Membus, SstMemory, {<<RiscvMemBase, AddrMax + 1>>})}

\* The boot memory is in SST too: it is taken out of the platform.
SstArmPorts(o) ==
  Platform(OnChip \ Nvmem, OffChip) \cup CpuOnMembus("arm") \cup SstSystem
    \cup {Port(Membus, SstMemory, Nvmem \cup {<<MemRegions[1].start, AddrMax + 1>>})}
SstArmMemRanges(mem) == MemRangesArm(mem)
=============================================================================
