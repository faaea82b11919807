--------------------------- MODULE MemInterleaving ---------------------------
(***************************************************************************)
(* Which controller an address belongs to: config_mem and create_mem_intf  *)
(* of configs/common/MemConfig.py, setup_memory_controllers of             *)
(* configs/ruby/Ruby.py, and the home nodes of configs/ruby/CHI_config.py. *)
(* Every memory range is interleaved over controllers by some bits of the  *)
(* address, possibly hashed with higher ones.                              *)
(***************************************************************************)
EXTENDS Integers, Sequences, FiniteSets

CONSTANTS
  Options,       \* the command lines and the systems they are used on
  AddrBits       \* bits of an address

\* opts.driver is the function that creates the controllers; num is
\* --mem-channels, --num-dirs or the number of home nodes; ranges are the
\* system's memory ranges.  A memory type has a class and an address mapping:
\* if the channel bits come after the column bits, "RoRaBaChCo", they start
\* above its row buffer (a DRAM) or bank buffer (an NVM).
NoType == [class |-> "none", mapping |-> "", buffer |-> 0]

MemTypes ==
  [class : {"simple", "dram", "nvm"}, mapping : {"RoRaBaChCo", "RoRaBaCoCh"},
   buffer : Nat]

OptionTypes ==
  [driver : {"config_mem", "ruby", "chi"}, num : Nat \ {0},
   mem_type : MemTypes \cup {NoType}, nvm_type : MemTypes \cup {NoType},
   hmc : BOOLEAN, hybrid_channel : BOOLEAN, elastic_trace : BOOLEAN,
   mem_channels_intlv : Nat, cacheline_size : Nat \ {0},
   xor_low_bit : Nat, numa_high_bit : Nat,
   ranges : Seq([start : Nat, size : Nat \ {0}]) \ {<<>>}]

ASSUME MemAssumption ==
  /\ AddrBits \in Nat
  /\ Options \subseteq OptionTypes

\* A cube has a range for each of its vaults, and they are DRAM.
Crossbars == 4
Vaults    == 16

ASSUME CubeAssumption ==
  \A o \in Options :
    o.hmc => /\ o.driver = "config_mem" /\ o.nvm_type = NoType
             /\ Len(o.ranges) = Vaults

VARIABLES
  opts,
  pc,
  r,           \* index of the memory range of the loop, from 1 (range_iter)
  i,           \* index of the controller of the loop, from 0
  mem_ctrls,   \* the controllers: their interfaces and what they connect to
  nvm_intfs    \* interfaces that wait to share a DRAM's controller

vars == <<opts, pc, r, i, mem_ctrls, nvm_intfs>>

Ctrl(dram, nvm, port) == [dram |-> dram, nvm |-> nvm, port |-> port]

-----------------------------------------------------------------------------
(* Ranges of addresses.                                                    *)

\* int(math.log(n, 2)).
Log2(n) == CHOOSE k \in 0 .. AddrBits : 2^k <= n /\ n < 2^(k + 1)

Bit(a, b) == (a \div 2^b) % 2

\* The ranges of a system do not overlap; the sizes are numbers of an address's
\* bits; and with --numa-high-bit, the bits of a directory are up to that bit.
ASSUME RangesAssumption ==
  \A o \in Options :
    /\ \A j, k \in 1 .. Len(o.ranges) : j # k =>
         \/ o.ranges[j].start + o.ranges[j].size <= o.ranges[k].start
         \/ o.ranges[k].start + o.ranges[k].size <= o.ranges[j].start
    /\ o.num < 2^AddrBits /\ o.cacheline_size < 2^AddrBits
    /\ o.mem_channels_intlv < 2^AddrBits
    /\ o.numa_high_bit > 0 =>
         Log2(o.num) <= o.numa_high_bit + 1 /\ o.numa_high_bit < AddrBits

\* AddrRange: bit k of the number that must match is the parity of the bits
\* of the address in masks[k + 1].
NoRange == [start |-> 0, size |-> 0, masks |-> <<>>, match |-> 0]

AddrRange(range, low, bits, xor, match) ==
  [start |-> range.start, size |-> range.size, match |-> match,
   masks |-> [k \in 1 .. bits |->
                {low + k - 1} \cup IF xor = 0 THEN {} ELSE {xor + k - 1}]]

\* A number to match that does not fit the bits is refused.
Representable(f) == f.masks # <<>> => f.match < 2^Len(f.masks)

Parity(a, mask) == Cardinality({b \in mask : Bit(a, b) = 1}) % 2

Contains(f, a) ==
  /\ a \in f.start .. f.start + f.size - 1
  /\ \A k \in 1 .. Len(f.masks) : Parity(a, f.masks[k]) = Bit(f.match, k - 1)

-----------------------------------------------------------------------------
(* Initially: one command line, no controller.                             *)

Init ==
  /\ opts \in Options
  /\ pc = "check"
  /\ r = 1 /\ i = 0
  /\ mem_ctrls = <<>> /\ nvm_intfs = <<>>

IntlvBits == Log2(opts.num)

\* The granule of the interleaving, and the block that must not be divided.
DirBlock == IF opts.numa_high_bit > 0
            THEN 2^(opts.numa_high_bit + 1 - IntlvBits)
            ELSE opts.cacheline_size
IntlvSizeAsGiven ==                                         \* faulty variant
  IF opts.driver = "ruby" THEN DirBlock
  ELSE IF opts.mem_channels_intlv > 0 THEN opts.mem_channels_intlv
                                      ELSE opts.cacheline_size
IntlvSize ==
  IF opts.driver = "ruby" THEN DirBlock
  ELSE IF opts.mem_channels_intlv > opts.cacheline_size
       THEN opts.mem_channels_intlv ELSE opts.cacheline_size
Block == IF opts.driver = "ruby" THEN DirBlock ELSE opts.cacheline_size

\* create_mem_intf: the range of one interface of a type.
LowBit(type) ==
  IF type.class \in {"dram", "nvm"} /\ type.mapping = "RoRaBaChCo"
  THEN type.buffer ELSE Log2(IntlvSize)
MemIntf(type) ==
  AddrRange(opts.ranges[r], LowBit(type), IntlvBits, opts.xor_low_bit, i)

\* createAddrRanges of CHI_HNF: no hashing.
HomeRange == AddrRange(opts.ranges[r], Log2(opts.cacheline_size), IntlvBits, 0, i)

-----------------------------------------------------------------------------
(* The loops.  config_mem goes through the controllers of a range and then *)
(* to the next range; the others go through the ranges of a controller.    *)

NextController(last, num) ==
  \/ i < num - 1 /\ i' = i + 1 /\ UNCHANGED <<r, pc>>
  \/ i = num - 1 /\ r < Len(opts.ranges) /\ i' = 0 /\ r' = r + 1 /\ UNCHANGED pc
  \/ i = num - 1 /\ r = Len(opts.ranges) /\ pc' = last /\ UNCHANGED <<r, i>>
NextRange(last, num) ==
  \/ r < Len(opts.ranges) /\ r' = r + 1 /\ UNCHANGED <<i, pc>>
  \/ r = Len(opts.ranges) /\ i < num - 1 /\ r' = 1 /\ i' = i + 1 /\ UNCHANGED pc
  \/ r = Len(opts.ranges) /\ i = num - 1 /\ pc' = last /\ UNCHANGED <<r, i>>

Advance(last) ==
  IF opts.driver = "config_mem" THEN NextController(last, opts.num)
                                ELSE NextRange(last, opts.num)

Fail == pc' = "error" /\ UNCHANGED <<opts, r, i, mem_ctrls, nvm_intfs>>

\* Before the loops of config_mem.
Refused ==
  \/ opts.mem_type = NoType /\ opts.nvm_type = NoType
  \/ 2^IntlvBits # opts.num
  \/ opts.elastic_trace /\ opts.mem_type.class # "simple"

Check ==
  /\ pc = "check"
  /\ \/ /\ opts.driver = "config_mem" /\ Refused
        /\ Fail
     \/ /\ opts.driver = "config_mem" => ~Refused
        /\ pc' = "create"
        /\ UNCHANGED <<opts, r, i, mem_ctrls, nvm_intfs>>

\* config_mem: ranges go to DRAM and NVM in turn if both are configured.
ForDRAM == opts.mem_type # NoType /\ (opts.nvm_type = NoType \/ r % 2 = 1)

CreateDRAMEachForAll ==                                     \* faulty variant
  /\ pc = "create" /\ opts.driver = "config_mem" /\ ForDRAM
  /\ mem_ctrls' = Append(mem_ctrls, Ctrl(
       AddrRange(opts.ranges[r], LowBit(opts.mem_type), IntlvBits,
                 opts.xor_low_bit, r - 1), NoRange, 0))
  /\ Advance("hook_up")
  /\ UNCHANGED <<opts, nvm_intfs>>
CreateDRAM ==
  /\ pc = "create" /\ opts.driver = "config_mem" /\ ForDRAM
  /\ mem_ctrls' = Append(mem_ctrls, Ctrl(MemIntf(opts.mem_type), NoRange, 0))
  /\ Advance("hook_up")
  /\ UNCHANGED <<opts, nvm_intfs>>

CreateNVM ==
  /\ pc = "create" /\ opts.driver = "config_mem" /\ ~ForDRAM
  /\ \/ /\ ~opts.hybrid_channel
        /\ mem_ctrls' = Append(mem_ctrls,
                               Ctrl(NoRange, MemIntf(opts.nvm_type), 0))
        /\ UNCHANGED nvm_intfs
     \/ /\ opts.hybrid_channel
        /\ nvm_intfs' = Append(nvm_intfs, MemIntf(opts.nvm_type))
        /\ UNCHANGED mem_ctrls
  /\ Advance("hook_up")
  /\ UNCHANGED opts

\* "hook up NVM interface when channel is shared with DRAM + NVM".  Without
\* a DRAM there is no controller to share.
Share(intfs) ==
  /\ pc = "hook_up"
  /\ \/ /\ Len(intfs) > Len(mem_ctrls)
        /\ Fail
     \/ /\ Len(intfs) <= Len(mem_ctrls)
        /\ mem_ctrls' = [k \in 1 .. Len(mem_ctrls) |->
                           IF k <= Len(intfs)
                           THEN [mem_ctrls[k] EXCEPT !.nvm = intfs[k]]
                           ELSE mem_ctrls[k]]
        /\ pc' = "connect"
        /\ UNCHANGED <<opts, r, i, nvm_intfs>>
HookUpReversed ==                                           \* faulty variant
  Share([k \in 1 .. Len(nvm_intfs) |-> nvm_intfs[Len(nvm_intfs) + 1 - k]])
HookUp == Share(nvm_intfs)

\* To the bus (port 0), or each group of four vaults to its crossbar.
Connect ==
  /\ pc = "connect"
  /\ \/ /\ opts.hmc /\ Len(mem_ctrls) > 4 * Crossbars
        /\ Fail
     \/ /\ opts.hmc => Len(mem_ctrls) <= 4 * Crossbars
        /\ mem_ctrls' = [k \in 1 .. Len(mem_ctrls) |->
             [mem_ctrls[k] EXCEPT !.port = IF opts.hmc THEN (k - 1) \div 4
                                                       ELSE 0]]
        /\ pc' = "done"
        /\ UNCHANGED <<opts, r, i, nvm_intfs>>

\* setup_memory_controllers: one controller for each range of a directory,
\* connected to that directory.
CreateDirectoryRange ==
  /\ pc = "create" /\ opts.driver = "ruby"
  /\ \/ /\ ~Representable(MemIntf(opts.mem_type))
        /\ Fail
     \/ /\ Representable(MemIntf(opts.mem_type))
        /\ mem_ctrls' = Append(mem_ctrls,
                               Ctrl(MemIntf(opts.mem_type), NoRange, i))
        /\ Advance("done")
        /\ UNCHANGED <<opts, nvm_intfs>>

\* createAddrRanges: one range after the other of a home node.
CreateHomeRange ==
  /\ pc = "create" /\ opts.driver = "chi"
  /\ \/ /\ ~Representable(HomeRange)
        /\ Fail
     \/ /\ Representable(HomeRange)
        /\ mem_ctrls' = Append(mem_ctrls, Ctrl(HomeRange, NoRange, i))
        /\ Advance("done")
        /\ UNCHANGED <<opts, nvm_intfs>>

Next == \/ Check \/ CreateDRAM \/ CreateNVM \/ HookUp \/ Connect
        \/ CreateDirectoryRange \/ CreateHomeRange

Spec == Init /\ [][Next]_vars

-----------------------------------------------------------------------------
\* The interfaces there are when all is built, by controller and kind.
Interfaces == {<<k, "dram">> : k \in 1 .. Len(mem_ctrls)}
         \cup {<<k, "nvm">>  : k \in 1 .. Len(mem_ctrls)}
RangeOf(n) == IF n[2] = "dram" THEN mem_ctrls[n[1]].dram
                               ELSE mem_ctrls[n[1]].nvm
Owners(a)  == {n \in Interfaces : Contains(RangeOf(n), a)}
Addresses(g) == g.start .. g.start + g.size - 1

\* Every address of every memory range has exactly one owner, whatever bits
\* select the channel and whatever they are hashed with.
OneOwner ==
  pc = "done" =>
    \A k \in 1 .. Len(opts.ranges) :
      \A a \in Addresses(opts.ranges[k]) : Cardinality(Owners(a)) = 1

\* A block (a cache line; for Ruby block_size_bytes) has one owner, unless it
\* is hashed with bits of its own.
BlocksUndivided ==
  (pc = "done" /\ (opts.xor_low_bit = 0 \/ 2^opts.xor_low_bit >= Block)) =>
    \A k \in 1 .. Len(opts.ranges) :
      \A a \in Addresses(opts.ranges[k]) :
        LET first == a - (a % Block)
        IN  first >= opts.ranges[k].start => Owners(a) = Owners(first)

\* Interfaces that share a controller are the same channel of their ranges,
\* and a vault's controller is on the crossbar of its four vaults.
ChannelsMatch ==
  pc = "done" =>
    \A k \in 1 .. Len(mem_ctrls) :
      LET c == mem_ctrls[k]
      IN  /\ (c.dram # NoRange /\ c.nvm # NoRange) => c.dram.match = c.nvm.match
          /\ opts.hmc =>
               \E v \in 4 * c.port + 1 .. 4 * c.port + 4 :
                 opts.ranges[v].start = c.dram.start
=============================================================================
