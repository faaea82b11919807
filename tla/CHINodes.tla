------------------------------ MODULE CHINodes ------------------------------
(***************************************************************************)
(* The CHI protocol's system (configs/ruby/CHI.py and CHI_config.py):      *)
(* request nodes of a CPU with private L1s and L2, home nodes, memory      *)
(* nodes, and request nodes without a cache for DMA and I/O.  A node is a  *)
(* class and the controllers it puts on the network.                       *)
(***************************************************************************)
EXTENDS RubyProtocols

Node(class, cntrls) == [class |-> class, cntrls |-> cntrls]

Names(cntrls) == {<<c.type, c.version>> : c \in cntrls}
To(c, cntrls) == [c EXCEPT !.downstream = Names(Range(cntrls))]

\* The caches' controllers in the order they are created: the L1s of every CPU,
\* which take its clock, before the first L2; those of home nodes, DMA and I/O.
L1sOf(o) ==
  LET L1s == Created(<<>>, 2 * o.num_cpus, "Cache", 1)
  IN  [k \in DOMAIN L1s |-> [L1s[k] EXCEPT !.clock = (k - 1) \div 2]]

L2sOf(o)  == Created(L1sOf(o), o.num_cpus, "Cache", 0)
HNFsOf(o) == Created(L1sOf(o) \o L2sOf(o), o.num_l3caches, "Cache", 0)
RNIsOf(o) == Created(L1sOf(o) \o L2sOf(o) \o HNFsOf(o),
                     o.dmas + (IF o.full_system THEN 1 ELSE 0), "Cache", 1)

Memory_Controllers(o) ==
  Created(<<>>, o.num_dirs + (IF o.rom THEN 1 ELSE 0), "Memory", 0)

\* The CPU a request node is made for: one tester stands for all of them.
CpuOf(o, i) == IF o.one_tester THEN 0 ELSE i

\* The controllers of a request node's CPU that send to the L2 that
\* addPrivL2Cache() gives to it: they are kept with the CPU, the L1s of its last
\* node to begin with, then the L2 of its node before.
SendToL2(o, i) ==
  LET nodes == {j \in 0 .. o.num_cpus - 1 : CpuOf(o, j) = CpuOf(o, i)}
  IN  IF \E j \in nodes : j < i
        THEN {L2sOf(o)[j + 1] : j \in {k \in nodes : k < i /\ \A m \in nodes : m <= k \/ i <= m}}
        ELSE UNION {{L1sOf(o)[2 * j + 1], L1sOf(o)[2 * j + 2]} :
                      j \in {k \in nodes : \A m \in nodes : m <= k}}

\* The L2s that an L1 sends to.
PrivateL2s(o, l1) == {L2sOf(o)[i + 1] : i \in {j \in 0 .. o.num_cpus - 1 : l1 \in SendToL2(o, j)}}

\* The L1s send to a private L2, the L2 to the home nodes.
CHI_RNF(o, i) ==
  LET L1(k) == [L1sOf(o)[2 * i + k] EXCEPT
                  !.downstream = Names(PrivateL2s(o, L1sOf(o)[2 * i + k]))]
  IN  Node("CHI_RNF", <<L1(1), L1(2), To(L2sOf(o)[i + 1], HNFsOf(o))>>)

\* Faulty variant: a home node does not know of the boot memory.
CHI_HNFMainMemory(o, h) ==
  Node("CHI_HNF", <<To(HNFsOf(o)[h + 1], SubSeq(Memory_Controllers(o), 1, o.num_dirs))>>)

\* A home node sends to the memories, the boot memory's too.
CHI_HNF(o, h) == Node("CHI_HNF", <<To(HNFsOf(o)[h + 1], Memory_Controllers(o))>>)

CHI_SNF(o, m) ==
  Node(IF m < o.num_dirs THEN "CHI_SNF_MainMem" ELSE "CHI_SNF_BootMem",
       <<Memory_Controllers(o)[m + 1]>>)

\* One node for each DMA port, and one for I/O.
CHI_RNI(o, d) ==
  Node(IF d < o.dmas THEN "CHI_RNI_DMA" ELSE "CHI_RNI_IO",
       <<To(RNIsOf(o)[d + 1], HNFsOf(o))>>)

\* The nodes in the order they join network_nodes, and their controllers.
CHI_Nodes(o) ==
  Each(o.num_cpus, LAMBDA i : CHI_RNF(o, i))
  \o Each(o.num_l3caches, LAMBDA h : CHI_HNF(o, h))
  \o Each(Len(Memory_Controllers(o)), LAMBDA m : CHI_SNF(o, m))
  \o Each(Len(RNIsOf(o)), LAMBDA d : CHI_RNI(o, d))

network_cntrls(o) ==
  EachOf(o.num_cpus, 3, LAMBDA i, j : CHI_RNF(o, i).cntrls[j + 1])
  \o Each(o.num_l3caches, LAMBDA h : CHI_HNF(o, h).cntrls[1])
  \o Each(Len(Memory_Controllers(o)), LAMBDA m : CHI_SNF(o, m).cntrls[1])
  \o Each(Len(RNIsOf(o)), LAMBDA d : CHI_RNI(o, d).cntrls[1])

\* The wrapper of a CPU's two sequencers gives its port.
CPUSequencerWrapper(i) == Port("cpu", 2 * i, (2 * i) + 1)

\* Home nodes have ranges of addresses, as MOESI_CMP_directory's L2s do.  The
\* topology must be one that takes nodes, or one that takes controllers.
CHI(o) ==
  IF \/ o.num_dirs < 1 \/ o.num_l3caches < 1
     \/ ~o.chi_config /\ o.topology = "CustomMesh"
     \/ ~IsPowerOfTwo(o.num_l3caches)
     \/ o.topology \notin {"CustomMesh", "Crossbar", "Pt2Pt"}
    THEN Refuse
    ELSE [refuses |-> FALSE, cntrls |-> network_cntrls(o), caches |-> {},
          ports   |-> Each(o.num_cpus, CPUSequencerWrapper)]
=============================================================================
