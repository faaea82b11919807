# A verification of the branch-predictor comparison

The repository compares branch predictors: two small C programs are compiled
for three architectures and run on simulated processors.  The processors are
configured and driven by the Python scripts of gem5 (`configs/`), of which the
repository keeps a copy together with gem5's tests (`tests/`).  The simulator
itself, `m5`, is not part of it.  This directory holds TLA+ models of the
parts in which something can go wrong that a test would hardly show, the
configurations with which TLC checks them, and proofs that TLAPS checks.

1. [Inventory](#1-inventory)
2. [Modules](#2-modules)
3. [Runs](#3-runs)
4. [Proofs](#4-proofs)
5. [Where text and code part](#5-where-text-and-code-part)
6. [Not modelled](#6-not-modelled)

## 1. Inventory

| part | state it keeps | operations | what is hard about it |
|---|---|---|---|
| `benchmarks/queens.c` | the board, three occupation arrays of rank numbers, counters | argument scan, `find()` rank by rank, `pboard()` | undoing marks on return; arrays addressed by moving pointers; stopping at the first solution or not |
| `configs/common/Simulation.py` | CPU groups and their instruction limits, `maxtick`, the checkpoint directory, counters of three loops | `setCPUClass`, `findCptDir`, `run`, `scriptCheckpoints`, `benchCheckpoints`, `repeatSwitch` | about twenty options that interact; the simulator returns for one of several reasons at any tick; draining takes time; CPU groups hand over to each other |
| same file, SimPoint part | list of simpoints, the CPU's list of stops, names of checkpoints | parse, take, restore, warm up, measure | two runs that communicate by file names; starts that coincide |
| `configs/example/gem5_library`, `apu_se.py`, `gpufs/runfs.py`, `arm/fs_bigLITTLE.py` and its likes | the CPUs that run, the tick of the last reset, what was dumped | boot, measure a region, copy logs, change CPUs, write checkpoints | statistics are read, reset, dumped and CPUs switched in a different order in each script |
| `configs/ruby`, `configs/network`, `configs/topologies`, the scripts that use them | controllers and their versions, `ruby._cpu_ports`, a network, the guest's files, the GPU's TLBs | `create_system` of eleven protocols, `makeTopology` of eight classes, `init_network`, `config_filesystem`, `register_cache`, `config_tlb_hierarchy`, connections | versions, ports and banks are computed apart and must agree; the scripts find ports by counting |
| the meshes among the topologies | routers, links, identifiers and weights | `makeTopology` | index arithmetic at borders; weights chosen to keep the network from deadlock |
| `configs/common/MemConfig.py`, `setup_memory_controllers`, `CHI_HNF.createAddrRanges` | memory ranges and the bits that interleave them | `create_mem_intf`, `config_mem` | every address must belong to exactly one controller |
| `configs/common/CacheConfig.py`, `FSConfig.py`, `HMC.py`, `configs/example/arm/devices.py`, `memtest.py`, ... | crossbars, bridges, caches and their ranges | one function or script for each system | an address is routed by ranges written in several places; a request that no port answers, or two, ends the simulation |
| `tests/gem5/fixture.py` | per target: lock, set up or not; files that outlive the session | `UniqueFixture.setup`, SCons build, download, extraction | threads share targets; downloads fail or are interrupted |
| `tests/gem5/configs/checkpoint.py` | one checkpoint directory, exit codes of children | `run_test`, `_run_step` | processes that hand over through a directory each overwrites; children that die |
| `configs/common/Options.py` | the command line | `addCommonOptions`, ... | says what each option promises |
| the rest | see [section 6](#6-not-modelled) | | |

How they interact.  A script of `configs/example` parses the options of
`Options.py`, builds CPUs, caches (`CacheConfig`), memories (`MemConfig`, or
`Ruby` with a protocol and a topology) and the guest's files, and either calls
`Simulation.run()` or the simulator itself.  The simulator runs the guest until
an *exit event*, and the script decides what comes next.  Checkpoints are found
again by name in a later run.  The test runner sets up the fixtures of a suite,
on as many threads as it has, and runs the same scripts.

What makes each part correct: the search counts exactly the solutions; the
driver hands over legally, measures on the CPU it was asked to, writes the
checkpoints when they are due and where they belong, and ends; the two SimPoint
runs agree on what is measured; a benchmark script reports the region of
interest and nothing else; a Ruby system is built with every controller on one
connected network, every user on a port of its own and the versions its
addresses select; controllers partition the memory; every request reaches the
memory or device it is for, through its own caches; a network cannot deadlock;
a suite never uses a target that is not set up; a test passes only if what it
tests happened.

## 2. Modules

| module | models | composed with |
|---|---|---|
| `Queens` | `benchmarks/queens.c` | |
| `CheckpointService` | what a user of `run()` relies on | implemented by `Simulation` |
| `Gem5Engine` | the simulator as the scripts use it (external) | extended by `Simulation` |
| `Simulation` | `run()` and its three loops | |
| `SimPoints` | the SimPoint functions of `Simulation.py` | |
| `RunScripts` | the scripts that call the simulator themselves | |
| `Fixtures` | `tests/gem5/fixture.py`, the unique fixtures | |
| `CheckpointTest` | `tests/gem5/configs/checkpoint.py` | |
| `RubyNetwork` | what building a network promises | implemented by `MeshTopology` and by `RubySystem` |
| `MeshTopology` | `makeTopology` of `Mesh_XY`, `Mesh_westfirst`, `MeshDirCorners_XY` | |
| `MeshTraffic` | packets in the networks built (external) | extends `MeshTopology` |
| `Topologies` | `Crossbar`, `CrossbarGarnet`, `Pt2Pt`, `Cluster`, `CustomMesh`, the tutorial's network | operators |
| `RubyProtocols` | `create_system` of the protocols with L1s, L2s, directories | operators |
| `CHINodes` | `CHI.py`, `CHI_config.py` | extends `RubyProtocols` |
| `ViperSystem` | `GPU_VIPER.py`, `GPUTLBConfig.py` | extends `RubyProtocols`, `Topologies` |
| `RubySystem` | `Ruby.py`, `Network.py`, the guest's files and the scripts' connections | extends `CHINodes`, `ViperSystem` |
| `MemInterleaving` | `config_mem`, `create_mem_intf`, `setup_memory_controllers`, `CHI_HNF.createAddrRanges` | |
| `SystemPorts` | `CacheConfig.py`, `HMC.py`, `arm/devices.py`, the x86 part of `FSConfig.py`, small scripts | operators |
| `Platforms` | Arm, SPARC and RISC-V full systems, `fs.py --dual`, `example/sst` | extends `SystemPorts` |
| `CacheTrees` | `memtest.py`, `memcheck.py` | extends `SystemPorts` |
| `MemorySystem` | a classic system, from the script to a request that crosses it | extends `MemInterleaving`, `CacheTrees`, `Platforms` |
| `*Proofs` | theorems about the module named (`MeshProofs`: `MeshTopology` and `MeshTraffic`; `MemoryProofs`: `MemInterleaving` and `MemorySystem`; `TestProofs`: `Fixtures` and `CheckpointTest`; `RubyProofs`: `RubySystem` and the protocols and topologies it extends), see [section 4](#4-proofs) | |

`MC*` modules give the constants their values.  The definitions called "faulty
variant" are what the code could have been by a plausible slip; `PROJECT.json`
pairs each with the property it violates when it takes the place of the
definition after it.

**Queens.** `opts` and `Argv` stand for the command line, `board`, `file`,
`bakdiag` and `fordiag` for the arrays of the same names, `rank` and the
current square for the stack of `find()`: one frame per rank, so that a
recursive call is `EnterRank` and a return `ReturnToCaller`.  `found` keeps the
boards counted; nothing that is printed is modelled.

**Simulation.** `pc` names the next call of the simulator; an action is that
call together with everything the script does up to the next one.
`CreateSystem` stands for the whole of `run()` up to `m5.instantiate`: groups,
limits (`CpuLimit` keeps the order of the assignments, the last one wins) and
the checkpoint restored.  `Switch`, `Warmup` and `Handover` are the one-time
switches; `Script*`, `Bench*` and `Repeat*` the three loops; `Finish` the report
and `--checkpoint-at-end`.  `exitcause` and `event` are different variables
because they are in the code.  An option that is only tested for truth is a
Boolean; `--fast-forward` and `--take-checkpoints` are also numbers, as 0
instructions are no limit of the CPU (`CpuLimit`) although the option was given
(`FastForwards`, `AtInstructionZero`).  The CPU types are three: `Atomic` and `Timing`, which need no caches,
and `O3`, which does.  `CheckpointService` is the abstract side: time, the
checkpoints written with their time and place, how many are wanted, and the
places not to be touched; `Simulation` maps its directory, counters and `pc` to
these, so that the refinement says at once that time does not run backwards,
that the quota holds and that a restored set is left alone.

**SimPoints.** Time is counted in instructions.  `stops` is
`simpoint_start_insts` of the running CPU.  Names of checkpoints are
compared as the code does, as strings: `Name` keeps the part that decides,
the digits of the index and the underscore.  The first run ends with `taken`,
then `Restore` begins a second run with any number.

**RunScripts.** As in `Simulation`, an action is a call of the simulator and the
code up to the next one.  `Boot`, `Region` and `CopyLogs` are the benchmark
scripts; `Benchmark` is the record of what sets them apart (the event that
begins the region, those that end it, whether statistics are read before the
cause is tested, what follows).  `since` is the tick of the last reset, `dumps`
the intervals dumped, `insts` the interval whose instructions are reported.
`Apu*` is the loop of `apu_se.py`, `FullSystemRun` with `Gpu*` and `ArmHandle`
those of `runfs.py` and of `run()` in `example/arm`.  `periods` is a history of
the calls.

**Fixtures.** A suite sets up its fixtures in its order; a step of `_setup` that
can fail, or during which another thread or the server can act, is an action.
`Enter` is the head of `setup()` under the lock, `Leave` and `Raise` the two ways
out.  `Rerun` starts a new process, also in the middle of a session: files
remain, `_setup_done` and locks do not, and `interrupted` remembers it; each
session builds or is told to skip it (`skip_build`), in which case `Build` marks
the target and leaves it as it is.  Any request of the server can fail; the
one for the time of its version is given up quietly when the server cannot be
reached, and raises when its answer cannot be read.  Times of files are counted in publications of
the server.

**CheckpointTest.** `pc` follows the test, and the child while the test waits in
`p.join()`.  `cpt` is what is in `test.cpt`, `exitcode` how the child ended.  The
guest is the tick at which it exits and whether it does so normally.

**RubyNetwork, MeshTopology, MeshTraffic.** While a network is planned,
controllers, routers and links are only added; it is built once every
controller hangs off one router and every router reaches every other, or given
up.  In `MeshTopology`, `pc` names the loop of `makeTopology`, `at` its
position; `Check` is the assertions, `Attach` one external link, `Join(d)` one
visit of the loop for direction `d`.  Once `built`, `MeshTraffic` computes the
routes the weights leave and lets packets occupy the buffers of links.

**RubySystem.** `todo` is the list of stages a script has left, in its own
order: `Script` (options and what the script refuses), `TLBs`
(`config_tlb_hierarchy`), `ConfigFilesystem`, `CreateSystem` (the protocol's
`create_system`, with the caches it registers), `MakeTopology`, `InitNetwork`,
`Connect` (every CPU, compute unit, command processor or tester to its port).
`Instantiate` is the end of a script whose system has controllers without message
buffers (`WithoutBuffers`); message buffers are not modelled otherwise.
The protocols, topologies and connections are operators on the record of
options: a controller keeps its type, version, sequencers, the CPU whose clock
it takes, its cluster, the bits that select an L2 bank and what is downstream.
`cntrls` keeps the order of `all_cntrls` and `ports` that of `_cpu_ports`, on
which the scripts rely.  A refused or impossible build sets `failed`.

**MemInterleaving.** `r` and `i` are the loop variables: `config_mem` loops over
the controllers of a range, the two others over the ranges of a controller.
`opts.driver` says whose loop it is.  An interface is its address range: start,
size, the bits of each mask and the number to match.  `mem_ctrls` grows by one
per iteration; `HookUp` and `Connect` are the loops after it.  Memory types keep
what decides the channel bits: class, mapping and the size of their buffer.

**MemorySystem.** A system is the set of the ports its script connects: from
which node to which, for which ranges, and whether it is the default.
`DrawTree` is the draw of `memtest.py --random`, `BuildSystem` the rest of the
script, `ConfigMem` a step of `MemInterleaving`, `MemoryConfigured` the
connection of its controllers.  In the system that is built, `Send` puts a
request on any requestor's port and `Forward` takes it one crossbar further;
caches, bridges and monitors are nodes with one way on.  `packet.path` is where it
has been.  One unit of addresses stands for 64 MB on x86 (640 kB and 1 MB are
kept apart as 1 and 2), for 16 MB in `Platforms`, for a quarter of a vault
in a memory cube, for a byte in `MemInterleaving`.

### What is assumed of the code outside the repository

* `m5.simulate(d)` returns exactly one exit event, at most `d` ticks later.  A
  negative number of ticks is an error.  Instruction limits of CPUs that are
  switched out do not count down, and fire once.
* `m5.checkpoint` and the switch of CPUs drain first, which may take up to
  `MaxDrain` ticks; exit events raised meanwhile are not returned.
* The guest raises finitely many exit events itself (`MaxGuest`).
* CPUs with coinciding simpoint stops return one event; a CPU that takes over
  counts its stops from there; a simpoint is restored on one class and
  measured on another, as `findCptDir` needs `testsys.switch_cpus`.
* A restored guest goes on at the tick of its checkpoint.
* An address range contains an address if it lies between its ends and bit k of
  the number to match is the parity of the address bits in mask k; a number that
  does not fit the masks is refused.  `AddrRange(start, end)` is half-open,
  as `FSConfig.py:407-413` uses it.
* A crossbar sends a request to the one port whose ranges contain its address,
  else to its default port; two answers, or none without a default, are fatal.
* The network routes along shortest paths, over a link of least weight where
  there is a choice, and a packet holds one buffer until the next is free.
* The runner gives each suite's setup to one thread and does not run a suite
  whose setup raised.

## 3. Runs

| run | bounds | what it shows |
|---|---|---|
| `queens` | boards up to 6, all options, illegal words | every board counted is a solution, exactly the solutions are found, or the first one, and the diagonals stay inside their arrays |
| `simulation` | 8 ticks, drains of 0 or 1, 2 guest events, some 360 command lines | hand-overs, CPU measured, schedule of checkpoints, end at `maxtick` but for what is simulated before it is looked at, the refinement of `CheckpointService`, termination |
| `simpoints` | 3 intervals of 0..4, and some beyond the end, length 2, warm-up 3, program of 8 | what is written, what is resumed, what is measured |
| `fixtures` | 3 suites, 3 targets, 2 sessions that build or not, 2 versions, 1 failure | locking, one set-up each, complete targets, no deadlock |
| `interrupted_download` | the same, without failures and publications | an incomplete file taken for current (section 5) |
| `mesh` | shapes up to six routers, 3 classes; packets on 2x2 meshes, without a bound on their number | shape of the mesh, refinement of `RubyNetwork`, no circular wait, the network empties |
| `checkpoint_test` | 3 checkpoints, intervals of 3 ticks, drains of 0 or 1, an exit at any tick or never | the chain of checkpoints, the verdict |
| `restored_until_exit` | the same | a last run that restores nothing (section 5) |
| `ruby` | 563 command lines: every protocol, every topology, 1 to 4 CPUs, the tests and the GPU | versions, ports, banks, directories, files and translations fit together; refinement of `RubyNetwork` |
| `chi_testers` | the testers on CHI | caches without an L2 below them (section 5) |
| `scripts` | 27 command lines, 5 guest events of any cause, drains of 0 or 1, limits of 5 ticks | what is reported is the region asked for; every request answered; every run ends |
| `memory` | more than 900 combinations of memories of up to 128 bytes, 1 to 4 controllers, DRAM, NVM and both, granules and ways to hash; some 300 systems of fifteen scripts | one owner for each address, undivided blocks, matching channels; every request reaches its memory or device through its own caches |

Bounds.  The loops of `run()` have a period, a limit and a number; with 8 ticks
and periods of 0 to 2 every order of these three happens, and two guest events
are what it takes to interrupt a period twice or an initial run and then a
period.  Six queens is the first size after 3 with a symmetric and sparse set
of solutions; the arrays of the C program are the size the constant gives, so
that the largest board uses their ends.  A warm-up of 3 with intervals of 2
makes the first two intervals share the start of the program, and the third
start between two intervals.  Two targets in opposite orders and a third are
what a deadlock over locks would need.  A circular wait needs four links; the
smallest mesh that has a cycle of them is 2x2, and there every load of its
buffers is reached.  Three checkpoints give a first, one that is restored and
overwritten, and a last.  Versions, ports and banks go wrong by a factor or an
offset: 1 to 4 CPUs, with fewer, as many and more caches, directories and
clusters than CPUs, make products and sums differ.  Five guest events are a
whole region with one event nobody asked for in it.  Which controller owns an
address is decided by at most two bits and two they are hashed with, anywhere
in the address; a memory is aligned to them, is not, or is smaller than what
they span.  Where a request goes changes only at the ends of ranges, so it is
sent to the first and the last unit of each range, and next to them.

Fairness.  `run()` and the scripts of `RunScripts` are sequential programs:
weak fairness of `Next` says that they go on while they can, and that the
simulator returns.  In `MemorySystem` it says that a port passes on what it was
given.  In `Fixtures` each suite has a thread, hence weak fairness for each
suite, not for publications or new sessions; a lock is only ever waited for
until its holder leaves, so that nothing stronger is needed.  In `MeshTraffic`
the routers go on while any packet can move, but no controller has to send or
to stop sending; that suffices as arrival is only promised once the controllers
have stopped.  The other modules have safety properties only and assume no
fairness.

Every run says `CHECK_DEADLOCK FALSE`, as every program here ends: it has
nothing left to do when its script is over, the board is searched, or the
network empty.  What must not stop early is a liveness property.

Abstract specifications.  `CheckpointService` is what a user of `run()` relies
on; `Simulation` implements it under the mapping at the end of that module.
`RubyNetwork` is what `Ruby.py` relies on when it calls a topology: the three
mesh classes implement it step by step (`MeshTopology`), and so does the build
of every Ruby system with any of the topologies (`RubySystem`).  TLC checks the
three refinements, and all three are proved (section 4).

## 4. Proofs

TLAPS proves the following for every value of the constants, from the named
assumptions of the modules only.  Each inductive invariant was first checked by
TLC on the instances above.

* `QueensProofs`: `TypeCorrect`, `CountedPeaceful`, `PointersInBounds`,
  `CountedExactly`.  The types alone do not say that the marks in the three
  arrays are those of the queens placed.  The inductive invariant does: for every
  rank below the current one the three entries of its queen are at most that
  rank, and for every free entry the mark is higher than any queen's rank.  From
  it a new queen attacks none before, and a removed one leaves its marks beyond
  the rank.  For `CountedExactly`, `CountedOK` says that the boards found are the
  solutions that are behind the board of the moment, in the order in which
  `find()` moves the queens; two boards are compared at the first rank at which
  they differ.  A square that is skipped is behind no solution, because one of
  its lines is held by a queen that stays.
* `SimulationProofs`: `TypeCorrect`, `LegalHandovers`, `RequestedCpu`,
  `CheckpointsOnSchedule`.  `IInv` says for each `pc` which group runs, which
  the list of pairs holds, and how `simticks` and `count` relate: in the
  periodic loop, `simticks` is the tick at which checkpoint `count` was due.  The
  schedule follows since a period ends at a `limit` event, `drained` grows by
  what draining takes, and `dropped` keeps both.
  For `StopsInTime`, `LimitOK` adds how far from the last tick each call is made: a
  period, or a round of `repeatSwitch` after the first, only begins where it fits,
  and what interrupts it leaves `simticks` where it was, so that only the time spent
  draining can be lost.  The last tick (`LastTick`) is `maxtick`, or the end of what
  is simulated before `maxtick` is looked at: the ticks before a hand-over
  (`Simulation.py:670`) and the first round of `repeatSwitch` (l.410), from the tick
  the run starts or restores at.  Phases counted in instructions alone do not heed
  `maxtick` at all, and `Bounded` leaves them out.
  For `ServiceProvided`, the refinement of `CheckpointService`, `QuotaOK` adds
  to `IInv` how many checkpoints may still be written at each `pc`, and that the
  directory of the set restored is not written to, unless checkpoints are asked for
  at instruction 0 (section 5); with it each action is a step
  of `CheckpointService` or leaves its variables alone.
* `SimPointsProofs`: `CheckpointsAtStart`, `IntervalMeasured`, `NumberedInOrder`.
  The sort is a permutation since no two positions share a place, so that every
  place is taken.  `StopsOK` then says that the stops left are the starts of the
  simpoints left, but for the start at which the program stands, which the next
  ones may share; `WrittenOK` that the directory holds the records of the
  simpoints done; `ResumeOK` where the second run is and when it stops next.
  That a number selects one checkpoint follows from names being in a strict order.
  `NumberedInOrder` supposes that no analysis has more than 100 simpoints: names
  are then in the order of their indices, and beyond that they are not
  (section 5).
* `RunScriptsProofs`: `TypeCorrect`, `RegionReported`, `ApuWithinLimit`,
  `SwitchesMeasured`, `CheckpointsAnswered`.  `Apart` says that a script only
  reaches the steps of its own kind; `Measured`, for each step of a benchmark
  script, which calls were made, which CPU made the last one, and how the tick of
  the last reset and the intervals dumped relate to them.  The report follows
  because between the two events that bound the region nothing but the reset, the
  switch and one call comes.  `Switching` and `Answering` relate what was
  dumped, or written, to the history of calls by the rank of a call among those
  of its kind: a call that is handled adds the next rank and disturbs no other.
* `TestProofs`, on the fixtures: `UsedAfterSetup`, `SetUpOnce`, `UsableFiles`.
  `IInv` says that a suite inside `_setup` holds the lock of its target, that the
  target was marked before, and that a suite is past only targets that are marked
  and free.  `FilesOK` adds the files, as long as nothing has failed and no session
  been interrupted: a target that nobody is setting up has a whole file or none, one
  that is marked is usable (whole and unpacked, or a binary that was not to be
  built), and what is being set up is where its holder has got to.
* `TestProofs`, on the checkpoint test: `RightVerdict`, `ChainContinues`.
  `TestInv` says what each exit code tells the parent about the guest and the
  disk, and that between two children the checkpoint is whole and is where the
  chain has got to.
* `MeshProofs`, for every number of rows and columns, every list of controllers
  and the three classes: `MeshBuilt`, `NetworkBuilt`, `NoDeadlock`.  `MeshInv`
  gives, for each loop and position, the links there are: one for each place
  visited that has a neighbour, no other, no two between the same routers, and
  identifiers below the counter.  The mesh and the refinement of `RubyNetwork`
  follow at `built`; that the routers are connected, because the set of routers
  within n hops satisfies the equation of `Within`.  For `NoDeadlock`, a shortest
  path only takes directions towards its end, and of those one of least weight.
  `RankOf` orders the links: those to the West, then column by column those to
  the North and South, and those to the East that leave the column.  Every packet goes on over a link of
  higher rank, and among packets that all wait for each other the one on the
  highest link would have to wait for a higher one.
* `MemoryProofs`, for every list of memory ranges and every number of channels:
  `SameChannel`, `UniqueOwner`, `WholeBlocks`.  `PlacesInv` says which channels of
  which ranges the loops have been through, that each of them has its interface
  in exactly one place (a controller's DRAM, its NVM, or the list of those that
  wait for a channel to share), and that the interfaces of either kind count the
  channels modulo their number; "hook up" pairs them by position.  The number
  of channels is a power of two, as `config_mem` refuses others and an interface
  whose number does not fit its bits is not created; any combination of bits is
  then that of one channel, so an address selects exactly one, hashed or not.
  `WholeBlocks` supposes `BlocksFit`: a cache line is a power of two, and where
  channels are selected above the columns (`RoRaBaChCo`) the memory's buffer
  holds a block.  `create_mem_intf` takes this for granted; TLC finds it true of
  every command line of the `memory` run.
* `MemoryProofs`, for every system: `GuestMap`, `NumTestersRight`.  `SystemOK`
  says that the ports of a running tree are those its script made from a
  specification it accepts, that the ranges of an x86 guest are those of its
  memory, and that its bridge is entered by one port.  Below 4 GB the entries of the E820 table and the
  ranges of the bridge are compared case by case, for any size of memory.  For
  the trees, both `NumTesters` and `Subsystems` are recursive functions:
  `Recursion` shows that there is such a function over an interval, and then the
  subsystems of a level are numbered without gaps, each has as many testers as
  the specification says, and the layers, being disjoint, add up.

* `RubyProofs`, for every command line, protocol, topology and size:
  `VersionsNumberNodesHolds`, `BanksOfOwnClusterHolds`, `ReachesMemoryHolds`,
  `TranslationsHaveAPortHolds`, `PortsServeTheirUsersHolds`,
  `FilesTellCachesHolds`, `BuildsNetworkHolds`.  The actions are few and each
  runs once; what they make is large.  `RubyInv` therefore says what each stage
  that is done has left (`MadeSystem`, `MadeNetwork`, `MadeLinks`, `MadeTLBs`,
  `MadeFiles`), from the stages that are not done (`Rests`).  It is needed
  because a property compares things made at different times: the links of the
  last stage with the controllers of an earlier one, the files with both.  The
  rest is about the operators.  `Made` says that the controllers so far are
  numbered, by type and by sequencer; a protocol adds them in blocks, and
  `MadeBlock` is the one step: a block whose numbers start where the ones before
  it end keeps `Made` and adds its length.  `BanksFill`, `CHIMade`,
  `ViperSystemMade`, `FlatMade` and `ViperPorts` then say what each kind of
  protocol's controllers and ports are, with their numbers as arithmetic in the
  options (`GpuIdx`, `SqcIdx`, ...); the scripts' indices from the end of
  `_cpu_ports` turn out to be those.  Numbers of groups are quotients, so `Begun`
  is shown to be one, and that two units share a cache exactly if their quotients
  agree follows from `DivisionUnique`.  The sequencers behind ports with message
  buffers (`Buffered`) are those below the command processors' and the second of each
  three of those.  For the network, a topology is complete
  if every controller hangs off one router (`Hangs`) and the routers are joined
  (`Joins`): a router that all others are joined to is enough (`HubJoins`:
  crossbars, point to point, clusters), and so is an earlier router for each
  (`TreeJoins`: the mesh, whose new routers come after those of the grid).  No
  two controllers have the same type and version, so they are as distinct in the
  abstract network, which knows them by these, as in the sequence.

The assumptions on the constants (`ASSUME`, evaluated by TLC in the runs) are
those of the code's callers: `RangesAssumption` says that memory ranges do not
overlap and numbers fit the address; `CubeAssumption`, that a memory cube is
configured as `hmctest.py` does; `SystemAssumption` and `CommandsAssumption`, that
command lines have the types of the options, and that the tutorials are the scripts
of MSI and the GPU's scripts those of VIPER, which import no other protocol;
`MeshAssumption`, that the mesh given to `CustomMesh` has rows and columns and
binds every class of nodes to a list, not empty, of routers that it has, as the
configuration file for CHI does.

Beyond the reach of the prover are library theorems with an operator as
a parameter, among them the induction schemes.  Induction over numbers
is done with a least counterexample instead (`LeastNumber`), and recursive
functions by `Recursion`; operators defined by the folds or `SelectSeq` of the
community modules stay opaque.  (A word on notation: TLC reads `UNION A \cup B` as
a union of two sets, the prover as one of a larger set, so the modules write
parentheses wherever the two meet.)

Only model-checked:

* liveness under fairness: `Terminates`, `EverySuiteSettles`,
  `EveryPacketArrives`, `EveryRunEnds`, `EveryRequestServed`.

Every other property of a passing run is a theorem.

## 5. Where text and code part

Three runs end with a counterexample; `PROJECT.json` quotes text and code
under "findings":

* `interrupted_download`: a download that was interrupted is taken for current
  ever after (`fixture.py:332`).
* `restored_until_exit`: the last run of the checkpoint test does not restore the
  checkpoint but starts from scratch (`checkpoint.py:129`).
* `chi_testers`: with the random testers, only the last request node of a CHI
  system gets its private L2 connected (`CHI_config.py:472`).

Met on the way and not given runs of their own.  In `Simulation.py` and the
scripts that call the simulator:

* l.255, 703-705: a checkpoint instruction that is skipped leaves `exit_cause` at
  what it was, so the periodic checkpoints stop.
* l.667: an exit event of the guest ends a fast forward before its number of
  instructions, as the event is not examined.
* l.273: `--max-checkpoints 0` does not mean none, as the count is compared
  after it is incremented.
* l.232, 663, 667, 670: only the last phase of a run heeds `--abs-max-tick`; the 10000
  ticks before a hand-over are simulated even if fewer are left.
* l.410, 723: a run restored less than a period of `--repeat-switch` before
  `--abs-max-tick` ("Run to absolute simulated tick specified including ticks from a
  restored checkpoint", `Options.py:161-163`) passes it by up to a period: the first
  period is simulated before anything is compared, and the period was compared with
  `maxtick`, not with what is left of it.  `StopsAtMaxtick` has this bound.
* l.602, 693, 701, 731: `--at-instruction --take-checkpoints 0` with
  `--checkpoint-restore` takes checkpoints (l.701 asks for None) but leaves the
  directory as it is (l.693 asks for truth, of what l.602 made a number), so that
  `--checkpoint-at-end` writes among the checkpoints restored from, against the
  comment of l.689-692.  `ProvidesService` excepts this option (`AtInstructionZero`).
* l.158, `Options.py:349`: beyond 100 simpoints the N-th name in string order is not
  the N-th simpoint (l.192 sorts the others by number).
* l.221: with `--at-instruction`, `--fast-forward` and `--maxinsts` the checkpoint
  named after its count is written when the other limit is reached.
* The SPEC 2006 script overwrites `end_tick` after it has copied the logs; the NPB
  script says it finishes the execution, and ends.
* Where `processor.switch()` follows the reset of the statistics, its drain is
  counted in the time of the region.
* `runfs.py` hands `--abs-max-tick` to `simulate()` as a number of ticks, although
  `Options.py:161-163` calls it absolute; its loop (l.108-120) never simulates again,
  so an event it does not know is reported for ever.
* `apu_se.py` with fast forward shows the guest twice the CPUs.
* `boot_kvm_fork_run.py`: a child that fails is waited for and its status printed;
  the test passes all the same.
* `fixture.py:332`: a version published between the request and the end of the
  writing is never fetched, because the file is newer, though l.262-263 says that an
  updated version is downloaded if it is needed.
* `fixture.py:190`: each target is built by an SCons command of its own, not by
  the single one the class describes (l.135-137).

In the Ruby configurations:

* `Ruby.py:103, 116`: the help of `--numa-high-bit` (l.78-79) gives 0 a meaning of
  its own, the code takes it for not given; with the default `--xor-low-bit` of 20
  and a numa bit above it `block_size_bytes` exceeds the hashing bits, so that a
  block is divided between directories (`BlocksUndivided` excludes this).
* `GPU_VIPER.py:403-418`: with `--numa-high-bit`, `dir_bits` is used without having
  been assigned; l.858 asks a list for an attribute; an odd number of CPUs leaves
  half a core pair.
* `GPU_VIPER.py:662-670`: the SQCs of command processors are not given the message
  buffers of the others (l.570-579), so that the instruction ports of
  `apu_se.py:643-644` lead nowhere and no system with `--num-cp` can be instantiated
  (`Instantiate`).  `PortsServeTheirUsers` excepts these ports (`CommandInstructions`).
* `MOESI_AMD_Base.py:207`: `create_system` takes six parameters, `Ruby.py` passes
  seven.
* `MeshDirCorners_XY.py:215` and `CustomMesh.py:318` use names nobody defined;
  `MeshDirCorners_XY.py:140` numbers a link as l.85 did.
* `MESI_Three_Level.py:113` gives the caches of cluster `i` the clock of CPU `i`.
* `FileSystemConfig.py:215` means size / (associativity * line size) and multiplies
  by the line size.
* A GPU of one unit with the TLB configuration for two divides by zero; numbers of
  banks that are not powers of two leave banks unused.
* `arm/devices.py:408-410`: the index of the port starts again with each cluster.

In the memories and the classic systems:

* `MemConfig.py:167` imports `fatal` inside the function, so the call at l.124 raises
  `UnboundLocalError`.
* `devices.py:178-192`: `AtomicCluster` and `KvmCluster` pass five classes where
  `CpuCluster` takes four, so `fs_bigLITTLE.py` fails with either.
* `HMC.py` writes its ranges with their last byte, so that each vault and link
  lacks it; crossbars that divide memory otherwise than vaults do stop the
  script.  The ranges of the x86 APIC and the SPARC bridge are written likewise.
* `hmc_hello.py --arch same` has no bus to connect to.
* `memtest.py` and `memcheck.py` scale their prototypes by the specification read from
  the memory's end.
* `FSConfig.py` says "last 16kB" where it maps 64 kB; `makeArmSystem` lets only the
  system port get to external memory, says its comment, and `config_mem` puts that
  memory on the bus all the same.
* `fs.py --dual` works for Arm only: `makeDualRoot` refuses x86 and SPARC, and for
  RISC-V `build_drive_system` uses a variable it has not assigned.
* The SST bridge for Arm carries 16 GiB above 0x80000000 and no more.
* `read_config.py` sorts objects that Python 3 cannot compare; `splash2/cluster.py`
  hands a float to `range`; `se.py:143` evaluates a string with an unbalanced
  bracket.

## 6. Not modelled

* Partly: `MakeFixture`, `TestProgram` and `TempdirFixture` (directories of their own,
  nothing shared); `registerTopology` of the meshes and the text of the guest's files;
  the MIPS machine (its bridge is given no ranges), device trees, disks and kernel
  command lines; sizes, latencies and all parameters that are handed to the
  simulator unread; `hmc_hello.py`; `MOESI_AMD_Base` beyond the failure of its call;
  the assertion in `MOESI_hammer.py:144-148` that a NUMA bit lies above the index of
  the probe filter, which depends on the sizes of caches.
* `read_config.py` cannot run (above), nor `splash2/cluster.py`.
* `switcheroo.py` switches CPUs in turn, as `apu_se.py` does in `RunScripts`; the
  children of `boot_kvm_fork_run.py` decide nothing.
* Tables of classes and their parameters (`ObjectList.py`, `cores/`, `cpu2000.py`),
  memory sweeps, test suites, verifiers and test configurations: lists and
  comparisons of text.
* `threads.cpp` and the matrix product: arithmetic on disjoint data.
* Coherence protocols, predictors, the simulator and the test runner are not in
  the repository; containers and shell scripts have no state beyond files.

`PROJECT.json` lists every component with its status and the reason.  What would come
next: a model of `read_config.py`, should it be made to run again.
