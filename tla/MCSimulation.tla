---------------------------- MODULE MCSimulation ----------------------------
EXTENDS Simulation, TLC

Defaults ==
  [cpu_type |-> "Timing", restore_with_cpu |-> "Atomic", caches |-> TRUE,
   checkpoint_dir |-> FALSE, fast_forward |-> None, maxinsts |-> FALSE,
   warmup_insts |-> FALSE, checkpoint_restore |-> None,
   standard_switch |-> 0, repeat_switch |-> 0, take_checkpoints |-> <<>>,
   at_instruction |-> FALSE, simpoint |-> "off", max_checkpoints |-> 2,
   checkpoint_at_end |-> FALSE, initialize_only |-> FALSE,
   abs_max_tick |-> MaxTick, rel_max_tick |-> 0]

\* A partial command line gives some options; <<>> gives none.  Every way
\* to start is combined with every limit and every kind of work; Odd holds
\* the combinations that are refused or that only make sense alone.
With(S, T) == {s @@ t : s \in S, t \in T}

Start == {<<>>} \cup
  [fast_forward : {1}] \cup
  [checkpoint_restore : {1, 2}, checkpoint_dir : BOOLEAN] \cup
  [checkpoint_restore : {1}, restore_with_cpu : {"Timing"}]

Length == {<<>>} \cup [abs_max_tick : {3, 5}] \cup [rel_max_tick : {3}]

Work == {<<>>} \cup [maxinsts : {TRUE}] \cup
  [take_checkpoints : {<<1, 2>>, <<3, 1>>, <<2, 0>>}, max_checkpoints : {1, 3}] \cup
  [repeat_switch : {1, 2}] \cup
  [standard_switch : {2}, warmup_insts : BOOLEAN]

\* --take-checkpoints 0 on a run restored at an instruction.
RestoredAtZero ==
  [take_checkpoints : {<<0, 0>>}, at_instruction : {TRUE},
   checkpoint_restore : {1}, checkpoint_dir : {TRUE}, checkpoint_at_end : BOOLEAN]

\* A period shorter than --abs-max-tick, longer than what is left of it.
RestoredPeriods ==
  [checkpoint_restore : {1}, restore_with_cpu : {"Timing"},
   repeat_switch : {2, 3}, abs_max_tick : {3, 5}]

Odd == RestoredAtZero \cup RestoredPeriods \cup
  [checkpoint_restore : {0}] \cup [max_checkpoints : {0}] \cup
  [initialize_only : {TRUE}] \cup
  [cpu_type : {"O3"}, caches : {FALSE}] \cup
  [standard_switch : {1}, caches : {FALSE}] \cup
  [standard_switch : {1}, repeat_switch : {1}] \cup
  [repeat_switch : {1}, take_checkpoints : {<<1, 1>>}] \cup
  [take_checkpoints : {<<1, 0>>}, at_instruction : {TRUE}, checkpoint_restore : {None, 1}] \cup
  [take_checkpoints : {<<1, 0>>}, simpoint : {"missing", "found"}] \cup
  [take_checkpoints : {<<1, 0>>}, at_instruction : {TRUE},
   fast_forward : {1}, maxinsts : {TRUE}] \cup
  [fast_forward : {0}, checkpoint_restore : {None, 1}] \cup
  [checkpoint_at_end : {TRUE}, take_checkpoints : {<<>>, <<1, 1>>}] \cup
  [standard_switch : {1}, simpoint : {"missing", "found"}]

MCOptions == {l @@ Defaults : l \in With(With(Start, Length), Work) \cup Odd}

MCArchives == {{}, {2}, {1, 4}}
=============================================================================
