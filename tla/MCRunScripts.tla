---------------------------- MODULE MCRunScripts ----------------------------
(* Every script with and without its options; five guest events.           *)
EXTENDS RunScripts, TLC

Defaults == [ticks |-> None, restored |-> 0, fast_forward |-> "none",
             checkpoint_dir |-> FALSE]

With(S) == {s @@ Defaults : s \in S}

GpuScripts ==
  With([kind : {"gpufs"}, ticks : {None, 2}, restored : {0, 1},
        checkpoint_dir : BOOLEAN])

AllScripts ==
  With([kind : Regions \cup {"riscv_ubuntu"}])
    \cup With([kind : {"npb"}, ticks : {0, 2}])
    \cup With([kind : {"apu_se"}, ticks : {None, 3},
               fast_forward : {"none", "insts", "pseudo_op", "both"}])
    \cup With([kind : {"apu_se"}, checkpoint_dir : {TRUE}])
    \cup With([kind : {"arm"}, restored : {0, 1}])
    \cup GpuScripts
=============================================================================
