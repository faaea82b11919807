----------------------------- MODULE Gem5Engine -----------------------------
(***************************************************************************)
(* The simulator the configuration scripts drive, as they use it: m5 is    *)
(* not part of the repository, so this module states what the scripts rely *)
(* on.  m5.simulate(d) runs the guest for at most d ticks and returns one  *)
(* exit event: the limit was reached, the guest executed a checkpoint or   *)
(* an exit instruction, or a CPU reached its instruction limit.            *)
(* m5.checkpoint and m5.switchCpus drain the system first, which may take  *)
(* simulated time.                                                         *)
(***************************************************************************)
EXTENDS Integers, Sequences

CONSTANTS
  MaxTick,     \* m5.MaxTick: simulate() without an argument runs up to here
  MaxDrain,    \* longest drain, in ticks
  MaxGuest     \* exit events the guest raises itself, at most

ASSUME EngineAssumption ==
  /\ MaxTick \in Nat \ {0}
  /\ MaxDrain \in Nat
  /\ MaxGuest \in Nat

\* The groups of CPUs the driver creates, one CPU of each group per core.
Groups == {"cpu", "switch_cpus", "switch_cpus_1", "repeat_switch_cpus"}

\* What an instruction limit (max_insts_any_thread) stands for.
Limits == {"none", "one", "fast_forward", "simpoint", "warmup", "checkpoint",
           "maxinsts"}

Causes == {"none", "limit", "checkpoint", "exit", "maxinsts"}

\* Where checkpoints are written: --checkpoint-dir or m5.options.outdir.
Dirs == {"checkpoint_dir", "outdir"}

VARIABLES
  curTick,     \* m5.curTick()
  event,       \* the last exit event: its cause, and the limit reached
  active,      \* groups that are not switched out
  limit,       \* per group, its pending instruction limit
  guest,       \* exit events the guest may still raise
  drained,     \* history: ticks spent draining
  dropped      \* history: the checkpoints written, in order

engine == <<curTick, event, active, limit, guest, drained, dropped>>

EngineTypeOK ==
  /\ curTick \in 0 .. MaxTick
  /\ event \in [cause : Causes, limit : Limits]
  /\ active \subseteq Groups
  /\ limit \in [Groups -> Limits]
  /\ guest \in 0 .. MaxGuest
  /\ drained \in Nat
  /\ dropped \in Seq([tick : 0 .. MaxTick, drained : Nat, dir : Dirs,
                      limit : Limits])

Event(c, l) == [cause |-> c, limit |-> l]
NoEvent     == Event("none", "none")

\* simulate(d), 0 <= d.
Simulate(d) ==
  LET end == IF curTick + d < MaxTick THEN curTick + d ELSE MaxTick
  IN  /\ UNCHANGED <<active, drained, dropped>>
      /\ \/ /\ curTick' = end
            /\ event' = Event("limit", "none")
            /\ UNCHANGED <<limit, guest>>
         \/ /\ guest > 0
            /\ curTick' \in curTick .. end
            /\ \E c \in {"checkpoint", "exit"} : event' = Event(c, "none")
            /\ guest' = guest - 1
            /\ UNCHANGED limit
         \/ \E g \in active :
            /\ limit[g] # "none"
            /\ curTick' \in curTick .. end
            /\ event' = Event("maxinsts", limit[g])
            /\ limit' = [limit EXCEPT ![g] = "none"]
            /\ UNCHANGED guest

\* Events raised while draining are not returned to the script.
Drain ==
  \E t \in 0 .. MaxDrain :
    /\ curTick + t <= MaxTick
    /\ curTick' = curTick + t
    /\ drained' = drained + t

Checkpoint(dir) ==
  /\ Drain
  /\ dropped' = Append(dropped, [tick |-> curTick', drained |-> drained',
                                 dir |-> dir, limit |-> event.limit])
  /\ UNCHANGED <<event, active, limit, guest>>

\* switchCpus raises a RuntimeError unless old runs and new is switched out.
MaySwitch(old, new) == old \in active /\ new \notin active

SwitchCpus(old, new) ==
  /\ Drain
  /\ active' = (active \ {old}) \cup {new}
  /\ UNCHANGED <<event, limit, guest, dropped>>
=============================================================================
