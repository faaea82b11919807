----------------------------- MODULE RunScripts -----------------------------
(***************************************************************************)
(* The scripts that call m5.simulate themselves instead of going through   *)
(* common/Simulation.py: the benchmarks of example/gem5_library, which     *)
(* measure a region of interest; example/apu_se.py, which changes CPUs as  *)
(* the guest asks; example/gpufs/runfs.py; and run() of example/arm.  Each *)
(* action is one call of the simulator and the code up to the next call.   *)
(***************************************************************************)
EXTENDS Integers, Sequences, FiniteSets

CONSTANTS
  Scripts,     \* command lines: records, see ScriptTypes
  MaxTick,     \* m5.MaxTick: simulate() without an argument runs up to here
  MaxDrain,    \* longest drain, in ticks
  MaxGuest     \* exit events the guest raises, at most

None == -1

Kinds == {"parsec", "npb", "gapbs", "spec2006", "spec2017", "riscv_ubuntu",
          "apu_se", "gpufs", "arm"}

\* ticks is --ticks of NPB and --abs-max-tick; restored is the tick of the
\* checkpoint the system starts from, 0 without one.
ScriptTypes ==
  [kind : Kinds, ticks : Nat \cup {None}, restored : Nat,
   fast_forward : {"none", "insts", "pseudo_op", "both"},
   checkpoint_dir : BOOLEAN]

ASSUME RunScriptsAssumption ==
  /\ Scripts \subseteq ScriptTypes
  /\ MaxTick \in Nat /\ MaxDrain \in Nat /\ MaxGuest \in Nat
  /\ \A s \in Scripts : s.restored <= MaxTick

\* What getCause() may say; "other" is any cause no script knows.
GuestCauses == {"workbegin", "workend", "m5_exit", "switchcpu", "checkpoint",
                "user_interrupt", "other"}
Causes == GuestCauses \cup {"none", "limit", "max_insts"}

VARIABLES
  script,
  pc,          \* the next call, or how the script ended
  curTick,
  guest,       \* exit events the guest may still raise
  cpu,         \* the CPUs that run: KVM or the detailed ones
  exit,        \* cause of the last exit event
  since,       \* tick of the last m5.stats.reset()
  dumps,       \* what each m5.stats.dump() covers
  start_tick, end_tick,
  insts,       \* the interval the instructions of the report were counted in
  cpts,        \* the checkpoints written: the tick in the name, the real one
  said,        \* "Continuing..." has been printed
  periods      \* history: the calls of m5.simulate, in order

vars == <<script, pc, curTick, guest, cpu, exit, since, dumps, start_tick,
          end_tick, insts, cpts, said, periods>>

Interval(from, to) == [from |-> from, to |-> to]
Final == {"done", "failed"}

-----------------------------------------------------------------------------
(* The simulator.                                                          *)

Least(a, b) == IF a < b THEN a ELSE b

\* simulate(d): the limit, an event of the guest, or the instruction limit
\* that fast forwarding gave the KVM CPUs.
Exits(d) ==
  LET end == Least(curTick + d, MaxTick)
      In(S, ticks, left) == [cause : S, tick : ticks, guest : {left}]
  IN  In({"limit"}, {end}, guest)
      \cup (IF guest = 0 THEN {} ELSE In(GuestCauses, curTick .. end, guest - 1))
      \cup (IF script.fast_forward = "insts" /\ cpu = "kvm"
            THEN In({"max_insts"}, curTick .. end, guest) ELSE {})

Simulated(e) ==
  /\ exit' = e.cause /\ guest' = e.guest
  /\ periods' = Append(periods, [from |-> curTick, to |-> e.tick, cpu |-> cpu,
                                 cause |-> e.cause])

\* Switching CPUs and writing a checkpoint drain the system first.
Drained(t) == t .. Least(t + MaxDrain, MaxTick)

-----------------------------------------------------------------------------
(* The benchmark scripts, by what sets them apart: the cause that begins   *)
(* the region, those that end it, whether the statistics are read before   *)
(* the cause is tested, what follows the region and whether end_tick is    *)
(* set again by it.                                                        *)

Work(ends) == [begin |-> "workbegin", ends |-> ends, reads_first |-> FALSE,
               logs |-> FALSE, sets_end |-> FALSE]
Spec_CPU   == [begin |-> "m5_exit", ends |-> {"m5_exit"}, reads_first |-> TRUE,
               logs |-> TRUE, sets_end |-> FALSE]

Parsec   == Work({"workend"})
Gapbs    == Work({"workend"})
Npb      == Work({"workend"} \cup IF script.ticks # None THEN {"limit"} ELSE {})
Spec2006 == [Spec_CPU EXCEPT !.sets_end = TRUE]
Spec2017 == Spec_CPU

Regions == {"parsec", "npb", "gapbs", "spec2006", "spec2017"}
Benchmark ==
  CASE script.kind = "parsec"   -> Parsec
    [] script.kind = "npb"      -> Npb
    [] script.kind = "gapbs"    -> Gapbs
    [] script.kind = "spec2006" -> Spec2006
    [] script.kind = "spec2017" -> Spec2017

\* --ticks 0 is no limit.
RegionTicks == IF script.kind = "npb" /\ script.ticks > 0 THEN script.ticks
                                                          ELSE MaxTick

Fail(e) == /\ curTick' = e.tick /\ pc' = "failed"
           /\ UNCHANGED <<script, cpu, since, dumps, start_tick, end_tick,
                          cpts, said>>

\* Booting, until the region of interest begins.
Boot ==
  /\ pc = "boot" /\ script.kind \in Regions
  /\ \E e \in Exits(MaxTick) :
       /\ Simulated(e) /\ UNCHANGED insts
       /\ \/ /\ e.cause = Benchmark.begin
             /\ since' = e.tick /\ start_tick' = e.tick
             /\ curTick' \in Drained(e.tick)                \* processor.switch()
             /\ cpu' = "timing" /\ pc' = "region"
             /\ UNCHANGED <<script, dumps, end_tick, cpts, said>>
          \/ /\ e.cause # Benchmark.begin
             /\ Fail(e)

\* The region: the statistics are dumped and the time is taken at its end.
\* The SPEC scripts reset the statistics again before the logs are copied.
RegionReadLate ==                                           \* faulty variant
  /\ pc = "region"
  /\ \E e \in Exits(RegionTicks) :
       /\ Simulated(e)
       /\ \/ /\ e.cause \in Benchmark.ends
             /\ dumps' = Append(dumps, Interval(since, e.tick))
             /\ since' = IF Benchmark.logs THEN e.tick ELSE since
             /\ insts' = Interval(since', e.tick)
             /\ end_tick' = e.tick /\ curTick' = e.tick
             /\ pc' = IF Benchmark.logs THEN "logs" ELSE "done"
             /\ UNCHANGED <<script, cpu, start_tick, cpts, said>>
          \/ /\ e.cause \notin Benchmark.ends
             /\ UNCHANGED insts
             /\ Fail(e)
Region ==
  /\ pc = "region"
  /\ \E e \in Exits(RegionTicks) :
       /\ Simulated(e)
       /\ \/ /\ e.cause \in Benchmark.ends
             /\ insts' = Interval(since, e.tick)
             /\ dumps' = Append(dumps, Interval(since, e.tick))
             /\ since' = IF Benchmark.logs THEN e.tick ELSE since
             /\ end_tick' = e.tick /\ curTick' = e.tick
             /\ pc' = IF Benchmark.logs THEN "logs" ELSE "done"
             /\ UNCHANGED <<script, cpu, start_tick, cpts, said>>
          \/ /\ e.cause \notin Benchmark.ends
             /\ insts' = IF Benchmark.reads_first THEN Interval(since, e.tick)
                                                  ELSE insts
             /\ Fail(e)

\* The guest copies the logs of SPEC, which the script waits for.
CopyLogs ==
  /\ pc = "logs"
  /\ \E e \in Exits(MaxTick) :
       /\ Simulated(e) /\ UNCHANGED insts
       /\ \/ /\ e.cause = "m5_exit" /\ Benchmark.sets_end
             /\ dumps' = Append(dumps, Interval(since, e.tick))
             /\ since' = e.tick /\ end_tick' = e.tick
             /\ curTick' = e.tick /\ pc' = "done"
             /\ UNCHANGED <<script, cpu, start_tick, cpts, said>>
          \/ /\ e.cause = "m5_exit" /\ ~Benchmark.sets_end
             /\ curTick' = e.tick /\ pc' = "done"
             /\ UNCHANGED <<script, cpu, since, dumps, start_tick, end_tick,
                            cpts, said>>
          \/ /\ e.cause # "m5_exit"
             /\ Fail(e)

\* riscv-ubuntu-run.py: only whether the system boots.
BootUbuntu ==
  /\ pc = "boot" /\ script.kind = "riscv_ubuntu"
  /\ \E e \in Exits(MaxTick) :
       /\ Simulated(e)
       /\ curTick' = e.tick
       /\ pc' = IF e.cause = "m5_exit" THEN "done" ELSE "failed"
  /\ UNCHANGED <<script, cpu, since, dumps, start_tick, end_tick, insts, cpts,
                 said>>

-----------------------------------------------------------------------------
(* apu_se.py: KVM CPUs fast forward to an instruction count, or change     *)
(* places with the detailed ones each time the guest asks.                 *)

Unchecked == UNCHANGED <<script, curTick, guest, cpu, exit, since, dumps,
                         start_tick, end_tick, insts, cpts, said, periods>>
ApuCheck ==
  /\ pc = "check"
  /\ pc' = IF script.fast_forward = "both" \/ script.checkpoint_dir
             THEN "failed" ELSE "simulate"
  /\ Unchecked

\* maxtick - m5.curTick(): the first call is at tick 0.
ApuMaxTick == IF script.ticks > 0 THEN script.ticks ELSE MaxTick
ApuTicksAnew == ApuMaxTick                                  \* faulty variant
ApuTicks     == ApuMaxTick - curTick

\* A negative number of ticks is no argument: the script dies.
ApuSimulate ==
  /\ pc \in {"simulate", "simulate_last"}
  /\ \/ /\ ApuTicks < 0
        /\ pc' = "failed"
        /\ Unchecked
     \/ \E e \in Exits(ApuTicks) :
        /\ ApuTicks >= 0
        /\ Simulated(e)
        /\ curTick' = e.tick
        /\ pc' = IF pc = "simulate" THEN "handle" ELSE "done"
        /\ UNCHANGED <<script, cpu, since, dumps, start_tick, end_tick, insts,
                       cpts, said>>

\* Switching by instruction count happens once, switching by request as
\* often as the guest asks.
ApuSwitches ==
  \/ script.fast_forward = "insts" /\ exit = "max_insts"
  \/ script.fast_forward = "pseudo_op" /\ exit = "switchcpu"

\* The statistics are dumped if it is the detailed CPUs that stop.
ApuSwitchDumpsAll ==                                        \* faulty variant
  /\ pc = "handle" /\ script.kind = "apu_se" /\ ApuSwitches
  /\ dumps' = IF script.fast_forward = "pseudo_op"
              THEN Append(dumps, Interval(since, curTick)) ELSE dumps
  /\ curTick' \in Drained(curTick)
  /\ since' = curTick'
  /\ cpu' = IF cpu = "kvm" THEN "timing" ELSE "kvm"
  /\ pc' = IF script.fast_forward = "insts" THEN "simulate_last" ELSE "simulate"
  /\ UNCHANGED <<script, guest, exit, start_tick, end_tick, insts, cpts, said,
                 periods>>
ApuSwitch ==
  /\ pc = "handle" /\ script.kind = "apu_se" /\ ApuSwitches
  /\ dumps' = IF script.fast_forward = "pseudo_op" /\ cpu = "timing"
              THEN Append(dumps, Interval(since, curTick)) ELSE dumps
  /\ curTick' \in Drained(curTick)
  /\ since' = curTick'
  /\ cpu' = IF cpu = "kvm" THEN "timing" ELSE "kvm"
  /\ pc' = IF script.fast_forward = "insts" THEN "simulate_last" ELSE "simulate"
  /\ UNCHANGED <<script, guest, exit, start_tick, end_tick, insts, cpts, said,
                 periods>>

ApuEnd ==
  /\ pc = "handle" /\ script.kind = "apu_se" /\ ~ApuSwitches
  /\ pc' = "done"
  /\ Unchecked

-----------------------------------------------------------------------------
(* runfs.py of the full-system GPU, and run() of the Arm scripts.          *)

\* simulate(args.abs_max_tick), from where a restored checkpoint starts.
FullSystemTicks == IF script.kind = "gpufs" /\ script.ticks # None
                   THEN script.ticks ELSE MaxTick
FullSystemRun ==
  /\ pc = "simulate_fs"
  /\ \E e \in Exits(FullSystemTicks) :
       /\ Simulated(e)
       /\ curTick' = e.tick
  /\ pc' = "handle"
  /\ UNCHANGED <<script, cpu, since, dumps, start_tick, end_tick, insts, cpts,
                 said>>

WriteCheckpointAfterDrain ==                                \* faulty variant
  /\ curTick' \in Drained(curTick)
  /\ cpts' = Append(cpts, [name |-> curTick', tick |-> curTick'])
WriteCheckpoint ==
  /\ curTick' \in Drained(curTick)
  /\ cpts' = Append(cpts, [name |-> curTick, tick |-> curTick'])

GpuKnownUnlimited == {"m5_exit", "user_interrupt"}          \* faulty variant
GpuKnown          == {"m5_exit", "user_interrupt", "limit"}

\* The loop takes the exit event of the one call before it.
GpuEnd ==
  /\ pc = "handle" /\ script.kind = "gpufs" /\ exit \in GpuKnown
  /\ pc' = "done"
  /\ Unchecked
GpuCheckpoint ==
  /\ pc = "handle" /\ script.kind = "gpufs" /\ exit = "checkpoint"
  /\ \/ /\ ~script.checkpoint_dir
        /\ pc' = "failed"
        /\ Unchecked
     \/ /\ script.checkpoint_dir
        /\ WriteCheckpoint /\ pc' = "done"
        /\ UNCHANGED <<script, guest, cpu, exit, since, dumps, start_tick,
                       end_tick, insts, said, periods>>
GpuContinue ==
  /\ pc = "handle" /\ script.kind = "gpufs"
  /\ exit \notin GpuKnown \cup {"checkpoint"}
  /\ said' = TRUE
  /\ UNCHANGED <<script, pc, curTick, guest, cpu, exit, since, dumps,
                 start_tick, end_tick, insts, cpts, periods>>

ArmHandle ==
  /\ pc = "handle" /\ script.kind = "arm"
  /\ \/ /\ exit = "checkpoint"
        /\ WriteCheckpoint /\ pc' = "simulate_fs"
        /\ UNCHANGED <<script, guest, cpu, exit, since, dumps, start_tick,
                       end_tick, insts, said, periods>>
     \/ /\ exit # "checkpoint"
        /\ pc' = "done"
        /\ Unchecked

-----------------------------------------------------------------------------
(* Instantiation, with or without a checkpoint.                            *)

FirstCall(s) ==
  CASE s.kind \in Regions \cup {"riscv_ubuntu"} -> "boot"
    [] s.kind = "apu_se"                        -> "check"
    [] s.kind \in {"gpufs", "arm"}              -> "simulate_fs"

\* The benchmarks boot on KVM CPUs; so does apu_se.py if it fast forwards.
FirstCpu(s) ==
  IF s.kind \in Regions \/ (s.kind = "apu_se" /\ s.fast_forward # "none")
  THEN "kvm" ELSE "timing"

Init ==
  /\ script \in Scripts
  /\ pc = FirstCall(script) /\ cpu = FirstCpu(script)
  /\ curTick = IF script.kind \in {"gpufs", "arm"} THEN script.restored ELSE 0
  /\ guest = MaxGuest /\ exit = "none"
  /\ since = curTick /\ start_tick = curTick /\ end_tick = curTick
  /\ insts = Interval(curTick, curTick)
  /\ dumps = <<>> /\ cpts = <<>> /\ said = FALSE /\ periods = <<>>

Next == \/ Boot \/ Region \/ CopyLogs \/ BootUbuntu
        \/ ApuCheck \/ ApuSimulate \/ ApuSwitch \/ ApuEnd
        \/ FullSystemRun \/ GpuEnd \/ GpuCheckpoint \/ GpuContinue \/ ArmHandle

\* Every call of the simulator returns: it has a limit or the guest's events.
Spec == Init /\ [][Next]_vars /\ WF_vars(Next)

-----------------------------------------------------------------------------
\* The first statistics a benchmark script dumps are those of the region of
\* interest: from the event that began it to the one that ended it, all of
\* it (but the drain of the switch) on the detailed CPUs, whatever else the
\* guest raises (l.211-258 of x86-parsec-benchmarks.py and its likes).  What
\* it reports at its end, the instructions and (except SPEC 2006, whose time
\* includes copying the logs) the time, is of that region, although statistics
\* are read, dumped, reset and switched in a different order in each script.
ReportOfRegion ==
  script.kind \in Regions =>
    /\ dumps # <<>> =>
         /\ Len(periods) >= 2
         /\ periods[1].cause = Benchmark.begin
         /\ periods[2].cause \in Benchmark.ends
         /\ dumps[1] = Interval(periods[1].to, periods[2].to)
         /\ periods[2].cpu = "timing"
         /\ periods[2].from - periods[1].to <= MaxDrain
    /\ pc = "done" =>
         /\ insts = Interval(periods[1].to, periods[2].to)
         /\ start_tick = insts.from
         /\ end_tick = IF Benchmark.sets_end THEN periods[Len(periods)].to
                                             ELSE insts.to

\* How many of the numbers S come up to k.
Rank(S, k) == Cardinality({j \in S : j <= k})

\* "If we are switching *to* kvm, then the current stats are meaningful"
\* (apu_se.py l.728): the dumps are exactly the periods on the detailed CPUs
\* that the guest ended, in their order, without the drains of the switches
\* around them.
DetailedPeriodsDumped ==
  (script.kind = "apu_se" /\ script.fast_forward = "pseudo_op"
     /\ pc # "handle") =>
    LET detailed == {k \in 1 .. Len(periods) :
                       periods[k].cpu = "timing" /\ periods[k].cause = "switchcpu"}
    IN  /\ Len(dumps) = Cardinality(detailed)
        /\ \A k \in detailed :
             dumps[Rank(detailed, k)] = Interval(periods[k].from, periods[k].to)

\* No call of apu_se.py simulates past --abs-max-tick, however often the
\* CPUs were switched before.
ApuStopsAtMaxTick ==
  script.kind = "apu_se" =>
    \A k \in 1 .. Len(periods) : periods[k].to <= ApuMaxTick

\* The Arm scripts answer every checkpoint the guest asks for, in the order
\* of the requests, in a directory named after the tick of the request.
RequestsAnswered ==
  (script.kind = "arm" /\ pc # "handle") =>
    LET requests == {k \in 1 .. Len(periods) : periods[k].cause = "checkpoint"}
    IN  /\ Len(cpts) = Cardinality(requests)
        /\ \A k \in requests : cpts[Rank(requests, k)].name = periods[k].to

\* Every script ends, whichever exit event stops it and however often it goes
\* on.  The one exception is runfs.py stopped by a mark or a request of the
\* guest that it does not know: "Keep executing while there is something to
\* do" (l.108) is a loop that never simulates again.
EveryRunEnds ==
  <>(\/ pc \in Final
     \/ script.kind = "gpufs" /\ exit \in {"workbegin", "workend",
                                          "switchcpu", "other"})
=============================================================================
